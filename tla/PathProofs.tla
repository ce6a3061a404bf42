----------------------------- MODULE PathProofs -----------------------------
(***************************************************************************)
(* Proofs about the way of the frames through PacketFlow, for every wiring *)
(* with such a way, every traffic, capacity and failure.                   *)
(*                                                                         *)
(* Where they are: on the path from a sniffer to a sender, a captured      *)
(* frame is in one place at any time.  (Copies made for a node beside it   *)
(* are not followed.)                                                      *)
(*                                                                         *)
(* In which order they leave: on a lane, the way from the sniffer through  *)
(* one tagger to a sender, frames do not overtake each other: a later one  *)
(* is never further on, and in each queue and on the wire the earlier one  *)
(* comes first.                                                            *)
(*                                                                         *)
(* How many there are: a frame goes only forward, so none is lost twice at *)
(* the same place; every step then changes a count of frames and the       *)
(* statistic that a node keeps of it by the same amount.                   *)
(***************************************************************************)
EXTENDS PacketFlowProofs, FiniteSetTheorems

(* What a node still has to push along the path, and what a sender has.    *)
OnTheWay(Path, n) ==
  \/ Kind[n] = "sender"
  \/ \E i \in 1..Len(todo[n]) : todo[n][i] \in Path

InHand(Path, n, id) ==
  n \in Path /\ hand[n] # NoFrame /\ hand[n].id = id /\ OnTheWay(Path, n)
InQueue(Path, n, id) ==
  n \in Path /\ \E i \in 1..Len(queue[n]) : queue[n][i].id = id
LostBy(Path, n, id) ==
  n \in Path /\ \E l \in lost : l.node = n /\ l.id = id
IsSent(id) == \E i \in 1..Len(sent) : sent[i].id = id

(* Frame id is at p and nowhere else on the path.                          *)
AtWire == <<"wire", "wire">>
Spots == ({"hand", "queue", "lost"} \X Nodes) \cup {AtWire}
Only(Path, id, p) ==
  /\ \A n \in Nodes :
       /\ InHand(Path, n, id) <=> p = <<"hand", n>>
       /\ InQueue(Path, n, id) <=> p = <<"queue", n>>
       /\ LostBy(Path, n, id) <=> p = <<"lost", n>>
  /\ IsSent(id) <=> p = AtWire

InOnePlace(Path) ==
  \A id \in 1..Len(captured) : \E p \in Spots : Only(Path, id, p)

(* No container on the path has a frame twice.                             *)
QueuedOnce(Path) ==
  \A n \in Path : \A i, j \in 1..Len(queue[n]) :
     queue[n][i].id = queue[n][j].id => i = j
LostOnce(Path) ==
  \A l, k \in lost : l.node \in Path /\ k.node \in Path /\ l.id = k.id => l = k

(* Pushes along the path are by nodes of the path, one for each frame.     *)
PushedOnce(Path, n, targets) ==
  \A i, j \in 1..Len(targets) :
     targets[i] \in Path /\ targets[j] \in Path => n \in Path /\ i = j
TodoOnce(Path) ==
  \A n \in Nodes :
    /\ PushedOnce(Path, n, todo[n])
    /\ Kind[n] = "sender" => todo[n] = <<>>

LostByNodes == \A l \in lost : l.node \in Nodes

PathInv(Path) ==
  /\ InOnePlace(Path) /\ QueuedOnce(Path) /\ SentOnce /\ LostOnce(Path)
  /\ TodoOnce(Path) /\ LostByNodes
-----------------------------------------------------------------------------
(* What a step leaves as it is for frame id.                               *)
SameFor(Path, id) ==
  /\ \A n \in Nodes :
       /\ InHand(Path, n, id)' <=> InHand(Path, n, id)
       /\ InQueue(Path, n, id)' <=> InQueue(Path, n, id)
       /\ LostBy(Path, n, id)' <=> LostBy(Path, n, id)
  /\ IsSent(id)' <=> IsSent(id)

(* A step that moves none of the frames, and one that moves one of them.   *)
Stays(Path) == \A id : SameFor(Path, id)
Moves(Path, id, p, q) ==
  /\ id \in 1..Len(captured) /\ Only(Path, id, p) /\ Only(Path, id, q)'
  /\ \A other : other # id => SameFor(Path, other)

(* The frame that is moved is in one place afterwards, as before.          *)
LEMMA OneFrameMoves ==
  ASSUME NEW Path \in SUBSET Nodes, InOnePlace(Path), Len(captured') = Len(captured),
         NEW moved, NEW q \in Spots, Only(Path, moved, q)',
         \A id \in 1..Len(captured) : id # moved => SameFor(Path, id)
  PROVE  InOnePlace(Path)'
<1> SUFFICES ASSUME NEW id \in 1..Len(captured)
             PROVE  \E p \in Spots : Only(Path, id, p)'
  BY DEF InOnePlace
<1>1. CASE id = moved
  BY <1>1
<1>2. CASE id # moved
  <2>1. PICK p \in Spots : Only(Path, id, p)
    BY DEF InOnePlace
  <2>2. SameFor(Path, id)
    BY <1>2
  <2>3. Only(Path, id, p)'
    BY <2>1, <2>2 DEF Only, SameFor
  <2> QED
    BY <2>3
<1> QED
  BY <1>1, <1>2

(* If none is moved, all of them are.                                      *)
LEMMA NoFrameMoves ==
  ASSUME NEW Path \in SUBSET Nodes, InOnePlace(Path), Len(captured') = Len(captured),
         \A id \in 1..Len(captured) : SameFor(Path, id)
  PROVE  InOnePlace(Path)'
<1> SUFFICES ASSUME NEW id \in 1..Len(captured)
             PROVE  \E p \in Spots : Only(Path, id, p)'
  BY DEF InOnePlace
<1>1. PICK p \in Spots : Only(Path, id, p)
  BY DEF InOnePlace
<1>2. SameFor(Path, id)
  OBVIOUS
<1>3. Only(Path, id, p)'
  BY <1>1, <1>2 DEF Only, SameFor
<1> QED
  BY <1>3

(* Being somewhere is being nowhere else.                                  *)
LEMMA NowhereElse ==
  ASSUME NEW Path \in SUBSET Nodes, InOnePlace(Path),
         NEW id \in 1..Len(captured), NEW n \in Nodes
  PROVE  /\ InHand(Path, n, id) => Only(Path, id, <<"hand", n>>)
         /\ InQueue(Path, n, id) => Only(Path, id, <<"queue", n>>)
BY DEF InOnePlace, Only

(* The buffers of the other nodes.                                         *)
LEMMA OtherHands ==
  ASSUME NEW Path \in SUBSET Nodes, NEW n \in Nodes, NEW id,
         \A m \in Nodes : m # n => hand'[m] = hand[m] /\ todo'[m] = todo[m]
  PROVE  \A m \in Nodes : m # n => (InHand(Path, m, id)' <=> InHand(Path, m, id))
BY DEF InHand, OnTheWay

(* A queue from which the first frame was taken.                           *)
LEMMA PopWhere ==
  ASSUME NEW Path \in SUBSET Nodes, FrameInv, PathInv(Path),
         NEW n \in Nodes, Popped(n)
  PROVE  /\ n \in Path => InQueue(Path, n, Head(queue[n]).id)
         /\ \A m \in Nodes : \A id :
              InQueue(Path, m, id)' <=>
                InQueue(Path, m, id) /\ ~(m = n /\ id = Head(queue[n]).id)
         /\ QueuedOnce(Path)'
<1> DEFINE f == Head(queue[n])
<1>1. /\ Len(queue[n]) \in Nat /\ 1 \in 1..Len(queue[n]) /\ f = queue[n][1]
      /\ Len(queue'[n]) = Len(queue[n]) - 1
      /\ \A i \in 1..Len(queue'[n]) :
           i + 1 \in 1..Len(queue[n]) /\ queue'[n][i] = queue[n][i + 1]
      /\ \A m \in Nodes : m # n => queue'[m] = queue[m]
  BY PopKeeps
<1> HIDE DEF f
<1>2. n \in Path => InQueue(Path, n, f.id)
  BY <1>1 DEF InQueue
<1>3. ASSUME NEW id
      PROVE  InQueue(Path, n, id)' <=> InQueue(Path, n, id) /\ id # f.id
  <2>1. CASE n \in Path
    <3>1. ASSUME NEW i \in 1..Len(queue'[n]), queue'[n][i].id = id
          PROVE  InQueue(Path, n, id) /\ id # f.id
      <4>1. i + 1 \in 1..Len(queue[n]) /\ queue[n][i + 1].id = id /\ i + 1 # 1
        BY <1>1, <3>1
      <4> QED
        BY <1>1, <2>1, <4>1 DEF InQueue, PathInv, QueuedOnce
    <3>2. ASSUME NEW i \in 1..Len(queue[n]), queue[n][i].id = id, id # f.id
          PROVE  InQueue(Path, n, id)'
      <4>1. i # 1
        BY <1>1, <3>2
      <4>2. i - 1 \in 1..Len(queue'[n]) /\ queue'[n][i - 1] = queue[n][i]
        BY <1>1, <4>1
      <4> QED
        BY <2>1, <3>2, <4>2 DEF InQueue
    <3> QED
      BY <2>1, <3>1, <3>2 DEF InQueue
  <2>2. CASE n \notin Path
    BY <2>2 DEF InQueue
  <2> QED
    BY <2>1, <2>2
<1>4. \A m \in Nodes : \A id :
        m # n => (InQueue(Path, m, id)' <=> InQueue(Path, m, id))
  BY <1>1 DEF InQueue
<1>5. QueuedOnce(Path)'
  <2> SUFFICES ASSUME NEW m \in Path, NEW i \in 1..Len(queue'[m]),
                      NEW j \in 1..Len(queue'[m]), queue'[m][i].id = queue'[m][j].id
               PROVE  i = j
    BY DEF QueuedOnce
  <2>1. CASE m = n
    <3>1. /\ i + 1 \in 1..Len(queue[n]) /\ queue'[m][i] = queue[n][i + 1]
          /\ j + 1 \in 1..Len(queue[n]) /\ queue'[m][j] = queue[n][j + 1]
      BY <1>1, <2>1
    <3>2. i + 1 = j + 1
      BY <2>1, <3>1 DEF PathInv, QueuedOnce
    <3> QED
      BY <1>1, <2>1, <3>2
  <2>2. CASE m # n
    BY <1>1, <2>2 DEF PathInv, QueuedOnce
  <2> QED
    BY <2>1, <2>2
<1> QED
  BY <1>2, <1>3, <1>4, <1>5 DEF f

(* A queue to which a frame was added that it did not have.                *)
LEMMA PushWhere ==
  ASSUME NEW Path \in SUBSET Nodes, FrameInv, PathInv(Path),
         NEW m \in Nodes, NEW f \in Frames,
         queue' = [queue EXCEPT ![m] = Append(@, f)],
         ~InQueue(Path, m, f.id)
  PROVE  /\ \A n \in Nodes : \A id :
              InQueue(Path, n, id)' <=>
                InQueue(Path, n, id) \/ (n = m /\ m \in Path /\ id = f.id)
         /\ QueuedOnce(Path)'
<1> DEFINE last == Len(queue[m]) + 1
<1>1. /\ Len(queue[m]) \in Nat /\ Len(queue'[m]) = last
      /\ \A i \in 1..Len(queue[m]) : queue'[m][i] = queue[m][i]
      /\ queue'[m][last] = f
      /\ \A n \in Nodes : n # m => queue'[n] = queue[n]
  <2>1. Len(queue[m]) \in Nat /\ Len(queue'[m]) = Len(queue[m]) + 1
    BY PushKeeps
  <2>2. /\ \A i \in 1..Len(queue[m]) : queue'[m][i] = queue[m][i]
        /\ queue'[m][Len(queue'[m])] = f
        /\ \A n \in Nodes : n # m => queue'[n] = queue[n]
    BY PushKeeps
  <2> QED
    BY <2>1, <2>2
<1>2. ASSUME NEW id, m \in Path
      PROVE  InQueue(Path, m, id)' <=> InQueue(Path, m, id) \/ id = f.id
  <2>1. ASSUME NEW i \in 1..Len(queue'[m]), queue'[m][i].id = id
        PROVE  InQueue(Path, m, id) \/ id = f.id
    <3>1. CASE i = last
      BY <1>1, <2>1, <3>1
    <3>2. CASE i # last
      BY <1>1, <1>2, <2>1, <3>2 DEF InQueue
    <3> QED
      BY <3>1, <3>2
  <2>2. ASSUME NEW i \in 1..Len(queue[m]), queue[m][i].id = id
        PROVE  InQueue(Path, m, id)'
    <3>1. i \in 1..Len(queue'[m]) /\ queue'[m][i].id = id
      BY <1>1, <2>2
    <3> QED
      BY <1>2, <3>1 DEF InQueue
  <2>3. ASSUME id = f.id PROVE InQueue(Path, m, id)'
    <3>1. last \in 1..Len(queue'[m]) /\ queue'[m][last].id = id
      BY <1>1, <2>3
    <3> QED
      BY <1>2, <3>1 DEF InQueue
  <2> QED
    BY <1>2, <2>1, <2>2, <2>3 DEF InQueue
<1>3. \A n \in Nodes : \A id :
        n # m => (InQueue(Path, n, id)' <=> InQueue(Path, n, id))
  BY <1>1 DEF InQueue
<1>4. QueuedOnce(Path)'
  <2> SUFFICES ASSUME NEW n \in Path, NEW i \in 1..Len(queue'[n]),
                      NEW j \in 1..Len(queue'[n]), queue'[n][i].id = queue'[n][j].id
               PROVE  i = j
    BY DEF QueuedOnce
  <2>1. CASE n # m
    BY <1>1, <2>1 DEF PathInv, QueuedOnce
  <2>2. CASE n = m
    <3>1. ASSUME NEW k \in 1..Len(queue[m]) PROVE queue'[m][k].id # f.id
      <4>1. queue'[m][k].id = queue[m][k].id
        BY <1>1
      <4> QED
        BY <2>2, <4>1 DEF InQueue
    <3>2. CASE i # last /\ j # last
      <4>1. /\ i \in 1..Len(queue[m]) /\ queue'[m][i] = queue[m][i]
            /\ j \in 1..Len(queue[m]) /\ queue'[m][j] = queue[m][j]
        BY <1>1, <2>2, <3>2
      <4> QED
        BY <2>2, <4>1 DEF PathInv, QueuedOnce
    <3>3. CASE i = last /\ j # last
      <4>1. j \in 1..Len(queue[m]) /\ queue'[m][i].id = f.id
        BY <1>1, <2>2, <3>3
      <4> QED
        BY <2>2, <3>1, <4>1
    <3>4. CASE i # last /\ j = last
      <4>1. i \in 1..Len(queue[m]) /\ queue'[m][j].id = f.id
        BY <1>1, <2>2, <3>4
      <4> QED
        BY <2>2, <3>1, <4>1
    <3> QED
      BY <3>2, <3>3, <3>4
  <2> QED
    BY <2>1, <2>2
<1>5. \A id : m \notin Path => ~InQueue(Path, m, id)' /\ ~InQueue(Path, m, id)
  BY DEF InQueue
<1> QED
  BY <1>2, <1>3, <1>4, <1>5

(* The frames let go, when one is added that was not lost on the path.     *)
LEMMA LoseWhere ==
  ASSUME NEW Path \in SUBSET Nodes, PathInv(Path), NEW gone,
         lost' = lost \cup {gone}, gone.node \in Nodes,
         gone.node \in Path => \A n \in Nodes : ~LostBy(Path, n, gone.id)
  PROVE  /\ \A n \in Nodes : \A id :
              LostBy(Path, n, id)' <=>
                LostBy(Path, n, id) \/ (n = gone.node /\ n \in Path /\ id = gone.id)
         /\ LostOnce(Path)' /\ LostByNodes'
<1>1. \A n \in Nodes : \A id :
        LostBy(Path, n, id)' <=>
          LostBy(Path, n, id) \/ (n = gone.node /\ n \in Path /\ id = gone.id)
  BY DEF LostBy
<1>2. ASSUME NEW l \in lost, l.node \in Path, gone.node \in Path
      PROVE  l.id # gone.id
  BY <1>2 DEF LostBy
<1>3. LostOnce(Path)'
  BY <1>2 DEF LostOnce, PathInv
<1> QED
  BY <1>1, <1>3 DEF LostByNodes, PathInv

(* The wire, when a frame is sent that was not on it.                      *)
LEMMA SendWhere ==
  ASSUME FrameInv, SentOnce, NEW f \in Frames, sent' = Append(sent, f), ~IsSent(f.id)
  PROVE  (\A id : IsSent(id)' <=> IsSent(id) \/ id = f.id) /\ SentOnce'
<1> DEFINE last == Len(sent) + 1
<1>1. /\ Len(sent) \in Nat /\ Len(sent') = last
      /\ \A i \in 1..Len(sent) : sent'[i] = sent[i]
      /\ sent'[last] = f
  BY AppendProperties, LenProperties DEF FrameInv, FrameTypes
<1>2. \A id : IsSent(id)' <=> IsSent(id) \/ id = f.id
  <2> SUFFICES ASSUME NEW id PROVE IsSent(id)' <=> IsSent(id) \/ id = f.id
    OBVIOUS
  <2>1. ASSUME NEW i \in 1..Len(sent'), sent'[i].id = id
        PROVE  IsSent(id) \/ id = f.id
    BY <1>1, <2>1 DEF IsSent
  <2>2. ASSUME NEW i \in 1..Len(sent), sent[i].id = id PROVE IsSent(id)'
    <3>1. i \in 1..Len(sent') /\ sent'[i].id = id
      BY <1>1, <2>2
    <3> QED
      BY <3>1 DEF IsSent
  <2>3. ASSUME id = f.id PROVE IsSent(id)'
    <3>1. last \in 1..Len(sent') /\ sent'[last].id = id
      BY <1>1, <2>3
    <3> QED
      BY <3>1 DEF IsSent
  <2> QED
    BY <2>1, <2>2, <2>3 DEF IsSent
<1>3. SentOnce'
  <2> SUFFICES ASSUME NEW i \in 1..Len(sent'), NEW j \in 1..Len(sent'),
                      sent'[i].id = sent'[j].id
               PROVE  i = j
    BY DEF SentOnce
  <2>1. \A k \in 1..Len(sent) : sent'[k].id # f.id
    BY <1>1 DEF IsSent
  <2>2. CASE i # last /\ j # last
    <3>1. i \in 1..Len(sent) /\ j \in 1..Len(sent)
      BY <1>1, <2>2
    <3> QED
      BY <1>1, <3>1 DEF SentOnce
  <2>3. CASE i = last /\ j # last
    BY <1>1, <2>1, <2>3
  <2>4. CASE i # last /\ j = last
    BY <1>1, <2>1, <2>4
  <2> QED
    BY <2>2, <2>3, <2>4
<1> QED
  BY <1>2, <1>3
-----------------------------------------------------------------------------
(* What nodes are to push changes at n only.                               *)
LEMMA TodoKept ==
  ASSUME NEW Path \in SUBSET Nodes, TodoOnce(Path), NEW n \in Nodes,
         \A m \in Nodes : m # n => todo'[m] = todo[m],
         PushedOnce(Path, n, todo'[n]),
         Kind[n] = "sender" => todo'[n] = <<>>
  PROVE  TodoOnce(Path)'
<1> SUFFICES ASSUME NEW m \in Nodes
             PROVE  /\ PushedOnce(Path, m, todo'[m])
                    /\ Kind[m] = "sender" => todo'[m] = <<>>
  BY DEF TodoOnce, PushedOnce
<1>1. CASE m = n
  BY <1>1
<1>2. CASE m # n
  BY <1>2 DEF TodoOnce
<1> QED
  BY <1>1, <1>2

(* The ids in a queue are those of captured frames.                        *)
LEMMA HeadIsCaptured ==
  ASSUME FrameInv, NEW n \in Nodes, Popped(n), UNCHANGED captured
  PROVE  Head(queue[n]) \in Frames /\ Head(queue[n]).id \in 1..Len(captured)
<1>1. Head(queue[n]) \in Frames /\ Origin(Head(queue[n]), captured', n \in RawNodes)
  BY PopKeepsFrames
<1>2. (n \in RawNodes) \in BOOLEAN
  OBVIOUS
<1> QED
  BY <1>1, <1>2, OriginIsCaptured

(* Where a frame goes that n takes out of its queue, if n is on the path.  *)
TakenUp(Path, n, id) ==
  IF n \in Path THEN Moves(Path, id, <<"queue", n>>, <<"hand", n>>) ELSE Stays(Path)

(* n takes a frame out of its queue and begins to pass it on.              *)
LEMMA TakeUpKeeps ==
  ASSUME NEW Path \in SUBSET Nodes, FlowInv, FrameInv, PathInv(Path),
         NEW n \in Nodes, NEW g \in Frames, NEW targets \in Seq(Nodes),
         Popped(n), Forward(n, g, targets), g.id = Head(queue[n]).id,
         Kind[n] # "sender", UNCHANGED <<captured, sent, lost>>,
         PushedOnce(Path, n, targets),
         n \in Path => \E i \in 1..Len(targets) : targets[i] \in Path
  PROVE  PathInv(Path)' /\ TakenUp(Path, n, g.id)
<1>1. /\ hand'[n] = IF targets = <<>> THEN NoFrame ELSE g
      /\ todo'[n] = targets
      /\ \A m \in Nodes : m # n => hand'[m] = hand[m] /\ todo'[m] = todo[m]
  BY ForwardKeeps
<1>2. hand[n] = NoFrame
  BY DEF Popped, FrameInv, Phases, Phase
<1>3. g.id \in 1..Len(captured)
  BY HeadIsCaptured
<1>4. /\ n \in Path => InQueue(Path, n, g.id)
      /\ \A m \in Nodes : \A id :
           InQueue(Path, m, id)' <=> InQueue(Path, m, id) /\ ~(m = n /\ id = g.id)
      /\ QueuedOnce(Path)'
  BY PopWhere
<1>5. \A id : InHand(Path, n, id)' <=> n \in Path /\ id = g.id
  <2>1. ASSUME n \in Path PROVE hand'[n] = g /\ g # NoFrame /\ OnTheWay(Path, n)'
    <3>1. PICK i \in 1..Len(targets) : targets[i] \in Path
      BY <2>1
    <3>2. targets # <<>>
      BY <3>1
    <3>3. OnTheWay(Path, n)'
      BY <1>1, <3>1 DEF OnTheWay
    <3> QED
      BY <1>1, <3>2, <3>3, FlowConstants
  <2> QED
    BY <2>1 DEF InHand
<1>6. \A id : ~InHand(Path, n, id)
  BY <1>2 DEF InHand
<1>7. ASSUME NEW id
      PROVE  /\ \A m \in Nodes : LostBy(Path, m, id)' <=> LostBy(Path, m, id)
             /\ IsSent(id)' <=> IsSent(id)
  BY DEF LostBy, IsSent
<1>8. ASSUME NEW id, n \notin Path \/ id # g.id PROVE SameFor(Path, id)
  <2>1. \A m \in Nodes : InHand(Path, m, id)' <=> InHand(Path, m, id)
    <3>1. \A m \in Nodes : m # n => (InHand(Path, m, id)' <=> InHand(Path, m, id))
      BY <1>1, OtherHands
    <3>2. InHand(Path, n, id)' <=> InHand(Path, n, id)
      BY <1>5, <1>6, <1>8
    <3> QED
      BY <3>1, <3>2
  <2>2. \A m \in Nodes : InQueue(Path, m, id)' <=> InQueue(Path, m, id)
    <3>1. CASE id # g.id
      BY <1>4, <3>1
    <3>2. CASE n \notin Path
      <4>1. ~InQueue(Path, n, id) /\ ~InQueue(Path, n, id)'
        BY <3>2 DEF InQueue
      <4> QED
        BY <1>4, <4>1
    <3> QED
      BY <1>8, <3>1, <3>2
  <2> QED
    BY <1>7, <2>1, <2>2 DEF SameFor
<1>9. ASSUME n \in Path PROVE Moves(Path, g.id, <<"queue", n>>, <<"hand", n>>)
  <2>1. Only(Path, g.id, <<"queue", n>>)
    BY <1>3, <1>4, <1>9, NowhereElse DEF PathInv
  <2>2. Only(Path, g.id, <<"hand", n>>)'
    <3>1. \A m \in Nodes : InHand(Path, m, g.id)' <=> m = n
      BY <1>1, <1>5, <1>9, <2>1, OtherHands DEF Only
    <3>2. \A m \in Nodes : ~InQueue(Path, m, g.id)'
      BY <1>4, <2>1 DEF Only
    <3>3. (\A m \in Nodes : ~LostBy(Path, m, g.id)') /\ ~IsSent(g.id)'
      BY <1>7, <2>1 DEF Only, AtWire
    <3> QED
      BY <3>1, <3>2, <3>3 DEF Only, AtWire
  <2> QED
    BY <1>3, <1>8, <2>1, <2>2 DEF Moves
<1>12. TakenUp(Path, n, g.id)
  BY <1>8, <1>9 DEF TakenUp, Stays
<1>13. InOnePlace(Path)'
  <2>1. CASE n \in Path
    <3>1. <<"hand", n>> \in Spots
      BY DEF Spots
    <3> QED
      BY <1>9, <2>1, <3>1, OneFrameMoves DEF PathInv, Moves
  <2>2. CASE n \notin Path
    BY <1>8, <2>2, NoFrameMoves DEF PathInv
  <2> QED
    BY <2>1, <2>2
<1>10. SentOnce' /\ LostOnce(Path)' /\ LostByNodes'
  BY DEF PathInv, SentOnce, LostOnce, LostByNodes
<1>11. TodoOnce(Path)'
  BY <1>1, TodoKept DEF PathInv
<1> QED
  BY <1>4, <1>10, <1>11, <1>12, <1>13 DEF PathInv

(* The outputs of a node, but a dispatcher, lead along the path once.      *)
LEMMA OutputsOnPath ==
  ASSUME NEW Path \in SUBSET Nodes, MainPath(Path), NEW n \in Nodes,
         Kind[n] \notin {"dispatcher", "sender"}
  PROVE  /\ PushedOnce(Path, n, Outputs[n])
         /\ n \in Path => \E i \in 1..Len(Outputs[n]) : Outputs[n][i] \in Path
<1> DEFINE onPath == {i \in 1..Len(Outputs[n]) : Outputs[n][i] \in Path}
<1>1. n \notin Path => onPath = {}
  BY DEF MainPath
<1>2. n \in Path => \E i \in 1..Len(Outputs[n]) : onPath = {i}
  BY DEF MainPath
<1> QED
  BY <1>1, <1>2 DEF PushedOnce

(* So does the one a dispatcher chooses.                                   *)
LEMMA ChosenOnPath ==
  ASSUME NEW Path \in SUBSET Nodes, MainPath(Path), NEW n \in Nodes,
         Kind[n] = "dispatcher", NEW k \in 1..Len(Outputs[n])
  PROVE  /\ <<Outputs[n][k]>> \in Seq(Nodes)
         /\ PushedOnce(Path, n, <<Outputs[n][k]>>)
         /\ n \in Path => \E i \in 1..Len(<<Outputs[n][k]>>) :
                            <<Outputs[n][k]>>[i] \in Path
<1> DEFINE m == Outputs[n][k]
<1>1. m \in Nodes /\ (m \in Path <=> n \in Path)
  BY OutputsAreNodes DEF MainPath
<1> HIDE DEF m
<1>2. <<m>> \in Seq(Nodes) /\ Len(<<m>>) = 1 /\ <<m>>[1] = m
  BY <1>1
<1>3. PushedOnce(Path, n, <<m>>)
  BY <1>1, <1>2 DEF PushedOnce
<1>4. n \in Path => \E i \in 1..Len(<<m>>) : <<m>>[i] \in Path
  BY <1>1, <1>2
<1> QED
  BY <1>2, <1>3, <1>4 DEF m

(* A frame taken from a queue and forwarded, counted or logged.            *)
LEMMA PassesOnKeepsPath ==
  ASSUME NEW Path \in SUBSET Nodes, MainPath(Path), FlowInv, FrameInv, PathInv(Path),
         NEW n \in Nodes, PassesOn(n)
  PROVE  /\ PathInv(Path)'
         /\ \A id : id = Head(queue[n]).id => TakenUp(Path, n, id)
<1> DEFINE f == Head(queue[n])
<1>1. Popped(n) /\ UNCHANGED <<captured, sent, lost>> /\ Kind[n] # "sender"
  BY DEF PassesOn, history, Targets
<1>2. f \in Frames
  BY <1>1, HeadIsCaptured
<1>3. PICK targets : Targets(n, targets) /\ Forward(n, f, targets)
  BY DEF PassesOn
<1>4. /\ targets \in Seq(Nodes) /\ PushedOnce(Path, n, targets)
      /\ n \in Path => \E i \in 1..Len(targets) : targets[i] \in Path
  <2>1. CASE Kind[n] \in {"counter", "collector", "logger"} /\ targets = Outputs[n]
    BY <2>1, OutputsAreNodes, OutputsOnPath
  <2>2. ASSUME Kind[n] = "dispatcher", NEW i \in 1..Len(Outputs[n]),
               targets = <<Outputs[n][i]>>
        PROVE  /\ targets \in Seq(Nodes) /\ PushedOnce(Path, n, targets)
               /\ n \in Path => \E j \in 1..Len(targets) : targets[j] \in Path
    BY <2>2, ChosenOnPath
  <2> QED
    BY <1>3, <2>1, <2>2 DEF Targets
<1> HIDE DEF f
<1> QED
  BY <1>1, <1>2, <1>3, <1>4, TakeUpKeeps DEF f

(* A frame taken from a queue and tagged: what goes on has its identity.   *)
LEMMA TagsKeepsPath ==
  ASSUME NEW Path \in SUBSET Nodes, MainPath(Path), FlowInv, FrameInv, PathInv(Path),
         NEW n \in Nodes, Tags(n)
  PROVE  /\ PathInv(Path)'
         /\ \A id : id = Head(queue[n]).id => TakenUp(Path, n, id)
<1> DEFINE f == Head(queue[n])
           g == tagger_node_edit_packet(f, TagOf(f))
<1>1. /\ Kind[n] = "tagger" /\ Popped(n) /\ UNCHANGED <<captured, sent, lost>>
      /\ f.size >= ETH_HLEN + IP_HEADER_MIN_LEN
      /\ tagger_node_get_ip(f) # 0 /\ TagOf(f) # 0
      /\ Forward(n, g, Outputs[n])
  BY DEF Tags
<1>2. n \in RawNodes
  BY <1>1, RawWiring DEF TaggedOnce
<1>3. f \in Frames /\ Original(f, captured)
  BY <1>1, <1>2, PopKeepsFrames DEF Origin
<1> HIDE DEF f
<1>4. g \in Frames /\ g.id = f.id
  BY <1>1, <1>3, TaggingKeepsOrigin
<1> HIDE DEF g
<1>5. /\ Outputs[n] \in Seq(Nodes) /\ PushedOnce(Path, n, Outputs[n])
      /\ n \in Path => \E i \in 1..Len(Outputs[n]) : Outputs[n][i] \in Path
  BY <1>1, OutputsAreNodes, OutputsOnPath
<1> QED
  BY <1>1, <1>4, <1>5, TakeUpKeeps DEF f

(* A record of a frame that was let go.                                    *)
LEMMA GoneRecord ==
  ASSUME NEW id, NEW node, NEW why
  PROVE  /\ [id |-> id, node |-> node, why |-> why].id = id
         /\ [id |-> id, node |-> node, why |-> why].node = node
OBVIOUS

(* A frame that goes no further is lost where it was taken.                *)
LEMMA LetsGoKeepsPath ==
  ASSUME NEW Path \in SUBSET Nodes, FlowInv, FrameInv, PathInv(Path),
         NEW n \in Nodes, LetsGo(n)
  PROVE  /\ PathInv(Path)'
         /\ IF n \in Path
            THEN \A id : id = Head(queue[n]).id =>
                   Moves(Path, id, <<"queue", n>>, <<"lost", n>>)
            ELSE Stays(Path)
<1>0. PICK f : f = Head(queue[n])
  OBVIOUS
<1>1. PICK why : /\ Popped(n) /\ UNCHANGED <<captured, sent, hand, todo>>
                 /\ lost' = lost \cup {[id |-> f.id, node |-> n, why |-> why]}
  BY <1>0 DEF LetsGo, LetGo
<1> DEFINE gone == [id |-> f.id, node |-> n, why |-> why]
<1>2. gone.id = f.id /\ gone.node = n /\ lost' = lost \cup {gone}
  BY <1>1, GoneRecord
<1> HIDE DEF gone
<1>3. f.id \in 1..Len(captured)
  BY <1>0, <1>1, HeadIsCaptured
<1>4. /\ n \in Path => InQueue(Path, n, f.id)
      /\ \A m \in Nodes : \A id :
           InQueue(Path, m, id)' <=> InQueue(Path, m, id) /\ ~(m = n /\ id = f.id)
      /\ QueuedOnce(Path)'
  BY <1>0, <1>1, PopWhere
<1>5. n \in Path => Only(Path, f.id, <<"queue", n>>)
  BY <1>3, <1>4, NowhereElse DEF PathInv
<1>6. /\ \A m \in Nodes : \A id :
           LostBy(Path, m, id)' <=>
             LostBy(Path, m, id) \/ (m = n /\ m \in Path /\ id = f.id)
      /\ LostOnce(Path)' /\ LostByNodes'
  <2>1. gone.node \in Path => \A m \in Nodes : ~LostBy(Path, m, gone.id)
    BY <1>2, <1>5 DEF Only
  <2> QED
    BY <1>2, <2>1, LoseWhere
<1>7. ASSUME NEW id
      PROVE  /\ \A m \in Nodes : InHand(Path, m, id)' <=> InHand(Path, m, id)
             /\ IsSent(id)' <=> IsSent(id)
  BY <1>1 DEF InHand, OnTheWay, IsSent
<1>8. ASSUME NEW id, n \notin Path \/ id # f.id PROVE SameFor(Path, id)
  <2>1. \A m \in Nodes : m \notin Path =>
          ~InQueue(Path, m, id) /\ ~InQueue(Path, m, id)'
    BY DEF InQueue
  <2>2. \A m \in Nodes : InQueue(Path, m, id)' <=> InQueue(Path, m, id)
    BY <1>4, <1>8, <2>1
  <2> QED
    BY <1>6, <1>7, <1>8, <2>2 DEF SameFor
<1>9. ASSUME n \in Path PROVE Moves(Path, f.id, <<"queue", n>>, <<"lost", n>>)
  <2>1. Only(Path, f.id, <<"lost", n>>)'
    <3>1. \A m \in Nodes : ~InHand(Path, m, f.id)' /\ ~InQueue(Path, m, f.id)'
      BY <1>4, <1>5, <1>7, <1>9 DEF Only
    <3>2. \A m \in Nodes : LostBy(Path, m, f.id)' <=> m = n
      BY <1>5, <1>6, <1>9 DEF Only
    <3>3. ~IsSent(f.id)'
      BY <1>5, <1>7, <1>9 DEF Only, AtWire
    <3> QED
      BY <3>1, <3>2, <3>3 DEF Only, AtWire
  <2> QED
    BY <1>3, <1>5, <1>8, <1>9, <2>1 DEF Moves
<1>11. InOnePlace(Path)'
  <2>1. CASE n \in Path
    <3>1. <<"lost", n>> \in Spots
      BY DEF Spots
    <3> QED
      BY <1>1, <1>9, <2>1, <3>1, OneFrameMoves DEF PathInv, Moves
  <2>2. CASE n \notin Path
    BY <1>1, <1>8, <2>2, NoFrameMoves DEF PathInv
  <2> QED
    BY <2>1, <2>2
<1>10. SentOnce' /\ TodoOnce(Path)'
  BY <1>1 DEF PathInv, SentOnce, TodoOnce, PushedOnce
<1>12. n \notin Path => Stays(Path)
  BY <1>8 DEF Stays
<1> QED
  BY <1>0, <1>4, <1>6, <1>9, <1>10, <1>11, <1>12 DEF PathInv

(* A sender takes a frame out of its queue.                                *)
LEMMA FetchesKeepsPath ==
  ASSUME NEW Path \in SUBSET Nodes, MainPath(Path), FlowInv, FrameInv, PathInv(Path),
         NEW n \in Nodes, Fetches(n)
  PROVE  /\ PathInv(Path)'
         /\ \A id : id = Head(queue[n]).id => TakenUp(Path, n, id)
<1>0. PICK f : f = Head(queue[n])
  OBVIOUS
<1>1. /\ Kind[n] = "sender" /\ Popped(n) /\ hand' = [hand EXCEPT ![n] = f]
      /\ UNCHANGED <<captured, sent, lost, todo>>
  BY <1>0 DEF Fetches, history
<1>2. n \in Path
  BY <1>1 DEF MainPath
<1>3. f \in Frames /\ f.id \in 1..Len(captured) /\ f # NoFrame
  BY <1>0, <1>1, HeadIsCaptured, FlowConstants
<1>4. /\ InQueue(Path, n, f.id)
      /\ \A m \in Nodes : \A id :
           InQueue(Path, m, id)' <=> InQueue(Path, m, id) /\ ~(m = n /\ id = f.id)
      /\ QueuedOnce(Path)'
  BY <1>0, <1>1, <1>2, PopWhere
<1>5. Only(Path, f.id, <<"queue", n>>)
  BY <1>3, <1>4, NowhereElse DEF PathInv
<1>6. /\ hand[n] = NoFrame /\ hand'[n] = f
      /\ \A m \in Nodes : m # n => hand'[m] = hand[m]
  BY <1>1 DEF FrameInv, FrameTypes, Popped, Phases, Phase
<1>7. \A id : ~InHand(Path, n, id) /\ (InHand(Path, n, id)' <=> id = f.id)
  BY <1>1, <1>2, <1>3, <1>6 DEF InHand, OnTheWay
<1>8. ASSUME NEW id
      PROVE  /\ \A m \in Nodes : LostBy(Path, m, id)' <=> LostBy(Path, m, id)
             /\ IsSent(id)' <=> IsSent(id)
             /\ \A m \in Nodes : m # n =>
                  (InHand(Path, m, id)' <=> InHand(Path, m, id))
  BY <1>1, <1>6, OtherHands DEF LostBy, IsSent
<1>9. \A id : id # f.id => SameFor(Path, id)
  BY <1>4, <1>7, <1>8 DEF SameFor
<1>10. Only(Path, f.id, <<"hand", n>>)'
  <2>1. \A m \in Nodes : InHand(Path, m, f.id)' <=> m = n
    BY <1>5, <1>7, <1>8 DEF Only
  <2>2. \A m \in Nodes : ~InQueue(Path, m, f.id)' /\ ~LostBy(Path, m, f.id)'
    BY <1>4, <1>5, <1>8 DEF Only
  <2>3. ~IsSent(f.id)'
    BY <1>5, <1>8 DEF Only, AtWire
  <2> QED
    BY <2>1, <2>2, <2>3 DEF Only, AtWire
<1>11. InOnePlace(Path)'
  <2>1. <<"hand", n>> \in Spots
    BY DEF Spots
  <2> QED
    BY <1>1, <1>9, <1>10, <2>1, OneFrameMoves DEF PathInv
<1>12. /\ SentOnce' /\ LostOnce(Path)' /\ LostByNodes' /\ TodoOnce(Path)'
  BY <1>1 DEF PathInv, SentOnce, LostOnce, LostByNodes, TodoOnce, PushedOnce
<1>13. \A id : id = Head(queue[n]).id => TakenUp(Path, n, id)
  <2>1. Moves(Path, f.id, <<"queue", n>>, <<"hand", n>>)
    BY <1>3, <1>5, <1>9, <1>10 DEF Moves
  <2> QED
    BY <1>0, <1>2, <2>1 DEF TakenUp
<1> QED
  BY <1>4, <1>11, <1>12, <1>13 DEF PathInv
-----------------------------------------------------------------------------
(* One push: a frame goes to the next node of the path, or a copy of it    *)
(* leaves the path.                                                        *)

(* What n has left to push, and the frame in its buffer.                   *)
LEMMA PushParts ==
  ASSUME NEW Path \in SUBSET Nodes, FlowInv, FrameInv, PathInv(Path),
         NEW n \in Nodes, SendToOutput(n)
  PROVE  \E f \in Frames, m \in Nodes, rest \in Seq(Nodes) :
           /\ f = hand[n] /\ f # NoFrame /\ f.id \in 1..Len(captured)
           /\ m = Head(todo[n]) /\ rest = Tail(todo[n])
           /\ hand'[n] = IF rest = <<>> THEN NoFrame ELSE f
           /\ todo'[n] = rest
           /\ \A k \in Nodes : k # n => hand'[k] = hand[k] /\ todo'[k] = todo[k]
           /\ Kind[n] # "sender"
           /\ m = todo[n][1] /\ 1 \in 1..Len(todo[n])
           /\ Len(rest) \in Nat /\ Len(todo[n]) = Len(rest) + 1
           /\ \A i \in 1..Len(rest) : rest[i] = todo[n][i + 1]
<1> DEFINE f == hand[n]
           m == Head(todo[n])
           rest == Tail(todo[n])
<1>1. pc[n] = "send" /\ Forward(n, f, rest)
  BY Zenon DEF SendToOutput
<1>2. /\ f \in Frames /\ f # NoFrame /\ Origin(f, captured, PassesRaw(n))
      /\ todo[n] \in Seq(Nodes) /\ todo[n] # <<>>
  BY <1>1, FlowConstants DEF FrameInv, FrameTypes, Phases, Phase, InHands
<1>3. f.id \in 1..Len(captured)
  <2>1. PassesRaw(n) \in BOOLEAN
    BY DEF PassesRaw
  <2> QED
    BY <1>2, <2>1, OriginIsCaptured
<1>4. /\ m = todo[n][1] /\ 1 \in 1..Len(todo[n]) /\ rest \in Seq(Nodes)
      /\ Len(rest) \in Nat /\ Len(todo[n]) = Len(rest) + 1
      /\ \A i \in 1..Len(rest) : rest[i] = todo[n][i + 1]
  BY <1>2, HeadTailProperties, LenProperties, EmptySeq
<1>5. m \in Nodes
  BY <1>2, <1>4, ElementOfSeq
<1>6. Kind[n] # "sender"
  BY <1>2 DEF PathInv, TodoOnce
<1> HIDE DEF f, m, rest
<1>7. /\ hand'[n] = IF rest = <<>> THEN NoFrame ELSE f
      /\ todo'[n] = rest
      /\ \A k \in Nodes : k # n => hand'[k] = hand[k] /\ todo'[k] = todo[k]
  BY <1>1, <1>2, <1>4, ForwardKeeps
<1>8. f = hand[n] /\ m = Head(todo[n]) /\ rest = Tail(todo[n])
  BY DEF f, m, rest
<1> QED
  BY <1>2, <1>3, <1>4, <1>5, <1>6, <1>7, <1>8

(* What is left is still to be pushed once.                                *)
LEMMA RestPushedOnce ==
  ASSUME NEW Path \in SUBSET Nodes, NEW n \in Nodes, NEW ms, NEW rest,
         Len(rest) \in Nat, Len(ms) = Len(rest) + 1,
         \A i \in 1..Len(rest) : rest[i] = ms[i + 1], PushedOnce(Path, n, ms)
  PROVE  /\ PushedOnce(Path, n, rest)
         /\ ms[1] \in Path => n \in Path /\ \A i \in 1..Len(rest) : rest[i] \notin Path
<1>1. ASSUME NEW i \in 1..Len(rest)
      PROVE  i + 1 \in 1..Len(ms) /\ i + 1 # 1 /\ rest[i] = ms[i + 1]
  OBVIOUS
<1>2. 1 \in 1..Len(ms)
  OBVIOUS
<1>3. ASSUME NEW i \in 1..Len(rest), NEW j \in 1..Len(rest),
             rest[i] \in Path, rest[j] \in Path
      PROVE  n \in Path /\ i = j
  <2>1. n \in Path /\ i + 1 = j + 1
    BY <1>1, <1>3 DEF PushedOnce
  <2> QED
    BY <2>1
<1>4. ASSUME ms[1] \in Path
      PROVE  n \in Path /\ \A i \in 1..Len(rest) : rest[i] \notin Path
  BY <1>1, <1>2, <1>4 DEF PushedOnce
<1> QED
  BY <1>3, <1>4 DEF PushedOnce

(* Where n's next push takes the frame in its buffer.                      *)
PushedTo(Path, n, m, f) ==
  IF m \notin Path THEN Stays(Path)
  ELSE \/ /\ Moves(Path, f.id, <<"hand", n>>, <<"queue", m>>)
          /\ queue' = [queue EXCEPT ![m] = Append(@, f)]
       \/ /\ Moves(Path, f.id, <<"hand", n>>, <<"lost", m>>)
          /\ UNCHANGED queue

(* A push moves the frame to the next queue, or loses it if that is full.  *)
LEMMA SendToOutputKeepsPath ==
  ASSUME NEW Path \in SUBSET Nodes, FlowInv, FrameInv, PathInv(Path),
         NEW n \in Nodes, SendToOutput(n)
  PROVE  /\ PathInv(Path)'
         /\ \A m, f : m = Head(todo[n]) /\ f = hand[n] => PushedTo(Path, n, m, f)
<1>1. PICK f \in Frames, m \in Nodes, rest \in Seq(Nodes) :
        /\ f = hand[n] /\ f # NoFrame /\ f.id \in 1..Len(captured)
        /\ m = Head(todo[n]) /\ rest = Tail(todo[n])
        /\ hand'[n] = IF rest = <<>> THEN NoFrame ELSE f
        /\ todo'[n] = rest
        /\ \A k \in Nodes : k # n => hand'[k] = hand[k] /\ todo'[k] = todo[k]
        /\ Kind[n] # "sender"
        /\ m = todo[n][1] /\ 1 \in 1..Len(todo[n])
        /\ Len(rest) \in Nat /\ Len(todo[n]) = Len(rest) + 1
        /\ \A i \in 1..Len(rest) : rest[i] = todo[n][i + 1]
  BY PushParts
<1>2. /\ UNCHANGED <<captured, sent>>
      /\ \/ queue' = [queue EXCEPT ![m] = Append(@, f)] /\ UNCHANGED lost
         \/ /\ lost' = lost \cup {[id |-> f.id, node |-> m, why |-> "push failed"]}
            /\ UNCHANGED queue
  BY <1>1 DEF SendToOutput
<1> DEFINE gone == [id |-> f.id, node |-> m, why |-> "push failed"]
<1>3. gone.id = f.id /\ gone.node = m
  BY GoneRecord
<1>4. \/ queue' = [queue EXCEPT ![m] = Append(@, f)] /\ UNCHANGED lost
      \/ lost' = lost \cup {gone} /\ UNCHANGED queue
  BY <1>2
<1> HIDE DEF gone
<1>5. /\ PushedOnce(Path, n, rest)
      /\ m \in Path => n \in Path /\ \A i \in 1..Len(rest) : rest[i] \notin Path
  <2>1. PICK ms : ms = todo[n]
    OBVIOUS
  <2>2. PushedOnce(Path, n, ms)
    BY <2>1 DEF PathInv, TodoOnce
  <2>3. /\ Len(rest) \in Nat /\ Len(ms) = Len(rest) + 1
        /\ \A i \in 1..Len(rest) : rest[i] = ms[i + 1]
    BY <1>1, <2>1
  <2>4. /\ PushedOnce(Path, n, rest)
        /\ ms[1] \in Path => n \in Path /\ \A i \in 1..Len(rest) : rest[i] \notin Path
    BY <2>2, <2>3, RestPushedOnce, Zenon
  <2>5. m = ms[1]
    BY <1>1, <2>1
  <2> QED
    BY <2>4, <2>5
<1>6. TodoOnce(Path)'
  BY <1>1, <1>5, TodoKept DEF PathInv
<1>7. m \in Path => InHand(Path, n, f.id)
  BY <1>1, <1>5 DEF InHand, OnTheWay
<1>8. m \in Path => Only(Path, f.id, <<"hand", n>>)
  BY <1>1, <1>7, NowhereElse DEF PathInv
<1>9. \A id : InHand(Path, n, id)' <=> InHand(Path, n, id) /\ m \notin Path
  <2> SUFFICES ASSUME NEW id
               PROVE  InHand(Path, n, id)' <=> InHand(Path, n, id) /\ m \notin Path
    OBVIOUS
  <2>1. CASE m \in Path
    BY <1>1, <1>5, <2>1 DEF InHand, OnTheWay
  <2>2. CASE m \notin Path
    <3>1. OnTheWay(Path, n)' <=> OnTheWay(Path, n)
      <4>1. ASSUME NEW i \in 1..Len(rest), rest[i] \in Path
            PROVE  OnTheWay(Path, n)
        <5>1. i + 1 \in 1..Len(todo[n]) /\ todo[n][i + 1] \in Path
          BY <1>1, <4>1
        <5> QED
          BY <5>1 DEF OnTheWay
      <4>2. ASSUME NEW i \in 1..Len(todo[n]), todo[n][i] \in Path
            PROVE  OnTheWay(Path, n)'
        <5>1. i # 1
          BY <1>1, <2>2, <4>2
        <5>2. i - 1 \in 1..Len(rest) /\ rest[i - 1] = todo[n][i]
          BY <1>1, <5>1
        <5>3. todo'[n][i - 1] \in Path /\ i - 1 \in 1..Len(todo'[n])
          BY <1>1, <4>2, <5>2
        <5> QED
          BY <5>3 DEF OnTheWay
      <4> QED
        BY <1>1, <4>1, <4>2 DEF OnTheWay
    <3>2. ASSUME rest = <<>> PROVE ~OnTheWay(Path, n)'
      <4>1. todo'[n] = <<>>
        BY <1>1, <3>2
      <4>2. Len(<<>>) = 0
        BY EmptySeq
      <4>3. Len(todo'[n]) = 0
        BY <4>1, <4>2
      <4> QED
        BY <1>1, <4>3 DEF OnTheWay
    <3> QED
      BY <1>1, <2>2, <3>1, <3>2 DEF InHand
  <2> QED
    BY <2>1, <2>2
<1>10. /\ \A k \in Nodes : \A id :
            /\ k # n => (InHand(Path, k, id)' <=> InHand(Path, k, id))
            /\ UNCHANGED queue => (InQueue(Path, k, id)' <=> InQueue(Path, k, id))
            /\ UNCHANGED lost => (LostBy(Path, k, id)' <=> LostBy(Path, k, id))
       /\ \A id : IsSent(id)' <=> IsSent(id)
  BY <1>1, <1>2, OtherHands DEF InQueue, LostBy, IsSent
<1>11. ASSUME queue' = [queue EXCEPT ![m] = Append(@, f)], UNCHANGED lost
       PROVE  /\ \A k \in Nodes : \A id :
                   InQueue(Path, k, id)' <=>
                     InQueue(Path, k, id) \/ (k = m /\ m \in Path /\ id = f.id)
              /\ QueuedOnce(Path)'
  <2>1. ~InQueue(Path, m, f.id)
    BY <1>8 DEF Only, InQueue
  <2> QED
    BY <1>11, <2>1, PushWhere
<1>12. ASSUME lost' = lost \cup {gone}, UNCHANGED queue
       PROVE  /\ \A k \in Nodes : \A id :
                   LostBy(Path, k, id)' <=>
                     LostBy(Path, k, id) \/ (k = m /\ k \in Path /\ id = f.id)
              /\ LostOnce(Path)' /\ LostByNodes'
  <2>1. gone.node \in Path => \A k \in Nodes : ~LostBy(Path, k, gone.id)
    BY <1>3, <1>8 DEF Only
  <2> QED
    BY <1>3, <1>12, <2>1, LoseWhere
<1>13. QueuedOnce(Path)' /\ LostOnce(Path)' /\ LostByNodes' /\ SentOnce'
  BY <1>2, <1>4, <1>11, <1>12 DEF PathInv, QueuedOnce, LostOnce, LostByNodes, SentOnce
<1>14. m \notin Path => Stays(Path)
  BY <1>4, <1>9, <1>10, <1>11, <1>12 DEF Stays, SameFor
<1>15. ASSUME m \in Path
       PROVE  \/ /\ Moves(Path, f.id, <<"hand", n>>, <<"queue", m>>)
                 /\ queue' = [queue EXCEPT ![m] = Append(@, f)]
              \/ /\ Moves(Path, f.id, <<"hand", n>>, <<"lost", m>>)
                 /\ UNCHANGED queue
  <2>1. ASSUME NEW id, id # f.id PROVE SameFor(Path, id)
    <3>1. ~InHand(Path, n, id)
      BY <1>1, <2>1 DEF InHand
    <3> QED
      BY <1>4, <1>9, <1>10, <1>11, <1>12, <1>15, <2>1, <3>1 DEF SameFor
  <2>2. /\ \A k \in Nodes : ~InHand(Path, k, f.id)'
        /\ ~IsSent(f.id)'
    BY <1>8, <1>9, <1>10, <1>15 DEF Only, AtWire
  <2>3. CASE queue' = [queue EXCEPT ![m] = Append(@, f)] /\ UNCHANGED lost
    <3>1. /\ \A k \in Nodes : InQueue(Path, k, f.id)' <=> k = m
          /\ \A k \in Nodes : ~LostBy(Path, k, f.id)'
      BY <1>8, <1>10, <1>11, <1>15, <2>3 DEF Only
    <3>2. Only(Path, f.id, <<"queue", m>>)'
      BY <2>2, <3>1 DEF Only, AtWire
    <3> QED
      BY <1>1, <1>8, <1>15, <2>1, <2>3, <3>2 DEF Moves
  <2>4. CASE lost' = lost \cup {gone} /\ UNCHANGED queue
    <3>1. /\ \A k \in Nodes : LostBy(Path, k, f.id)' <=> k = m
          /\ \A k \in Nodes : ~InQueue(Path, k, f.id)'
      BY <1>8, <1>10, <1>12, <1>15, <2>4 DEF Only
    <3>2. Only(Path, f.id, <<"lost", m>>)'
      BY <2>2, <3>1 DEF Only, AtWire
    <3> QED
      BY <1>1, <1>8, <1>15, <2>1, <2>4, <3>2 DEF Moves
  <2> QED
    BY <1>4, <2>3, <2>4
<1>16. PushedTo(Path, n, m, f)
  BY <1>14, <1>15 DEF PushedTo
<1>17. InOnePlace(Path)'
  <2>1. CASE m \notin Path
    BY <1>2, <1>14, <2>1, NoFrameMoves DEF PathInv, Stays
  <2>2. CASE m \in Path
    <3>1. <<"queue", m>> \in Spots /\ <<"lost", m>> \in Spots
      BY DEF Spots
    <3> QED
      BY <1>2, <1>15, <2>2, <3>1, OneFrameMoves DEF PathInv, Moves
  <2> QED
    BY <2>1, <2>2
<1> QED
  BY <1>1, <1>6, <1>13, <1>16, <1>17 DEF PathInv
-----------------------------------------------------------------------------
(* A sender's sendto, and a frame that arrives.                            *)

(* A sender is on the path, with the frame it is about to send.            *)
LEMMA SenderHas ==
  ASSUME NEW Path \in SUBSET Nodes, MainPath(Path), FrameInv, PathInv(Path),
         NEW n \in Nodes, pc[n] = "sendto"
  PROVE  /\ n \in Path /\ hand[n] \in Frames /\ hand[n].id \in 1..Len(captured)
         /\ Only(Path, hand[n].id, <<"hand", n>>)
<1>1. Kind[n] = "sender" /\ hand[n] # NoFrame
  BY DEF FrameInv, Phases, Phase
<1>2. n \in Path
  BY <1>1 DEF MainPath
<1>3. hand[n] \in Frames /\ hand[n].id \in 1..Len(captured)
  BY SenderHoldsTagged DEF Tagged
<1>4. InHand(Path, n, hand[n].id)
  BY <1>1, <1>2 DEF InHand, OnTheWay
<1> QED
  BY <1>2, <1>3, <1>4, NowhereElse DEF PathInv

(* The sender's buffer is empty again.                                     *)
LEMMA SenderGivesUp ==
  ASSUME NEW Path \in SUBSET Nodes, FrameInv, NEW n \in Nodes, NEW f, f = hand[n],
         hand' = [hand EXCEPT ![n] = NoFrame], UNCHANGED todo
  PROVE  \A m \in Nodes : \A id :
           /\ m # n => (InHand(Path, m, id)' <=> InHand(Path, m, id))
           /\ ~InHand(Path, n, id)'
           /\ id # f.id => ~InHand(Path, n, id)
<1>1. /\ hand'[n] = NoFrame /\ \A m \in Nodes : m # n => hand'[m] = hand[m]
  BY DEF FrameInv, FrameTypes
<1>2. \A m \in Nodes : m # n => hand'[m] = hand[m] /\ todo'[m] = todo[m]
  BY <1>1
<1>3. \A id : \A m \in Nodes : m # n => (InHand(Path, m, id)' <=> InHand(Path, m, id))
  BY <1>2, OtherHands
<1>4. \A id : ~InHand(Path, n, id)'
  BY <1>1 DEF InHand
<1>5. \A id : id # f.id => ~InHand(Path, n, id)
  BY DEF InHand
<1> QED
  BY <1>3, <1>4, <1>5

(* sendto() puts the frame in the buffer on the wire.                      *)
LEMMA SendSucceedsKeepsPath ==
  ASSUME NEW Path \in SUBSET Nodes, MainPath(Path), FrameInv, PathInv(Path),
         NEW n \in Nodes, SendSucceeds(n)
  PROVE  /\ PathInv(Path)'
         /\ \A id : id = hand[n].id => Moves(Path, id, <<"hand", n>>, AtWire)
<1>1. PICK f : f = hand[n]
  OBVIOUS
<1>2. /\ pc[n] = "sendto" /\ sent' = Append(sent, f)
      /\ hand' = [hand EXCEPT ![n] = NoFrame]
      /\ UNCHANGED <<todo, queue, captured, lost>>
  BY <1>1 DEF SendSucceeds
<1>3. f \in Frames /\ f.id \in 1..Len(captured) /\ Only(Path, f.id, <<"hand", n>>)
  BY <1>1, <1>2, SenderHas
<1>4. \A m \in Nodes : \A id :
        /\ m # n => (InHand(Path, m, id)' <=> InHand(Path, m, id))
        /\ ~InHand(Path, n, id)'
        /\ id # f.id => ~InHand(Path, n, id)
  BY <1>1, <1>2, SenderGivesUp
<1>5. (\A id : IsSent(id)' <=> IsSent(id) \/ id = f.id) /\ SentOnce'
  <2>1. ~IsSent(f.id)
    BY <1>3 DEF Only, AtWire
  <2> QED
    BY <1>2, <1>3, <2>1, SendWhere DEF PathInv
<1>6. \A m \in Nodes : \A id :
        /\ InQueue(Path, m, id)' <=> InQueue(Path, m, id)
        /\ LostBy(Path, m, id)' <=> LostBy(Path, m, id)
  BY <1>2 DEF InQueue, LostBy
<1>7. ASSUME NEW id, id # f.id PROVE SameFor(Path, id)
  BY <1>4, <1>5, <1>6, <1>7 DEF SameFor
<1>8. Only(Path, f.id, AtWire)'
  <2>1. \A m \in Nodes : /\ ~InHand(Path, m, f.id)' /\ ~InQueue(Path, m, f.id)'
                         /\ ~LostBy(Path, m, f.id)'
    BY <1>3, <1>4, <1>6 DEF Only
  <2> QED
    BY <1>5, <2>1 DEF Only, AtWire
<1>9. InOnePlace(Path)'
  <2>1. AtWire \in Spots
    BY DEF Spots
  <2> QED
    BY <1>2, <1>7, <1>8, <2>1, OneFrameMoves DEF PathInv
<1>10. QueuedOnce(Path)' /\ LostOnce(Path)' /\ LostByNodes' /\ TodoOnce(Path)'
  BY <1>2 DEF PathInv, QueuedOnce, LostOnce, LostByNodes, TodoOnce, PushedOnce
<1>11. Moves(Path, f.id, <<"hand", n>>, AtWire)
  BY <1>3, <1>7, <1>8 DEF Moves
<1> QED
  BY <1>1, <1>5, <1>9, <1>10, <1>11 DEF PathInv

(* sendto() fails and the frame is lost.                                   *)
LEMMA SendFailsKeepsPath ==
  ASSUME NEW Path \in SUBSET Nodes, MainPath(Path), FrameInv, PathInv(Path),
         NEW n \in Nodes, SendFails(n)
  PROVE  /\ PathInv(Path)'
         /\ \A id : id = hand[n].id =>
              Moves(Path, id, <<"hand", n>>, <<"lost", n>>)
<1>1. PICK f : f = hand[n]
  OBVIOUS
<1> DEFINE gone == [id |-> f.id, node |-> n, why |-> "sendto"]
<1>2. /\ pc[n] = "sendto" /\ lost' = lost \cup {gone}
      /\ hand' = [hand EXCEPT ![n] = NoFrame]
      /\ UNCHANGED <<todo, queue, captured, sent>>
  BY <1>1 DEF SendFails
<1>3. gone.id = f.id /\ gone.node = n
  BY GoneRecord
<1> HIDE DEF gone
<1>4. /\ n \in Path /\ f \in Frames /\ f.id \in 1..Len(captured)
      /\ Only(Path, f.id, <<"hand", n>>)
  BY <1>1, <1>2, SenderHas
<1>5. \A m \in Nodes : \A id :
        /\ m # n => (InHand(Path, m, id)' <=> InHand(Path, m, id))
        /\ ~InHand(Path, n, id)'
        /\ id # f.id => ~InHand(Path, n, id)
  BY <1>1, <1>2, SenderGivesUp
<1>6. /\ \A m \in Nodes : \A id :
           LostBy(Path, m, id)' <=>
             LostBy(Path, m, id) \/ (m = n /\ m \in Path /\ id = f.id)
      /\ LostOnce(Path)' /\ LostByNodes'
  <2>1. \A m \in Nodes : ~LostBy(Path, m, gone.id)
    BY <1>3, <1>4 DEF Only
  <2> QED
    BY <1>2, <1>3, <2>1, LoseWhere
<1>7. /\ \A m \in Nodes : \A id : InQueue(Path, m, id)' <=> InQueue(Path, m, id)
      /\ \A id : IsSent(id)' <=> IsSent(id)
  BY <1>2 DEF InQueue, IsSent
<1>8. ASSUME NEW id, id # f.id PROVE SameFor(Path, id)
  BY <1>5, <1>6, <1>7, <1>8 DEF SameFor
<1>9. Only(Path, f.id, <<"lost", n>>)'
  <2>1. \A m \in Nodes : /\ ~InHand(Path, m, f.id)' /\ ~InQueue(Path, m, f.id)'
                         /\ LostBy(Path, m, f.id)' <=> m = n
    BY <1>4, <1>5, <1>6, <1>7 DEF Only
  <2>2. ~IsSent(f.id)'
    BY <1>4, <1>7 DEF Only, AtWire
  <2> QED
    BY <2>1, <2>2 DEF Only, AtWire
<1>10. InOnePlace(Path)'
  <2>1. <<"lost", n>> \in Spots
    BY DEF Spots
  <2> QED
    BY <1>2, <1>8, <1>9, <2>1, OneFrameMoves DEF PathInv
<1>11. QueuedOnce(Path)' /\ SentOnce' /\ TodoOnce(Path)'
  BY <1>2 DEF PathInv, QueuedOnce, SentOnce, TodoOnce, PushedOnce
<1>12. Moves(Path, f.id, <<"hand", n>>, <<"lost", n>>)
  BY <1>4, <1>8, <1>9 DEF Moves
<1> QED
  BY <1>1, <1>6, <1>10, <1>11, <1>12 DEF PathInv

(* What has not been captured is nowhere.                                  *)
LEMMA BeyondCaptured ==
  ASSUME NEW Path \in SUBSET Nodes, FrameInv, NEW id, id \notin 1..Len(captured)
  PROVE  /\ \A n \in Nodes : /\ ~InHand(Path, n, id) /\ ~InQueue(Path, n, id)
                             /\ ~LostBy(Path, n, id)
         /\ ~IsSent(id)
<1>1. ASSUME NEW n \in Nodes, hand[n] # NoFrame PROVE hand[n].id \in 1..Len(captured)
  <2>1. Origin(hand[n], captured, PassesRaw(n)) /\ PassesRaw(n) \in BOOLEAN
    BY <1>1 DEF FrameInv, InHands, PassesRaw
  <2> QED
    BY <2>1, OriginIsCaptured
<1>2. ASSUME NEW n \in Nodes, NEW i \in 1..Len(queue[n])
      PROVE  queue[n][i].id \in 1..Len(captured)
  <2>1. /\ Origin(queue[n][i], captured, n \in RawNodes)
        /\ (n \in RawNodes) \in BOOLEAN
    BY DEF FrameInv, InQueues
  <2> QED
    BY <2>1, OriginIsCaptured
<1>3. \A n \in Nodes : ~InHand(Path, n, id) /\ ~InQueue(Path, n, id)
  BY <1>1, <1>2 DEF InHand, InQueue
<1>4. \A n \in Nodes : ~LostBy(Path, n, id)
  BY DEF LostBy, FrameInv, LostAreCaptured, Ids
<1>5. ~IsSent(id)
  BY DEF IsSent, FrameInv, OnWire, Tagged
<1> QED
  BY <1>3, <1>4, <1>5

(* A frame nobody had is in the buffer of n, a sniffer.                    *)
Arrives(Path, n, new) ==
  /\ new = Len(captured) + 1 /\ Len(captured') = new /\ IsSource(n)
  /\ Only(Path, new, <<"hand", n>>)'
  /\ \A other : other # new => SameFor(Path, other)

(* A frame that arrives is in the sniffer's buffer.                        *)
LEMMA ReceiveKeepsPath ==
  ASSUME NEW Path \in SUBSET Nodes, MainPath(Path), FlowInv, FrameInv, PathInv(Path),
         NEW n \in Nodes, Receive(n)
  PROVE  /\ PathInv(Path)'
         /\ \A new : new = Len(captured) + 1 => Arrives(Path, n, new)
<1>1. PICK w \in Wire[Len(captured) + 1] :
        LET f == [id |-> Len(captured) + 1, size |-> w.size, tags |-> w.tags,
                  type |-> w.type, dst |-> w.dst]
        IN captured' = Append(captured, f) /\ Forward(n, f, Outputs[n])
  BY DEF Receive
<1>2. PICK f : f = [id |-> Len(captured) + 1, size |-> w.size, tags |-> w.tags,
                    type |-> w.type, dst |-> w.dst]
  OBVIOUS
<1>3. /\ pc[n] = "recv" /\ Len(captured) < Len(Wire)
      /\ captured' = Append(captured, f) /\ Forward(n, f, Outputs[n])
      /\ UNCHANGED <<queue, sent, lost>>
  BY <1>1, <1>2 DEF Receive, MaxFrames
<1>4. captured \in Seq(Frames) /\ Len(captured) \in Nat
  BY LenProperties DEF FrameInv, FrameTypes
<1>5. f \in Frames /\ f.id = Len(captured) + 1
  <2>1. Wire \in Seq(SUBSET WireFrames) /\ Len(captured) + 1 \in 1..Len(Wire)
    BY <1>3, <1>4, FlowConstants, LenProperties
  <2>2. Wire[Len(captured) + 1] \in SUBSET WireFrames
    BY <2>1, ElementOfSeq
  <2>3. w \in WireFrames
    BY <1>1, <2>2
  <2> QED
    BY <1>2, <1>4, <2>3, FlowConstants DEF WireFrames, Frames, VLAN_HLEN
<1>6. Len(captured') = Len(captured) + 1
  BY <1>3, <1>4, <1>5, AppendProperties
<1>7. /\ Outputs[n] \in Seq(Nodes) /\ PushedOnce(Path, n, Outputs[n])
      /\ \E i \in 1..Len(Outputs[n]) : Outputs[n][i] \in Path
      /\ n \in Path /\ Kind[n] = "sniffer" /\ hand[n] = NoFrame
  <2>1. Kind[n] = "sniffer" /\ hand[n] = NoFrame
    BY <1>3 DEF FrameInv, Phases, Phase, IsSource
  <2>2. n \in Path
    BY <2>1 DEF MainPath
  <2> QED
    BY <2>1, <2>2, OutputsAreNodes, OutputsOnPath
<1>8. /\ hand'[n] = f /\ todo'[n] = Outputs[n] /\ f # NoFrame
      /\ \A m \in Nodes : m # n => hand'[m] = hand[m] /\ todo'[m] = todo[m]
  <2>1. Outputs[n] # <<>>
    BY <1>7
  <2> QED
    BY <1>3, <1>5, <1>7, <2>1, ForwardKeeps, FlowConstants
<1>9. OnTheWay(Path, n)'
  BY <1>7, <1>8 DEF OnTheWay
<1>10. \A id : ~InHand(Path, n, id) /\ (InHand(Path, n, id)' <=> id = f.id)
  BY <1>7, <1>8, <1>9 DEF InHand
<1>11. ASSUME NEW id
       PROVE  /\ \A m \in Nodes : /\ InQueue(Path, m, id)' <=> InQueue(Path, m, id)
                                  /\ LostBy(Path, m, id)' <=> LostBy(Path, m, id)
              /\ IsSent(id)' <=> IsSent(id)
              /\ \A m \in Nodes : m # n =>
                   (InHand(Path, m, id)' <=> InHand(Path, m, id))
  BY <1>3, <1>8, OtherHands DEF InQueue, LostBy, IsSent
<1>12. f.id \notin 1..Len(captured)
  BY <1>4, <1>5
<1>13. ASSUME NEW id, id # f.id PROVE SameFor(Path, id)
  BY <1>10, <1>11, <1>13 DEF SameFor
<1>14. Only(Path, f.id, <<"hand", n>>)'
  <2>1. /\ \A m \in Nodes : /\ ~InHand(Path, m, f.id) /\ ~InQueue(Path, m, f.id)
                            /\ ~LostBy(Path, m, f.id)
        /\ ~IsSent(f.id)
    BY <1>12, BeyondCaptured
  <2>2. \A m \in Nodes : InHand(Path, m, f.id)' <=> m = n
    BY <1>10, <1>11, <2>1
  <2>3. \A m \in Nodes : ~InQueue(Path, m, f.id)' /\ ~LostBy(Path, m, f.id)'
    BY <1>11, <2>1
  <2>4. ~IsSent(f.id)'
    BY <1>11, <2>1
  <2> QED
    BY <2>2, <2>3, <2>4 DEF Only, AtWire
<1>15. InOnePlace(Path)'
  <2> SUFFICES ASSUME NEW id \in 1..Len(captured')
               PROVE  \E p \in Spots : Only(Path, id, p)'
    BY DEF InOnePlace
  <2>1. CASE id = f.id
    <3>1. <<"hand", n>> \in Spots
      BY DEF Spots
    <3> QED
      BY <1>14, <2>1, <3>1
  <2>2. CASE id # f.id
    <3>1. id \in 1..Len(captured)
      BY <1>4, <1>5, <1>6, <2>2
    <3>2. PICK p \in Spots : Only(Path, id, p)
      BY <3>1 DEF PathInv, InOnePlace
    <3>3. Only(Path, id, p)'
      BY <1>13, <2>2, <3>2 DEF Only, SameFor
    <3> QED
      BY <3>3
  <2> QED
    BY <2>1, <2>2
<1>16. TodoOnce(Path)'
  BY <1>7, <1>8, TodoKept DEF PathInv
<1>17. QueuedOnce(Path)' /\ SentOnce' /\ LostOnce(Path)' /\ LostByNodes'
  BY <1>3 DEF PathInv, QueuedOnce, SentOnce, LostOnce, LostByNodes
<1>18. ASSUME NEW new, new = Len(captured) + 1 PROVE Arrives(Path, n, new)
  <2>1. f.id = new
    BY <1>5, <1>18
  <2> QED
    BY <1>6, <1>7, <1>13, <1>14, <1>18, <2>1 DEF Arrives, IsSource
<1> QED
  BY <1>15, <1>16, <1>17, <1>18 DEF PathInv

(* The steps that leave the frames where they are.                         *)
LEMMA RestKeepsPath ==
  ASSUME NEW Path \in SUBSET Nodes, PathInv(Path), Rests
  PROVE  PathInv(Path)' /\ Stays(Path)
<1> USE DEF Rests, history
<1>1. ASSUME NEW id PROVE SameFor(Path, id)
  BY DEF SameFor, InHand, OnTheWay, InQueue, LostBy, IsSent
<1>2. InOnePlace(Path)'
  BY <1>1, NoFrameMoves DEF PathInv
<1>3. /\ QueuedOnce(Path)' /\ SentOnce' /\ LostOnce(Path)' /\ LostByNodes'
      /\ TodoOnce(Path)'
  BY DEF PathInv, QueuedOnce, SentOnce, LostOnce, LostByNodes, TodoOnce, PushedOnce
<1> QED
  BY <1>1, <1>2, <1>3 DEF PathInv, Stays

(* The invariant of the path: a captured frame is in one place on it.      *)
THEOREM PathInvariant ==
  ASSUME NEW Path \in SUBSET Nodes, MainPath(Path)
  PROVE  Spec => []PathInv(Path)
<1>1. Init => PathInv(Path)
  <2> SUFFICES ASSUME Init PROVE PathInv(Path)
    OBVIOUS
  <2>1. /\ todo = [n \in Nodes |-> <<>>] /\ queue = [n \in Nodes |-> <<>>]
        /\ captured = <<>> /\ sent = <<>> /\ lost = {} /\ Len(<<>>) = 0
    BY DEF Init
  <2> QED
    BY <2>1 DEF PathInv, InOnePlace, QueuedOnce, SentOnce, LostOnce, LostByNodes,
                TodoOnce, PushedOnce
<1>2. FlowInv /\ FrameInv /\ PathInv(Path) /\ [Next]_vars => PathInv(Path)'
  <2> SUFFICES ASSUME FlowInv, FrameInv, PathInv(Path), [Next]_vars
               PROVE  PathInv(Path)'
    OBVIOUS
  <2>1. ASSUME \/ StartNode \/ StopPipeline \/ JoinNode
               \/ \E n \in Nodes : ReceiveFails(n) \/ PopFails(n) \/ LeaveLoop(n)
        PROVE  PathInv(Path)'
    BY <2>1, OthersRest, RestKeepsPath
  <2>2. ASSUME NEW n \in Nodes, Process(n) PROVE PathInv(Path)'
    BY <2>2, ProcessShape, PassesOnKeepsPath, TagsKeepsPath, LetsGoKeepsPath,
       FetchesKeepsPath, SendToOutputKeepsPath, SendSucceedsKeepsPath
  <2>3. ASSUME NEW n \in Nodes, Receive(n) \/ SendFails(n) PROVE PathInv(Path)'
    BY <2>3, ReceiveKeepsPath, SendFailsKeepsPath
  <2>4. CASE UNCHANGED vars
    <3>1. Rests
      BY <2>4 DEF vars, Rests, history
    <3> QED
      BY <3>1, RestKeepsPath
  <2> QED
    BY <2>1, <2>2, <2>3, <2>4 DEF Next
<1> QED
  BY <1>1, <1>2, FlowInvariant, FrameInvariant, PTL DEF Spec

(* SentOnce: in every pipeline with a path from its sniffers to its        *)
(* senders, no frame leaves twice, also where nodes make copies.           *)
THEOREM SentOnceHolds == Spec => []SentOnce
<1>1. PICK Path \in SUBSET Nodes : MainPath(Path)
  BY WiringAssumption DEF WiringAssumption
<1>2. Spec => []PathInv(Path)
  BY <1>1, PathInvariant
<1>3. PathInv(Path) => SentOnce
  BY DEF PathInv
<1> QED
  BY <1>2, <1>3, PTL
-----------------------------------------------------------------------------
(* Where every node but a dispatcher has one output, all nodes are on the  *)
(* path.                                                                   *)
LEMMA LinearPath ==
  ASSUME Linear
  PROVE  MainPath(Nodes)
<1> SUFFICES ASSUME NEW n \in Nodes
             PROVE  LET onPath == {i \in 1..Len(Outputs[n]) : Outputs[n][i] \in Nodes}
                    IN /\ Kind[n] = "dispatcher" => onPath = 1..Len(Outputs[n])
                       /\ Kind[n] \notin {"dispatcher", "sender"} =>
                            \E i \in 1..Len(Outputs[n]) : onPath = {i}
  BY DEF MainPath
<1> DEFINE onPath == {i \in 1..Len(Outputs[n]) : Outputs[n][i] \in Nodes}
<1>1. onPath = 1..Len(Outputs[n])
  BY OutputsAreNodes
<1>2. ASSUME Kind[n] \notin {"dispatcher", "sender"}
      PROVE  \E i \in 1..Len(Outputs[n]) : onPath = {i}
  <2>1. Len(Outputs[n]) = 1
    BY <1>2 DEF Linear
  <2>2. 1..Len(Outputs[n]) = {1}
    BY <2>1
  <2> QED
    BY <1>1, <2>2
<1> QED
  BY <1>1, <1>2

(* What a set of places holds when only one of them has the frame.         *)
LEMMA OneElement ==
  ASSUME NEW S, NEW x, \A y : y \in S <=> y = x
  PROVE  Cardinality(S) = 1
<1>1. S = {x}
  OBVIOUS
<1> QED
  BY <1>1, FS_Singleton

(* What it holds when another one has.                                     *)
LEMMA NoElement ==
  ASSUME NEW S, \A y : y \notin S
  PROVE  Cardinality(S) = 0
<1>1. S = {}
  OBVIOUS
<1> QED
  BY <1>1, FS_EmptySet

(* Where all nodes are on the path, a frame in a buffer is on its way.     *)
LEMMA BusyOnTheWay ==
  ASSUME FrameInv, NEW n \in Nodes, hand[n] # NoFrame
  PROVE  OnTheWay(Nodes, n)
<1>1. CASE pc[n] = "send"
  <2>1. todo[n] \in Seq(Nodes) /\ todo[n] # <<>>
    BY <1>1 DEF FrameInv, FrameTypes, Phases, Phase
  <2>2. 1 \in 1..Len(todo[n]) /\ todo[n][1] \in Nodes
    BY <2>1, EmptySeq, LenProperties, ElementOfSeq
  <2> QED
    BY <2>2 DEF OnTheWay
<1>2. CASE pc[n] = "sendto"
  BY <1>2 DEF FrameInv, Phases, Phase, OnTheWay
<1> QED
  BY <1>1, <1>2 DEF FrameInv, Phases, Phase

(* Accounted: in every pipeline in which only dispatchers have several     *)
(* outputs, a captured frame is in exactly one buffer or queue, or on the  *)
(* wire, or let go once, at any time.                                      *)
THEOREM AccountedHolds == Spec => []Accounted
<1>1. CASE ~Linear
  <2>1. Accounted
    BY <1>1 DEF Accounted
  <2> QED
    BY <2>1, PTL
<1>2. CASE Linear
  <2>1. PICK Path \in SUBSET Nodes : MainPath(Path) /\ Path = Nodes
    <3>1. MainPath(Nodes) /\ Nodes \in SUBSET Nodes
      BY <1>2, LinearPath
    <3> QED
      BY <3>1
  <2>2. Spec => []PathInv(Path)
    BY <2>1, PathInvariant
  <2>3. ASSUME FrameInv, PathInv(Path) PROVE Accounted
    <3>0. PathInv(Nodes)
      BY <2>1, <2>3
    <3> SUFFICES ASSUME NEW id \in Ids PROVE Places(id) = 1
      BY DEF Accounted
    <3> DEFINE hands == {n \in Nodes : hand[n] # NoFrame /\ hand[n].id = id}
               slots == {s \in Slots : /\ s[2] <= Len(queue[s[1]])
                                       /\ queue[s[1]][s[2]].id = id}
               wire == {i \in 1..Len(sent) : sent[i].id = id}
               gone == {l \in lost : l.id = id}
    <3>1. PICK p \in Spots : Only(Nodes, id, p)
      BY <2>3, <3>0 DEF PathInv, InOnePlace, Ids
    <3>2. \A n : n \in hands <=> n \in Nodes /\ p = <<"hand", n>>
      <4>1. \A n \in Nodes : n \in hands <=> InHand(Nodes, n, id)
        BY <2>3, <3>0, BusyOnTheWay DEF InHand
      <4> QED
        BY <3>1, <4>1 DEF Only
    <3>3. /\ \A s \in slots : p = <<"queue", s[1]>>
          /\ \A n \in Nodes : p = <<"queue", n>> => \E s \in slots : \A t \in slots : t = s
      <4>1. ASSUME NEW n \in Nodes, NEW i \in Nat
            PROVE  <<n, i>> \in slots <=>
                     i \in 1..Len(queue[n]) /\ queue[n][i].id = id
        <5>1. Len(queue[n]) \in Nat /\ Len(queue[n]) <= Q_SIZE /\ Q_SIZE \in Nat
          BY <2>3, <3>0, FlowConstants, LenProperties DEF FrameInv, FrameTypes
        <5> QED
          BY <5>1 DEF Slots
      <4>2. \A s \in slots : \E n \in Nodes, i \in Nat : s = <<n, i>>
        BY FlowConstants DEF Slots
      <4>3. ASSUME NEW s \in slots PROVE p = <<"queue", s[1]>>
        <5>1. PICK n \in Nodes, i \in Nat : s = <<n, i>>
          BY <4>2
        <5>2. InQueue(Nodes, n, id)
          BY <4>1, <5>1 DEF InQueue
        <5> QED
          BY <3>1, <5>1, <5>2 DEF Only
      <4>4. ASSUME NEW n \in Nodes, p = <<"queue", n>>
            PROVE  \E s \in slots : \A t \in slots : t = s
        <5>1. InQueue(Nodes, n, id)
          BY <3>1, <4>4 DEF Only
        <5>2. PICK i \in 1..Len(queue[n]) : queue[n][i].id = id
          BY <5>1 DEF InQueue
        <5>3. <<n, i>> \in slots
          BY <4>1, <5>2
        <5>4. ASSUME NEW t \in slots PROVE t = <<n, i>>
          <6>1. PICK m \in Nodes, j \in Nat : t = <<m, j>>
            BY <4>2
          <6>2. m = n
            BY <4>3, <4>4, <6>1
          <6>3. j \in 1..Len(queue[n]) /\ queue[n][j].id = id
            BY <4>1, <6>1, <6>2
          <6>4. j = i
            BY <2>3, <3>0, <5>2, <6>3 DEF PathInv, QueuedOnce
          <6> QED
            BY <6>1, <6>2, <6>4
        <5> QED
          BY <5>3, <5>4
      <4> QED
        BY <4>3, <4>4
    <3>4. /\ \A i \in wire : p = AtWire
          /\ p = AtWire => \E i \in wire : \A j \in wire : j = i
      BY <2>3, <3>0, <3>1 DEF Only, IsSent, PathInv, SentOnce
    <3>5. /\ \A l \in gone : p = <<"lost", l.node>> /\ l.node \in Nodes
          /\ \A n \in Nodes : p = <<"lost", n>> => \E l \in gone : \A k \in gone : k = l
      <4>1. ASSUME NEW l \in gone PROVE p = <<"lost", l.node>> /\ l.node \in Nodes
        <5>1. l.node \in Nodes
          BY <2>3, <3>0 DEF PathInv, LostByNodes
        <5>2. LostBy(Nodes, l.node, id)
          BY <5>1 DEF LostBy
        <5> QED
          BY <3>1, <5>1, <5>2 DEF Only
      <4>2. ASSUME NEW n \in Nodes, p = <<"lost", n>>
            PROVE  \E l \in gone : \A k \in gone : k = l
        <5>1. LostBy(Nodes, n, id)
          BY <3>1, <4>2 DEF Only
        <5>2. PICK l \in gone : l.node = n
          BY <5>1 DEF LostBy
        <5>3. \A k \in gone : k = l
          BY <2>3, <3>0, <4>1, <5>2 DEF PathInv, LostOnce
        <5> QED
          BY <5>2, <5>3
      <4> QED
        BY <4>1, <4>2
    <3>6. Places(id) = Cardinality(hands) + Cardinality(slots)
                         + Cardinality(wire) + Cardinality(gone)
      BY DEF Places
    <3> HIDE DEF hands, slots, wire, gone
    <3>7. ASSUME NEW n \in Nodes, p = <<"hand", n>> PROVE Places(id) = 1
      <4>1. Cardinality(hands) = 1
        BY <3>2, <3>7, OneElement
      <4>2. /\ Cardinality(slots) = 0 /\ Cardinality(wire) = 0
            /\ Cardinality(gone) = 0
        BY <3>3, <3>4, <3>5, <3>7, NoElement DEF AtWire
      <4> QED
        BY <3>6, <4>1, <4>2
    <3>8. ASSUME NEW n \in Nodes, p = <<"queue", n>> PROVE Places(id) = 1
      <4>1. Cardinality(slots) = 1
        <5>1. PICK x \in slots : \A y \in slots : y = x
          BY <3>3, <3>8
        <5>2. \A y : y \in slots <=> y = x
          BY <5>1
        <5> QED
          BY <5>2, OneElement
      <4>2. /\ Cardinality(hands) = 0 /\ Cardinality(wire) = 0
            /\ Cardinality(gone) = 0
        BY <3>2, <3>4, <3>5, <3>8, NoElement DEF AtWire
      <4> QED
        BY <3>6, <4>1, <4>2
    <3>9. ASSUME NEW n \in Nodes, p = <<"lost", n>> PROVE Places(id) = 1
      <4>1. Cardinality(gone) = 1
        <5>1. PICK x \in gone : \A y \in gone : y = x
          BY <3>5, <3>9
        <5>2. \A y : y \in gone <=> y = x
          BY <5>1
        <5> QED
          BY <5>2, OneElement
      <4>2. /\ Cardinality(hands) = 0 /\ Cardinality(slots) = 0
            /\ Cardinality(wire) = 0
        BY <3>2, <3>3, <3>4, <3>9, NoElement DEF AtWire
      <4> QED
        BY <3>6, <4>1, <4>2
    <3>10. CASE p = AtWire
      <4>1. Cardinality(wire) = 1
        BY <3>4, <3>10, OneElement
      <4>2. /\ Cardinality(hands) = 0 /\ Cardinality(slots) = 0
            /\ Cardinality(gone) = 0
        BY <3>2, <3>3, <3>5, <3>10, NoElement DEF AtWire
      <4> QED
        BY <3>6, <4>1, <4>2
    <3> QED
      BY <3>7, <3>8, <3>9, <3>10 DEF Spots
  <2> QED
    BY <2>2, <2>3, FrameInvariant, PTL
<1> QED
  BY <1>1, <1>2
-----------------------------------------------------------------------------
(* The order in which frames leave.                                        *)

By(t, id) == \E r \in tagged : r.id = id /\ r.node = t

(* Behind the taggers every frame on the path has a record of who tagged   *)
(* it, and pushes go to the outputs.                                       *)
Behind(Path, id) ==
  \/ \E n \in Nodes : ~PassesRaw(n) /\ InHand(Path, n, id)
  \/ \E n \in Nodes \ RawNodes : InQueue(Path, n, id)
  \/ IsSent(id)
Recorded(Path) == \A id \in Ids : Behind(Path, id) => \E r \in tagged : r.id = id
ByTaggers == \A r \in tagged : r.id \in Ids /\ r.node \in Nodes /\ Kind[r.node] = "tagger"
TodoAreOutputs ==
  \A n \in Nodes : \A i \in 1..Len(todo[n]) :
     \E j \in 1..Len(Outputs[n]) : todo[n][i] = Outputs[n][j]
RecordInv(Path) == Recorded(Path) /\ ByTaggers /\ TodoAreOutputs

(* How far frame id is on lane L with tagger L[p]: the queue of L[k] is    *)
(* stage 2k - 1, its buffer stage 2k, the wire the last.  From the         *)
(* tagger's buffer on, only the frames it has tagged are looked at.        *)
SpotAt(L, s, q) ==
  \/ \E k \in 2..Len(L) : s = 2 * k - 1 /\ q = <<"queue", L[k]>>
  \/ \E k \in 1..Len(L) : s = 2 * k /\ q = <<"hand", L[k]>>
  \/ s = 2 * Len(L) + 1 /\ q = AtWire
AtStage(Path, L, s, id) ==
  \/ \E k \in 2..Len(L) : s = 2 * k - 1 /\ InQueue(Path, L[k], id)
  \/ \E k \in 1..Len(L) : s = 2 * k /\ InHand(Path, L[k], id)
  \/ s = 2 * Len(L) + 1 /\ IsSent(id)
Stage(Path, L, p, s, id) ==
  AtStage(Path, L, s, id) /\ (s >= 2 * p => By(L[p], id))

Stages(L) == 2..(2 * Len(L) + 1)
InLine(Path, L, p) ==
  \A s, r \in Stages(L) : \A a, b \in Ids :
     s < r /\ Stage(Path, L, p, r, a) /\ Stage(Path, L, p, s, b) => a < b
OnLane(Path, L, p) ==
  \A id \in Ids : By(L[p], id) =>
    \A n \in Nodes :
      /\ InHand(Path, n, id) => \E k \in p..Len(L) : n = L[k]
      /\ InQueue(Path, n, id) => \E k \in (p + 1)..Len(L) : n = L[k]
QueueOrder(L, p) ==
  \A k \in 2..Len(L) : \A i, j \in 1..Len(queue[L[k]]) :
    /\ i < j
    /\ k > p => By(L[p], queue[L[k]][i].id) /\ By(L[p], queue[L[k]][j].id)
    => queue[L[k]][i].id < queue[L[k]][j].id
SentOrder(t) ==
  \A i, j \in 1..Len(sent) :
     i < j /\ By(t, sent[i].id) /\ By(t, sent[j].id) => sent[i].id < sent[j].id

LaneInv(Path, L, p) ==
  /\ InLine(Path, L, p) /\ OnLane(Path, L, p)
  /\ QueueOrder(L, p) /\ SentOrder(L[p])
-----------------------------------------------------------------------------
(* Lanes.                                                                  *)

(* What Lane says of the places on it.                                     *)
LEMMA LaneNodes ==
  ASSUME NEW Path \in SUBSET Nodes, NEW L \in Seq(Path), NEW p \in 1..Len(L),
         Lane(Path, L, p)
  PROVE  /\ Len(L) \in Nat
         /\ \A k \in 1..Len(L) : L[k] \in Path /\ L[k] \in Nodes
         /\ \A j, k \in 1..Len(L) : L[j] = L[k] => j = k
         /\ \A n \in Nodes : IsSource(n) <=> n = L[1]
         /\ \A k \in 1..Len(L) : /\ Kind[L[k]] = "tagger" => k = p
                                 /\ Kind[L[k]] = "sender" => k = Len(L)
BY LenProperties, ElementOfSeq DEF Lane, IsSource

(* Being at one place only is being at its stage only.                     *)
LEMMA OnlyAtStage ==
  ASSUME NEW Path \in SUBSET Nodes, NEW L \in Seq(Path), NEW p \in 1..Len(L),
         Lane(Path, L, p), NEW id, NEW q, NEW s
  PROVE  /\ Only(Path, id, q) => (AtStage(Path, L, s, id) <=> SpotAt(L, s, q))
         /\ Only(Path, id, q)' => (AtStage(Path, L, s, id)' <=> SpotAt(L, s, q))
<1>1. \A k \in 1..Len(L) : L[k] \in Nodes
  BY LaneNodes
<1>2. \A k \in 2..Len(L) : k \in 1..Len(L)
  BY LaneNodes
<1>3. ASSUME Only(Path, id, q) PROVE AtStage(Path, L, s, id) <=> SpotAt(L, s, q)
  BY <1>1, <1>2, <1>3 DEF Only, AtStage, SpotAt
<1>4. ASSUME Only(Path, id, q)' PROVE AtStage(Path, L, s, id)' <=> SpotAt(L, s, q)
  BY <1>1, <1>2, <1>4 DEF Only, AtStage, SpotAt
<1> QED
  BY <1>3, <1>4

(* A frame that stays where it is stays at its stage.                      *)
LEMMA SameStage ==
  ASSUME NEW Path \in SUBSET Nodes, NEW L \in Seq(Path), NEW p \in 1..Len(L),
         Lane(Path, L, p), NEW id, SameFor(Path, id), NEW s
  PROVE  AtStage(Path, L, s, id)' <=> AtStage(Path, L, s, id)
<1>1. \A k \in 1..Len(L) : L[k] \in Nodes
  BY LaneNodes
<1>2. \A k \in 2..Len(L) : k \in 1..Len(L)
  BY LaneNodes
<1> QED
  BY <1>1, <1>2 DEF SameFor, AtStage

(* A frame goes on to the next stage, and all at its old one come later.   *)
LEMMA GoesOnInLine ==
  ASSUME NEW Path \in SUBSET Nodes, NEW L \in Seq(Path), NEW p \in 1..Len(L),
         Lane(Path, L, p), InLine(Path, L, p), Len(captured') = Len(captured),
         NEW x, NEW q1, NEW q2, Moves(Path, x, q1, q2),
         NEW s \in Stages(L), SpotAt(L, s, q1),
         \A r \in Stages(L) : SpotAt(L, r, q2) => r = s + 1,
         s >= 2 * p => By(L[p], x),
         \A id \in Ids : id # x /\ By(L[p], id)' => By(L[p], id),
         \A id \in Ids : id # x /\ Stage(Path, L, p, s, id) => x < id
  PROVE  InLine(Path, L, p)'
<1>1. Len(L) \in Nat /\ p \in Nat /\ \A r \in Stages(L) : r \in Nat
  BY LaneNodes DEF Stages
<1>2. x \in Ids /\ x \in Nat /\ Ids' = Ids
  BY DEF Moves, Ids
<1>3. Stage(Path, L, p, s, x)
  BY OnlyAtStage DEF Moves, Stage
<1>4. ASSUME NEW r \in Stages(L), NEW id \in Ids, id # x, Stage(Path, L, p, r, id)'
      PROVE  Stage(Path, L, p, r, id)
  <2>1. SameFor(Path, id)
    BY <1>4 DEF Moves
  <2>2. AtStage(Path, L, r, id)
    BY <1>4, <2>1, SameStage DEF Stage
  <2> QED
    BY <1>4, <2>2 DEF Stage
<1>5. ASSUME NEW r \in Stages(L), Stage(Path, L, p, r, x)' PROVE r = s + 1
  BY <1>5, OnlyAtStage DEF Moves, Stage
<1> SUFFICES ASSUME NEW r1 \in Stages(L), NEW r2 \in Stages(L),
                    NEW a \in Ids, NEW b \in Ids, r1 < r2,
                    Stage(Path, L, p, r2, a)', Stage(Path, L, p, r1, b)'
             PROVE  a < b
  BY <1>2 DEF InLine
<1>6. CASE a # x /\ b # x
  BY <1>4, <1>6 DEF InLine
<1>7. CASE a = x /\ b # x
  <2>1. r2 = s + 1 /\ Stage(Path, L, p, r1, b)
    BY <1>4, <1>5, <1>7
  <2>2. r1 = s \/ r1 < s
    BY <1>1, <2>1
  <2>3. CASE r1 = s
    BY <1>7, <2>1, <2>3
  <2>4. CASE r1 < s
    BY <1>2, <1>3, <1>7, <2>1, <2>4 DEF InLine
  <2> QED
    BY <2>2, <2>3, <2>4
<1>8. CASE a # x /\ b = x
  <2>1. r1 = s + 1 /\ Stage(Path, L, p, r2, a)
    BY <1>4, <1>5, <1>8
  <2>2. s < r2
    BY <1>1, <2>1
  <2> QED
    BY <1>2, <1>3, <1>8, <2>1, <2>2 DEF InLine
<1>9. CASE a = x /\ b = x
  BY <1>1, <1>5, <1>9
<1> QED
  BY <1>6, <1>7, <1>8, <1>9

(* A step after which no frame is at a stage it was not at before.         *)
LEMMA NothingNewInLine ==
  ASSUME NEW Path \in SUBSET Nodes, NEW L \in Seq(Path), NEW p \in 1..Len(L),
         InLine(Path, L, p), Len(captured') = Len(captured),
         \A r \in Stages(L) : \A id \in Ids :
           Stage(Path, L, p, r, id)' => Stage(Path, L, p, r, id)
  PROVE  InLine(Path, L, p)'
BY DEF InLine, Ids

(* So it is when no frame moves, or one that leaves the lane.              *)
LEMMA LeavesLine ==
  ASSUME NEW Path \in SUBSET Nodes, NEW L \in Seq(Path), NEW p \in 1..Len(L),
         Lane(Path, L, p), InLine(Path, L, p), Len(captured') = Len(captured),
         NEW x, \A id : id # x => SameFor(Path, id),
         \A id \in Ids : id # x /\ By(L[p], id)' => By(L[p], id),
         \A r \in Stages(L) : ~Stage(Path, L, p, r, x)'
  PROVE  InLine(Path, L, p)'
<1>1. ASSUME NEW r \in Stages(L), NEW id \in Ids, Stage(Path, L, p, r, id)'
      PROVE  Stage(Path, L, p, r, id)
  <2>1. id # x
    BY <1>1
  <2>2. AtStage(Path, L, r, id)
    BY <1>1, <2>1, SameStage DEF Stage
  <2> QED
    BY <1>1, <2>1, <2>2 DEF Stage
<1> QED
  BY <1>1, NothingNewInLine

(* Or when none moves and none is tagged on the lane.                      *)
LEMMA StaysInLine ==
  ASSUME NEW Path \in SUBSET Nodes, NEW L \in Seq(Path), NEW p \in 1..Len(L),
         Lane(Path, L, p), InLine(Path, L, p), Len(captured') = Len(captured),
         Stays(Path), \A id \in Ids : By(L[p], id)' => By(L[p], id)
  PROVE  InLine(Path, L, p)'
<1>1. ASSUME NEW r \in Stages(L), NEW id \in Ids, Stage(Path, L, p, r, id)'
      PROVE  Stage(Path, L, p, r, id)
  <2>1. AtStage(Path, L, r, id)
    BY <1>1, SameStage DEF Stage, Stays
  <2> QED
    BY <1>1, <2>1 DEF Stage
<1> QED
  BY <1>1, NothingNewInLine

(* A frame arrives behind all others.                                      *)
LEMMA ArrivesInLine ==
  ASSUME NEW Path \in SUBSET Nodes, NEW L \in Seq(Path), NEW p \in 1..Len(L),
         Lane(Path, L, p), FrameInv, InLine(Path, L, p),
         NEW n \in Nodes, NEW x, Arrives(Path, n, x),
         \A id : By(L[p], id)' <=> By(L[p], id)
  PROVE  InLine(Path, L, p)'
<1>1. /\ Len(L) \in Nat /\ p \in Nat /\ \A r \in Stages(L) : r \in Nat /\ r >= 2
      /\ n = L[1]
  BY LaneNodes DEF Stages, Arrives
<1>2. Len(captured) \in Nat
  BY LenProperties DEF FrameInv, FrameTypes
<1>3. \A id \in Ids' : id = x \/ (id \in Ids /\ id < x)
  BY <1>2 DEF Ids, Arrives
<1>4. ASSUME NEW r \in Stages(L), NEW id \in Ids', id # x, Stage(Path, L, p, r, id)'
      PROVE  Stage(Path, L, p, r, id)
  <2>1. SameFor(Path, id)
    BY <1>4 DEF Arrives
  <2>2. AtStage(Path, L, r, id)
    BY <1>4, <2>1, SameStage DEF Stage
  <2> QED
    BY <1>4, <2>2 DEF Stage
<1>5. ASSUME NEW r \in Stages(L), Stage(Path, L, p, r, x)' PROVE r = 2
  <2>0. Only(Path, x, <<"hand", n>>)' /\ AtStage(Path, L, r, x)'
    BY <1>5 DEF Arrives, Stage
  <2>1. SpotAt(L, r, <<"hand", n>>)
    BY <2>0, OnlyAtStage
  <2>3. PICK k \in 1..Len(L) : n = L[k] /\ r = 2 * k
    BY <2>1 DEF SpotAt, AtWire
  <2>4. \A i, j \in 1..Len(L) : L[i] = L[j] => i = j
    BY LaneNodes, Zenon
  <2>5. 1 \in 1..Len(L) /\ L[1] = L[k]
    BY <1>1, <2>3
  <2>6. k = 1
    BY <2>3, <2>4, <2>5
  <2> QED
    BY <2>3, <2>6
<1> SUFFICES ASSUME NEW r1 \in Stages(L), NEW r2 \in Stages(L),
                    NEW a \in Ids', NEW b \in Ids', r1 < r2,
                    Stage(Path, L, p, r2, a)', Stage(Path, L, p, r1, b)'
             PROVE  a < b
  BY DEF InLine
<1>6. a # x
  BY <1>1, <1>5
<1>7. CASE b = x
  BY <1>3, <1>6, <1>7
<1>8. CASE b # x
  BY <1>3, <1>4, <1>6, <1>8 DEF InLine
<1> QED
  BY <1>7, <1>8
-----------------------------------------------------------------------------
(* The order in a queue and on the wire.                                   *)

(* The queues of the path have lost frames at most.                        *)
Shrinks(Path) ==
  \A m \in Path : \A i, j \in 1..Len(queue'[m]) : i < j =>
    \E a, b \in 1..Len(queue[m]) :
      a < b /\ queue'[m][i] = queue[m][a] /\ queue'[m][j] = queue[m][b]

(* Taking a frame out does that.                                           *)
LEMMA PopShrinks ==
  ASSUME NEW Path \in SUBSET Nodes, FrameInv, NEW n \in Nodes, Popped(n)
  PROVE  Shrinks(Path)
<1> SUFFICES ASSUME NEW m \in Path, NEW i \in 1..Len(queue'[m]),
                    NEW j \in 1..Len(queue'[m]), i < j
             PROVE  \E a, b \in 1..Len(queue[m]) :
                      /\ a < b /\ queue'[m][i] = queue[m][a]
                      /\ queue'[m][j] = queue[m][b]
  BY DEF Shrinks
<1>1. CASE m = n
  <2>1. /\ i + 1 \in 1..Len(queue[m]) /\ queue'[m][i] = queue[m][i + 1]
        /\ j + 1 \in 1..Len(queue[m]) /\ queue'[m][j] = queue[m][j + 1]
    BY <1>1, PopKeeps
  <2>2. i + 1 < j + 1
    BY PopKeeps
  <2> QED
    BY <2>1, <2>2
<1>2. CASE m # n
  BY <1>2, PopKeeps
<1> QED
  BY <1>1, <1>2

(* What is left is still in order.                                         *)
LEMMA ShrinkKeepsOrder ==
  ASSUME NEW Path \in SUBSET Nodes, NEW L \in Seq(Path), NEW p \in 1..Len(L),
         Lane(Path, L, p), QueueOrder(L, p), Shrinks(Path),
         \A id : By(L[p], id)' =>
           By(L[p], id) \/ \A m \in Path : ~InQueue(Path, m, id)'
  PROVE  QueueOrder(L, p)'
<1> SUFFICES ASSUME NEW k \in 2..Len(L),
                    NEW i \in 1..Len(queue'[L[k]]), NEW j \in 1..Len(queue'[L[k]]),
                    i < j,
                    k > p => /\ By(L[p], queue[L[k]][i].id)'
                             /\ By(L[p], queue[L[k]][j].id)'
             PROVE  queue'[L[k]][i].id < queue'[L[k]][j].id
  BY DEF QueueOrder
<1>1. L[k] \in Path
  BY LaneNodes
<1>2. PICK m : m = L[k]
  OBVIOUS
<1>3. PICK f, g : f = queue'[m][i] /\ g = queue'[m][j]
  OBVIOUS
<1>4. PICK a \in 1..Len(queue[m]), b \in 1..Len(queue[m]) :
        a < b /\ f = queue[m][a] /\ g = queue[m][b]
  BY <1>1, <1>2, <1>3 DEF Shrinks
<1>5. ASSUME k > p PROVE By(L[p], f.id) /\ By(L[p], g.id)
  <2>1. By(L[p], f.id)' /\ By(L[p], g.id)'
    BY <1>2, <1>3, <1>5 DEF By
  <2>2. InQueue(Path, m, f.id)' /\ InQueue(Path, m, g.id)'
    BY <1>1, <1>2, <1>3 DEF InQueue
  <2> QED
    BY <1>1, <1>2, <2>1, <2>2
<1>6. f.id < g.id
  BY <1>2, <1>4, <1>5 DEF QueueOrder
<1> QED
  BY <1>2, <1>3, <1>6

(* A frame is added behind earlier ones.                                   *)
LEMMA PushKeepsOrder ==
  ASSUME NEW Path \in SUBSET Nodes, NEW L \in Seq(Path), NEW p \in 1..Len(L),
         Lane(Path, L, p), FrameInv, QueueOrder(L, p),
         NEW m \in Nodes, NEW f \in Frames,
         queue' = [queue EXCEPT ![m] = Append(@, f)],
         \A id : By(L[p], id)' => By(L[p], id),
         \A k \in 2..Len(L) : m = L[k] =>
           \A i \in 1..Len(queue[m]) :
             (k > p => By(L[p], queue[m][i].id) /\ By(L[p], f.id))
               => queue[m][i].id < f.id
  PROVE  QueueOrder(L, p)'
<1> SUFFICES ASSUME NEW k \in 2..Len(L),
                    NEW i \in 1..Len(queue'[L[k]]), NEW j \in 1..Len(queue'[L[k]]),
                    i < j,
                    k > p => /\ By(L[p], queue[L[k]][i].id)'
                             /\ By(L[p], queue[L[k]][j].id)'
             PROVE  queue'[L[k]][i].id < queue'[L[k]][j].id
  BY DEF QueueOrder
<1>1. PICK n : n = L[k]
  OBVIOUS
<1>2. PICK g, h : g = queue'[n][i] /\ h = queue'[n][j]
  OBVIOUS
<1>3. k > p => By(L[p], g.id) /\ By(L[p], h.id)
  <2>1. k > p => By(L[p], g.id)' /\ By(L[p], h.id)'
    BY <1>1, <1>2 DEF By
  <2> QED
    BY <2>1
<1>4. n \in Nodes
  BY <1>1, LaneNodes
<1>5. /\ Len(queue[m]) \in Nat /\ Len(queue'[m]) = Len(queue[m]) + 1
      /\ \A l \in 1..Len(queue[m]) : queue'[m][l] = queue[m][l]
      /\ queue'[m][Len(queue'[m])] = f
      /\ \A l \in Nodes : l # m => queue'[l] = queue[l]
  BY PushKeeps
<1>6. CASE n # m
  <2>1. /\ i \in 1..Len(queue[n]) /\ j \in 1..Len(queue[n])
        /\ g = queue[n][i] /\ h = queue[n][j]
    BY <1>1, <1>2, <1>4, <1>5, <1>6
  <2> QED
    BY <1>1, <1>2, <1>3, <2>1 DEF QueueOrder
<1>7. CASE n = m /\ j # Len(queue'[m])
  <2>1. /\ i \in 1..Len(queue[n]) /\ j \in 1..Len(queue[n])
        /\ g = queue[n][i] /\ h = queue[n][j]
    BY <1>1, <1>2, <1>5, <1>7
  <2> QED
    BY <1>1, <1>2, <1>3, <2>1 DEF QueueOrder
<1>8. CASE n = m /\ j = Len(queue'[m])
  <2>1. i \in 1..Len(queue[m]) /\ g = queue[m][i] /\ h = f
    BY <1>1, <1>2, <1>5, <1>8
  <2> QED
    BY <1>1, <1>2, <1>3, <1>8, <2>1
<1> QED
  BY <1>6, <1>7, <1>8

(* So is one that is sent.                                                 *)
LEMMA SendKeepsOrder ==
  ASSUME FrameInv, NEW t, SentOrder(t), NEW f \in Frames, sent' = Append(sent, f),
         \A id : By(t, id)' => By(t, id),
         \A i \in 1..Len(sent) :
           By(t, sent[i].id) /\ By(t, f.id) => sent[i].id < f.id
  PROVE  SentOrder(t)'
<1>1. /\ Len(sent) \in Nat /\ Len(sent') = Len(sent) + 1
      /\ \A i \in 1..Len(sent) : sent'[i] = sent[i]
      /\ sent'[Len(sent')] = f
  BY AppendProperties, LenProperties DEF FrameInv, FrameTypes
<1> SUFFICES ASSUME NEW i \in 1..Len(sent'), NEW j \in 1..Len(sent'), i < j,
                    By(t, sent[i].id)', By(t, sent[j].id)'
             PROVE  sent'[i].id < sent'[j].id
  BY DEF SentOrder
<1>2. PICK g, h : g = sent'[i] /\ h = sent'[j]
  OBVIOUS
<1>3. By(t, g.id) /\ By(t, h.id)
  <2>1. By(t, g.id)' /\ By(t, h.id)'
    BY <1>2 DEF By
  <2> QED
    BY <2>1
<1>4. i \in 1..Len(sent) /\ g = sent[i]
  BY <1>1, <1>2
<1>5. CASE j # Len(sent')
  <2>1. j \in 1..Len(sent) /\ h = sent[j]
    BY <1>1, <1>2, <1>5
  <2> QED
    BY <1>2, <1>3, <1>4, <2>1 DEF SentOrder
<1>6. CASE j = Len(sent')
  <2>1. h = f
    BY <1>1, <1>2, <1>6
  <2> QED
    BY <1>2, <1>3, <1>4, <2>1
<1> QED
  BY <1>5, <1>6

(* Nothing is sent, and what was sent is not tagged again.                 *)
LEMMA NothingSentKeepsOrder ==
  ASSUME NEW t, SentOrder(t), UNCHANGED sent,
         \A id : By(t, id)' => By(t, id) \/ ~IsSent(id)'
  PROVE  SentOrder(t)'
<1> SUFFICES ASSUME NEW i \in 1..Len(sent), NEW j \in 1..Len(sent), i < j,
                    By(t, sent[i].id)', By(t, sent[j].id)'
             PROVE  sent[i].id < sent[j].id
  BY DEF SentOrder
<1>1. PICK g, h : g = sent[i] /\ h = sent[j]
  OBVIOUS
<1>2. By(t, g.id)' /\ By(t, h.id)' /\ IsSent(g.id)' /\ IsSent(h.id)'
  BY <1>1 DEF By, IsSent
<1>3. By(t, g.id) /\ By(t, h.id)
  BY <1>2
<1> QED
  BY <1>1, <1>3 DEF SentOrder
-----------------------------------------------------------------------------
(* Where the frames of a tagger are.                                       *)

(* A frame that goes on stays on the lane if its tagger's it is.           *)
LEMMA MovesOnLane ==
  ASSUME NEW Path \in SUBSET Nodes, NEW L, NEW p, OnLane(Path, L, p),
         Len(captured') = Len(captured),
         NEW x, NEW q1, NEW q2, Moves(Path, x, q1, q2),
         \A id \in Ids : id # x /\ By(L[p], id)' => By(L[p], id),
         By(L[p], x)' =>
           \A n \in Nodes :
             /\ q2 = <<"hand", n>> => \E k \in p..Len(L) : n = L[k]
             /\ q2 = <<"queue", n>> => \E k \in (p + 1)..Len(L) : n = L[k]
  PROVE  OnLane(Path, L, p)'
<1> SUFFICES ASSUME NEW id \in Ids, By(L[p], id)', NEW n \in Nodes
             PROVE  /\ InHand(Path, n, id)' => \E k \in p..Len(L) : n = L[k]
                    /\ InQueue(Path, n, id)' => \E k \in (p + 1)..Len(L) : n = L[k]
  BY DEF OnLane, Ids
<1>1. CASE id = x
  BY <1>1 DEF Moves, Only
<1>2. CASE id # x
  BY <1>2 DEF Moves, SameFor, OnLane
<1> QED
  BY <1>1, <1>2

(* Frames that stay do.                                                    *)
LEMMA StaysOnLane ==
  ASSUME NEW Path \in SUBSET Nodes, NEW L, NEW p, OnLane(Path, L, p),
         Len(captured') = Len(captured), Stays(Path),
         \A id \in Ids : By(L[p], id)' => By(L[p], id)
  PROVE  OnLane(Path, L, p)'
<1> SUFFICES ASSUME NEW id \in Ids, By(L[p], id)', NEW n \in Nodes
             PROVE  /\ InHand(Path, n, id)' => \E k \in p..Len(L) : n = L[k]
                    /\ InQueue(Path, n, id)' => \E k \in (p + 1)..Len(L) : n = L[k]
  BY DEF OnLane, Ids
<1> QED
  BY DEF Stays, SameFor, OnLane
-----------------------------------------------------------------------------
(* The steps.                                                              *)

(* A frame leaves the path or none moves, and nobody tags.                 *)
LEMMA LosesKeepsLane ==
  ASSUME NEW Path \in SUBSET Nodes, NEW L \in Seq(Path), NEW p \in 1..Len(L),
         Lane(Path, L, p), LaneInv(Path, L, p),
         NEW x, NEW q, NEW m, Stays(Path) \/ Moves(Path, x, q, <<"lost", m>>),
         Shrinks(Path), UNCHANGED <<captured, sent, tagged>>
  PROVE  LaneInv(Path, L, p)'
<1>1. \A id : By(L[p], id)' <=> By(L[p], id)
  BY DEF By
<1>2. QueueOrder(L, p)' /\ SentOrder(L[p])'
  BY <1>1, ShrinkKeepsOrder, NothingSentKeepsOrder DEF LaneInv
<1>3. CASE Stays(Path)
  BY <1>1, <1>2, <1>3, StaysInLine, StaysOnLane DEF LaneInv
<1>4. CASE Moves(Path, x, q, <<"lost", m>>)
  <2>1. \A r \in Stages(L) : ~Stage(Path, L, p, r, x)'
    <3> SUFFICES ASSUME NEW r \in Stages(L), AtStage(Path, L, r, x)'
                 PROVE  FALSE
      BY DEF Stage
    <3>1. SpotAt(L, r, <<"lost", m>>)
      BY <1>4, OnlyAtStage DEF Moves
    <3> QED
      BY <3>1 DEF SpotAt, AtWire
  <2>2. InLine(Path, L, p)'
    BY <1>1, <1>4, <2>1, LeavesLine DEF LaneInv, Moves
  <2>3. OnLane(Path, L, p)'
    BY <1>1, <1>4, MovesOnLane DEF LaneInv
  <2> QED
    BY <1>2, <2>2, <2>3 DEF LaneInv
<1> QED
  BY <1>3, <1>4

(* The place on the lane of a node on it, and its stages.                  *)
LEMMA PlaceOnLane ==
  ASSUME NEW Path \in SUBSET Nodes, NEW L \in Seq(Path), NEW p \in 1..Len(L),
         Lane(Path, L, p), NEW k \in 1..Len(L)
  PROVE  /\ \A r : SpotAt(L, r, <<"queue", L[k]>>) => r = 2 * k - 1
         /\ \A r : SpotAt(L, r, <<"hand", L[k]>>) => r = 2 * k
         /\ k # 1 => SpotAt(L, 2 * k - 1, <<"queue", L[k]>>)
         /\ SpotAt(L, 2 * k, <<"hand", L[k]>>)
         /\ 2 * k \in Stages(L) /\ (k # 1 => 2 * k - 1 \in Stages(L))
         /\ 2 * k - 1 >= 2 * p <=> k > p
         /\ 2 * k >= 2 * p <=> k >= p
<1>1. \A i, j \in 1..Len(L) : L[i] = L[j] => i = j
  BY LaneNodes, Zenon
<1>2. Len(L) \in Nat
  BY LaneNodes
<1>3. ASSUME NEW r, SpotAt(L, r, <<"queue", L[k]>>) PROVE r = 2 * k - 1
  <2>1. PICK j \in 2..Len(L) : L[k] = L[j] /\ r = 2 * j - 1
    BY <1>3 DEF SpotAt, AtWire
  <2>2. j \in 1..Len(L)
    BY <1>2
  <2> QED
    BY <1>1, <2>1, <2>2
<1>4. ASSUME NEW r, SpotAt(L, r, <<"hand", L[k]>>) PROVE r = 2 * k
  <2>1. PICK j \in 1..Len(L) : L[k] = L[j] /\ r = 2 * j
    BY <1>4 DEF SpotAt, AtWire
  <2> QED
    BY <1>1, <2>1
<1>5. k # 1 => SpotAt(L, 2 * k - 1, <<"queue", L[k]>>)
  BY <1>2 DEF SpotAt
<1>6. SpotAt(L, 2 * k, <<"hand", L[k]>>)
  BY DEF SpotAt
<1>7. 2 * k \in Stages(L) /\ (k # 1 => 2 * k - 1 \in Stages(L))
  BY <1>2 DEF Stages
<1>8. (2 * k - 1 >= 2 * p <=> k > p) /\ (2 * k >= 2 * p <=> k >= p)
  BY <1>2
<1> QED
  BY <1>3, <1>4, <1>5, <1>6, <1>7, <1>8

(* What is at these stages.                                                *)
LEMMA AtPlace ==
  ASSUME NEW Path \in SUBSET Nodes, NEW L \in Seq(Path), NEW p \in 1..Len(L),
         Lane(Path, L, p), NEW k \in 1..Len(L), NEW id
  PROVE  /\ AtStage(Path, L, 2 * k - 1, id) => InQueue(Path, L[k], id)
         /\ AtStage(Path, L, 2 * k, id) => InHand(Path, L[k], id)
         /\ k # 1 /\ InQueue(Path, L[k], id) => AtStage(Path, L, 2 * k - 1, id)
         /\ InHand(Path, L[k], id) => AtStage(Path, L, 2 * k, id)
<1>1. Len(L) \in Nat
  BY LaneNodes
<1>2. ASSUME AtStage(Path, L, 2 * k - 1, id) PROVE InQueue(Path, L[k], id)
  BY <1>1, <1>2 DEF AtStage
<1>3. ASSUME AtStage(Path, L, 2 * k, id) PROVE InHand(Path, L[k], id)
  BY <1>1, <1>3 DEF AtStage
<1>4. /\ k # 1 /\ InQueue(Path, L[k], id) => AtStage(Path, L, 2 * k - 1, id)
      /\ InHand(Path, L[k], id) => AtStage(Path, L, 2 * k, id)
  BY <1>1 DEF AtStage
<1> QED
  BY <1>2, <1>3, <1>4

(* The frames behind the first one in a queue of the lane came later.      *)
LEMMA FirstIsEarliest ==
  ASSUME NEW Path \in SUBSET Nodes, NEW L \in Seq(Path), NEW p \in 1..Len(L),
         Lane(Path, L, p), FrameInv, QueueOrder(L, p),
         NEW k \in 2..Len(L), Popped(L[k]), NEW x, x = Head(queue[L[k]]).id,
         k > p => By(L[p], x),
         NEW id, id # x, InQueue(Path, L[k], id), k > p => By(L[p], id)
  PROVE  x < id
<1>1. PICK n \in Nodes : n = L[k]
  BY LaneNodes
<1>2. Len(queue[n]) \in Nat /\ 1 \in 1..Len(queue[n]) /\ x = queue[n][1].id
  BY <1>1, PopKeeps
<1>3. PICK i \in 1..Len(queue[n]) : queue[n][i].id = id
  BY <1>1 DEF InQueue
<1>4. 1 < i
  BY <1>2, <1>3
<1> QED
  BY <1>1, <1>2, <1>3, <1>4 DEF QueueOrder

(* A node takes a frame out of its queue to pass it on.                    *)
LEMMA TakeKeepsLane ==
  ASSUME NEW Path \in SUBSET Nodes, NEW L \in Seq(Path), NEW p \in 1..Len(L),
         Lane(Path, L, p), FrameInv, LaneInv(Path, L, p),
         NEW n \in Nodes, Popped(n), NEW x, x = Head(queue[n]).id,
         TakenUp(Path, n, x), UNCHANGED <<captured, sent>>,
         \A id : By(L[p], id)' => By(L[p], id) \/ (n = L[p] /\ id = x)
  PROVE  LaneInv(Path, L, p)'
<1>1. Shrinks(Path)
  BY PopShrinks
<1>2. CASE n \notin Path
  <2>1. n # L[p]
    BY <1>2, LaneNodes
  <2>2. Stays(Path)
    BY <1>2 DEF TakenUp
  <2> QED
    BY <1>1, <2>1, <2>2, StaysInLine, StaysOnLane, ShrinkKeepsOrder,
       NothingSentKeepsOrder DEF LaneInv
<1>3. CASE n \in Path
  <2>1. Moves(Path, x, <<"queue", n>>, <<"hand", n>>)
    BY <1>3 DEF TakenUp
  <2>2. /\ \A m \in Path : ~InQueue(Path, m, x)'
        /\ ~IsSent(x)' /\ InQueue(Path, n, x) /\ x \in Ids
    BY <1>3, <2>1 DEF Moves, Only, AtWire, Ids
  <2>3. QueueOrder(L, p)' /\ SentOrder(L[p])'
    BY <1>1, <2>2, ShrinkKeepsOrder, NothingSentKeepsOrder DEF LaneInv
  <2>4. OnLane(Path, L, p)'
    <3>1. ASSUME By(L[p], x)', NEW m \in Nodes, m = n
          PROVE  \E k \in p..Len(L) : m = L[k]
      <4>1. CASE By(L[p], x)
        <5>1. PICK k \in (p + 1)..Len(L) : n = L[k]
          BY <2>2, <4>1 DEF LaneInv, OnLane
        <5>2. k \in p..Len(L)
          BY LaneNodes
        <5> QED
          BY <3>1, <5>1, <5>2
      <4>2. CASE n = L[p]
        <5>1. p \in p..Len(L)
          BY LaneNodes
        <5> QED
          BY <3>1, <4>2, <5>1
      <4> QED
        BY <3>1, <4>1, <4>2
    <3>2. PICK q : q = <<"hand", n>>
      OBVIOUS
    <3>3. ASSUME By(L[p], x)', NEW m \in Nodes
          PROVE  /\ q = <<"hand", m>> => \E k \in p..Len(L) : m = L[k]
                 /\ q = <<"queue", m>> => \E k \in (p + 1)..Len(L) : m = L[k]
      BY <3>1, <3>2, <3>3
    <3>4. Moves(Path, x, <<"queue", n>>, q)
      BY <2>1, <3>2
    <3> QED
      BY <3>3, <3>4, MovesOnLane DEF LaneInv
  <2>5. InLine(Path, L, p)'
    <3>1. ASSUME NEW k \in 1..Len(L), n = L[k], k > p => By(L[p], x)
          PROVE  InLine(Path, L, p)'
      <4>1. k # 1
        <5>1. ~IsSource(n)
          BY DEF Popped, FrameInv, Phases, Phase
        <5> QED
          BY <3>1, <5>1, LaneNodes
      <4>2. PICK s : s = 2 * k - 1
        OBVIOUS
      <4>3. /\ s \in Stages(L) /\ SpotAt(L, s, <<"queue", n>>)
            /\ \A r \in Stages(L) : SpotAt(L, r, <<"hand", n>>) => r = s + 1
            /\ s >= 2 * p => By(L[p], x)
            /\ s >= 2 * p <=> k > p
        BY <3>1, <4>1, <4>2, PlaceOnLane
      <4>4. ASSUME NEW id \in Ids, id # x, Stage(Path, L, p, s, id) PROVE x < id
        <5>1. InQueue(Path, L[k], id) /\ (k > p => By(L[p], id))
          BY <4>2, <4>3, <4>4, AtPlace DEF Stage
        <5>2. k \in 2..Len(L) /\ Popped(L[k]) /\ x = Head(queue[L[k]]).id
          BY <3>1, <4>1
        <5> QED
          BY <3>1, <4>4, <5>1, <5>2, FirstIsEarliest DEF LaneInv
      <4> QED
        BY <2>1, <4>3, <4>4, GoesOnInLine DEF LaneInv
    <3>2. ASSUME \A r \in Stages(L) : ~Stage(Path, L, p, r, x)'
          PROVE  InLine(Path, L, p)'
      <4>1. \A id : id # x => SameFor(Path, id)
        BY <2>1 DEF Moves
      <4>2. \A id \in Ids : id # x /\ By(L[p], id)' => By(L[p], id)
        OBVIOUS
      <4> QED
        BY <3>2, <4>1, <4>2, LeavesLine DEF LaneInv
    <3>3. ASSUME NEW k \in 1..Len(L), n = L[k], k > p, ~By(L[p], x)
          PROVE  \A r \in Stages(L) : ~Stage(Path, L, p, r, x)'
      <4>1. n # L[p]
        BY <3>3, LaneNodes
      <4>2. ~By(L[p], x)'
        BY <3>3, <4>1
      <4>3. ASSUME NEW r \in Stages(L), AtStage(Path, L, r, x)' PROVE r >= 2 * p
        <5>1. SpotAt(L, r, <<"hand", n>>)
          BY <2>1, <4>3, OnlyAtStage DEF Moves
        <5>2. r = 2 * k
          BY <3>3, <5>1, PlaceOnLane
        <5> QED
          BY <3>3, <5>2
      <4> QED
        BY <4>2, <4>3 DEF Stage
    <3>4. ASSUME \A k \in 1..Len(L) : n # L[k]
          PROVE  \A r \in Stages(L) : ~Stage(Path, L, p, r, x)'
      <4> SUFFICES ASSUME NEW r \in Stages(L), AtStage(Path, L, r, x)'
                   PROVE  FALSE
        BY DEF Stage
      <4>1. SpotAt(L, r, <<"hand", n>>)
        BY <2>1, OnlyAtStage DEF Moves
      <4> QED
        BY <3>4, <4>1 DEF SpotAt, AtWire
    <3> QED
      BY <3>1, <3>2, <3>3, <3>4
  <2> QED
    BY <2>3, <2>4, <2>5 DEF LaneInv
<1> QED
  BY <1>2, <1>3

(* Who pushes to a node of the lane: the node before it, but for frames    *)
(* of other taggers.                                                       *)
LEMMA WhoPushes ==
  ASSUME NEW Path \in SUBSET Nodes, NEW L \in Seq(Path), NEW p \in 1..Len(L),
         Lane(Path, L, p), OnLane(Path, L, p), NEW n \in Nodes,
         NEW i \in 1..Len(Outputs[n]), NEW k \in 1..Len(L), Outputs[n][i] = L[k],
         NEW x \in Ids, InHand(Path, n, x), k > p => By(L[p], x)
  PROVE  k - 1 \in 1..Len(L) /\ n = L[k - 1]
<1>1. k <= p \/ \E j \in 1..Len(L) : n = L[j]
  <2>1. CASE k > p
    <3>1. PICK j \in p..Len(L) : n = L[j]
      BY <2>1 DEF OnLane
    <3>2. j \in 1..Len(L)
      BY LaneNodes
    <3> QED
      BY <3>1, <3>2
  <2> QED
    BY <2>1, LaneNodes
<1>2. k <= p \/ OnLine(L, n)
  BY <1>1 DEF OnLine
<1>3. k > 1 /\ n = L[k - 1]
  BY <1>2, Zenon DEF Lane
<1> QED
  BY <1>3, LaneNodes

(* A tagged frame on the lane goes on along the lane.                      *)
LEMMA GoesOnOnLane ==
  ASSUME NEW Path \in SUBSET Nodes, NEW L \in Seq(Path), NEW p \in 1..Len(L),
         Lane(Path, L, p), OnLane(Path, L, p), NEW n \in Nodes,
         NEW i \in 1..Len(Outputs[n]), NEW m \in Path, Outputs[n][i] = m,
         NEW x \in Ids, InHand(Path, n, x), By(L[p], x)
  PROVE  \E k \in (p + 1)..Len(L) : m = L[k]
<1>1. PICK j \in p..Len(L) : n = L[j]
  BY DEF OnLane
<1>2. j \in 1..Len(L) /\ Len(L) \in Nat
  BY LaneNodes
<1>3. PICK k \in 1..Len(L) : m = L[k]
  <2>1. OnLine(L, m)
    BY <1>1, Zenon DEF Lane
  <2> QED
    BY <2>1 DEF OnLine
<1>4. k - 1 \in 1..Len(L) /\ n = L[k - 1]
  BY <1>3, WhoPushes
<1>5. \A a, b \in 1..Len(L) : L[a] = L[b] => a = b
  BY LaneNodes, Zenon
<1>6. k - 1 = j
  BY <1>1, <1>2, <1>4, <1>5
<1> QED
  BY <1>1, <1>2, <1>3, <1>6

(* A node pushes a frame into the queue of the next one.                   *)
LEMMA PushKeepsLane ==
  ASSUME NEW Path \in SUBSET Nodes, NEW L \in Seq(Path), NEW p \in 1..Len(L),
         Lane(Path, L, p), FrameInv, LaneInv(Path, L, p),
         NEW n \in Nodes, NEW m \in Path, NEW i \in 1..Len(Outputs[n]),
         Outputs[n][i] = m, NEW f \in Frames,
         Moves(Path, f.id, <<"hand", n>>, <<"queue", m>>),
         queue' = [queue EXCEPT ![m] = Append(@, f)],
         UNCHANGED <<captured, sent, tagged>>
  PROVE  LaneInv(Path, L, p)'
<1>1. PICK x : x = f.id
  OBVIOUS
<1>2. Moves(Path, x, <<"hand", n>>, <<"queue", m>>)
  BY <1>1
<1>3. InHand(Path, n, x) /\ x \in Ids
  BY <1>2 DEF Moves, Only, Ids
<1>4. \A id : By(L[p], id)' <=> By(L[p], id)
  BY DEF By
<1>5. OnLane(Path, L, p) /\ InLine(Path, L, p) /\ QueueOrder(L, p)
  BY DEF LaneInv
<1>6. ASSUME NEW k \in 1..Len(L), m = L[k], k > p => By(L[p], x)
      PROVE  /\ k - 1 \in 1..Len(L) /\ k # 1 /\ n = L[k - 1]
             /\ 2 * (k - 1) \in Stages(L) /\ 2 * k - 1 \in Stages(L)
             /\ 2 * k - 1 = 2 * (k - 1) + 1
             /\ SpotAt(L, 2 * (k - 1), <<"hand", n>>)
             /\ SpotAt(L, 2 * k - 1, <<"queue", m>>)
             /\ \A r : SpotAt(L, r, <<"queue", m>>) => r = 2 * k - 1
             /\ 2 * (k - 1) >= 2 * p => k > p
             /\ 2 * k - 1 >= 2 * p <=> k > p
  <2>1. k - 1 \in 1..Len(L) /\ n = L[k - 1]
    <3>1. Outputs[n][i] = L[k] /\ (k > p => By(L[p], x))
      BY <1>6
    <3>2. InHand(Path, n, x) /\ x \in Ids /\ OnLane(Path, L, p)
      BY <1>3, <1>5
    <3> QED
      BY <3>1, <3>2, WhoPushes, SMTT(30)
  <2>2. k # 1 /\ 2 * k - 1 = 2 * (k - 1) + 1 /\ (2 * (k - 1) >= 2 * p => k > p)
    BY <2>1, LaneNodes
  <2>3. 2 * (k - 1) \in Stages(L) /\ SpotAt(L, 2 * (k - 1), <<"hand", n>>)
    BY <2>1, PlaceOnLane
  <2>4. /\ 2 * k - 1 \in Stages(L) /\ SpotAt(L, 2 * k - 1, <<"queue", m>>)
        /\ \A r : SpotAt(L, r, <<"queue", m>>) => r = 2 * k - 1
        /\ 2 * k - 1 >= 2 * p <=> k > p
    BY <1>6, <2>2, PlaceOnLane
  <2> QED
    BY <2>1, <2>2, <2>3, <2>4
<1>7. QueueOrder(L, p)'
  <2>1. ASSUME NEW k \in 2..Len(L), m = L[k], NEW j \in 1..Len(queue[m]),
               k > p => By(L[p], queue[m][j].id) /\ By(L[p], f.id)
        PROVE  queue[m][j].id < f.id
    <3>1. PICK a : a = queue[m][j].id
      OBVIOUS
    <3>2. InQueue(Path, m, a) /\ a \in Ids
      <4>1. InQueue(Path, m, a)
        BY <3>1 DEF InQueue
      <4> QED
        BY <4>1, BeyondCaptured DEF Ids
    <3>3. k \in 1..Len(L) /\ k # 1
      BY LaneNodes
    <3>4. /\ Stage(Path, L, p, 2 * k - 1, a) /\ Stage(Path, L, p, 2 * (k - 1), x)
          /\ 2 * (k - 1) \in Stages(L) /\ 2 * k - 1 \in Stages(L)
          /\ 2 * k - 1 = 2 * (k - 1) + 1
      <4>1. k > p => By(L[p], x) /\ By(L[p], a)
        BY <1>1, <2>1, <3>1
      <4>2. /\ AtStage(Path, L, 2 * k - 1, a)
        BY <2>1, <3>2, <3>3, AtPlace
      <4>3. AtStage(Path, L, 2 * (k - 1), x)
        <5>1. k - 1 \in 1..Len(L) /\ n = L[k - 1]
          BY <1>6, <2>1, <3>3, <4>1
        <5>2. InHand(Path, L[k - 1], x)
          BY <1>3, <5>1
        <5> QED
          BY <5>1, <5>2, AtPlace
      <4> QED
        BY <1>6, <2>1, <3>3, <4>1, <4>2, <4>3 DEF Stage
    <3>5. 2 * (k - 1) < 2 * k - 1
      BY <3>3, LaneNodes
    <3>6. a < x
      BY <1>3, <1>5, <3>2, <3>4, <3>5 DEF InLine
    <3> QED
      BY <1>1, <3>1, <3>6
  <2> QED
    BY <1>4, <1>5, <2>1, PushKeepsOrder
<1>8. SentOrder(L[p])'
  BY <1>4, NothingSentKeepsOrder DEF LaneInv
<1>9. OnLane(Path, L, p)'
  <2>1. PICK q : q = <<"queue", m>>
    OBVIOUS
  <2>2. ASSUME By(L[p], x)', NEW l \in Nodes
        PROVE  /\ q = <<"hand", l>> => \E k \in p..Len(L) : l = L[k]
               /\ q = <<"queue", l>> => \E k \in (p + 1)..Len(L) : l = L[k]
    <3>1. \E k \in (p + 1)..Len(L) : m = L[k]
      BY <1>3, <1>4, <1>5, <2>2, GoesOnOnLane
    <3> QED
      BY <2>1, <3>1
  <2>3. Moves(Path, x, <<"hand", n>>, q)
    BY <1>2, <2>1
  <2> QED
    BY <1>4, <1>5, <2>2, <2>3, MovesOnLane
<1>10. InLine(Path, L, p)'
  <2>1. ASSUME NEW k \in 1..Len(L), m = L[k], k > p => By(L[p], x)
        PROVE  InLine(Path, L, p)'
    <3>1. PICK s : s = 2 * (k - 1)
      OBVIOUS
    <3>2. /\ s \in Stages(L) /\ SpotAt(L, s, <<"hand", n>>)
          /\ \A r \in Stages(L) : SpotAt(L, r, <<"queue", m>>) => r = s + 1
          /\ s >= 2 * p => By(L[p], x)
      BY <1>6, <2>1, <3>1
    <3>3. ASSUME NEW id \in Ids, id # x, Stage(Path, L, p, s, id) PROVE x < id
      <4>1. k - 1 \in 1..Len(L) /\ n = L[k - 1]
        BY <1>6, <2>1
      <4>2. InHand(Path, n, id)
        BY <3>1, <3>3, <4>1, AtPlace DEF Stage
      <4> QED
        BY <1>3, <3>3, <4>2 DEF InHand
    <3> QED
      BY <1>2, <1>4, <1>5, <3>2, <3>3, GoesOnInLine
  <2>2. ASSUME \A r \in Stages(L) : ~Stage(Path, L, p, r, x)'
        PROVE  InLine(Path, L, p)'
    <3>1. \A id : id # x => SameFor(Path, id)
      BY <1>2 DEF Moves
    <3> QED
      BY <1>4, <1>5, <2>2, <3>1, LeavesLine
  <2>3. ASSUME NEW r \in Stages(L), Stage(Path, L, p, r, x)'
        PROVE  \E k \in 1..Len(L) : m = L[k] /\ (k > p => By(L[p], x))
    <3>1. SpotAt(L, r, <<"queue", m>>) /\ (r >= 2 * p => By(L[p], x))
      BY <1>2, <1>4, <2>3, OnlyAtStage DEF Moves, Stage
    <3>2. PICK k \in 2..Len(L) : m = L[k] /\ r = 2 * k - 1
      BY <3>1 DEF SpotAt, AtWire
    <3>3. k \in 1..Len(L) /\ (k > p => r >= 2 * p)
      BY <3>2, LaneNodes
    <3> QED
      BY <3>1, <3>2, <3>3
  <2> QED
    BY <2>1, <2>2, <2>3
<1> QED
  BY <1>7, <1>8, <1>9, <1>10 DEF LaneInv

(* The queues that stay as they are have lost none.                        *)
LEMMA SameShrinks ==
  ASSUME NEW Path \in SUBSET Nodes, \A m \in Path : queue'[m] = queue[m]
  PROVE  Shrinks(Path)
BY DEF Shrinks

(* A sender puts a frame on the wire.                                      *)
LEMMA SendKeepsLane ==
  ASSUME NEW Path \in SUBSET Nodes, NEW L \in Seq(Path), NEW p \in 1..Len(L),
         Lane(Path, L, p), FrameInv, LaneInv(Path, L, p),
         NEW n \in Nodes, Kind[n] = "sender", NEW f \in Frames,
         Moves(Path, f.id, <<"hand", n>>, AtWire), sent' = Append(sent, f),
         UNCHANGED <<captured, queue, tagged>>
  PROVE  LaneInv(Path, L, p)'
<1>1. PICK x : x = f.id
  OBVIOUS
<1>2. Moves(Path, x, <<"hand", n>>, AtWire)
  BY <1>1
<1>3. InHand(Path, n, x) /\ x \in Ids
  BY <1>2 DEF Moves, Only, Ids
<1>4. \A id : By(L[p], id)' <=> By(L[p], id)
  BY DEF By
<1>5. /\ OnLane(Path, L, p) /\ InLine(Path, L, p) /\ QueueOrder(L, p)
      /\ SentOrder(L[p])
  BY DEF LaneInv
<1>6. Len(L) \in Nat \ {0} /\ p \in Nat /\ p <= Len(L)
  BY LaneNodes
<1>7. By(L[p], x) => n = L[Len(L)]
  <2> SUFFICES ASSUME By(L[p], x) PROVE n = L[Len(L)]
    OBVIOUS
  <2>1. PICK k \in p..Len(L) : n = L[k]
    BY <1>3, <1>5 DEF OnLane
  <2>2. k \in 1..Len(L)
    BY LaneNodes
  <2> QED
    BY <2>1, <2>2, LaneNodes
<1>8. PICK s : s = 2 * Len(L)
  OBVIOUS
<1>9. /\ s \in Stages(L) /\ s + 1 \in Stages(L) /\ s < s + 1
      /\ s >= 2 * p /\ s + 1 >= 2 * p
  BY <1>6, <1>8 DEF Stages
<1>10. \A r : SpotAt(L, r, AtWire) <=> r = s + 1
  BY <1>8 DEF SpotAt, AtWire
<1>11. By(L[p], x) => Stage(Path, L, p, s, x) /\ SpotAt(L, s, <<"hand", n>>)
  <2> SUFFICES ASSUME By(L[p], x)
               PROVE  Stage(Path, L, p, s, x) /\ SpotAt(L, s, <<"hand", n>>)
    OBVIOUS
  <2>1. Len(L) \in 1..Len(L) /\ n = L[Len(L)]
    BY <1>6, <1>7
  <2> QED
    BY <1>3, <1>8, <2>1, AtPlace, PlaceOnLane DEF Stage
<1>12. SentOrder(L[p])'
  <2>1. ASSUME NEW i \in 1..Len(sent), By(L[p], sent[i].id), By(L[p], f.id)
        PROVE  sent[i].id < f.id
    <3>1. PICK a : a = sent[i].id
      OBVIOUS
    <3>2. IsSent(a)
      BY <3>1 DEF IsSent
    <3>3. a \in Ids
      BY <3>2, BeyondCaptured DEF Ids
    <3>4. Stage(Path, L, p, s + 1, a)
      BY <1>8, <2>1, <3>1, <3>2 DEF Stage, AtStage
    <3>5. a < x
      BY <1>1, <1>3, <1>5, <1>9, <1>11, <2>1, <3>3, <3>4 DEF InLine
    <3> QED
      BY <1>1, <3>1, <3>5
  <2> QED
    BY <1>4, <1>5, <2>1, SendKeepsOrder
<1>13. QueueOrder(L, p)'
  BY <1>4, <1>5, SameShrinks, ShrinkKeepsOrder
<1>14. OnLane(Path, L, p)'
  <2>1. PICK q : q = AtWire
    OBVIOUS
  <2>2. \A l \in Nodes : q # <<"hand", l>> /\ q # <<"queue", l>>
    BY <2>1 DEF AtWire
  <2>3. Moves(Path, x, <<"hand", n>>, q)
    BY <1>2, <2>1
  <2> QED
    BY <1>4, <1>5, <2>2, <2>3, MovesOnLane
<1>15. InLine(Path, L, p)'
  <2>1. CASE By(L[p], x)
    <3>1. ASSUME NEW id \in Ids, id # x, Stage(Path, L, p, s, id) PROVE x < id
      <4>1. Len(L) \in 1..Len(L) /\ n = L[Len(L)]
        BY <1>6, <1>7, <2>1
      <4>2. InHand(Path, n, id)
        BY <1>8, <3>1, <4>1, AtPlace DEF Stage
      <4> QED
        BY <1>3, <3>1, <4>2 DEF InHand
    <3>2. PICK q1, q2 : q1 = <<"hand", n>> /\ q2 = AtWire
      OBVIOUS
    <3>3. Moves(Path, x, q1, q2) /\ SpotAt(L, s, q1)
      BY <1>2, <1>11, <2>1, <3>2
    <3>4. \A r \in Stages(L) : SpotAt(L, r, q2) => r = s + 1
      BY <1>10, <3>2
    <3> QED
      BY <1>4, <1>5, <1>9, <2>1, <3>1, <3>3, <3>4, GoesOnInLine
  <2>2. CASE ~By(L[p], x)
    <3>1. ASSUME NEW r \in Stages(L), Stage(Path, L, p, r, x)' PROVE FALSE
      <4>1. SpotAt(L, r, AtWire)
        BY <1>2, <3>1, OnlyAtStage DEF Moves, Stage
      <4> QED
        BY <1>4, <1>9, <1>10, <2>2, <3>1, <4>1 DEF Stage
    <3>2. \A id : id # x => SameFor(Path, id)
      BY <1>2 DEF Moves
    <3> QED
      BY <1>4, <1>5, <3>1, <3>2, LeavesLine
  <2> QED
    BY <2>1, <2>2
<1> QED
  BY <1>12, <1>13, <1>14, <1>15 DEF LaneInv

(* A frame arrives.                                                        *)
LEMMA ArriveKeepsLane ==
  ASSUME NEW Path \in SUBSET Nodes, NEW L \in Seq(Path), NEW p \in 1..Len(L),
         Lane(Path, L, p), FrameInv, ByTaggers, LaneInv(Path, L, p),
         NEW n \in Nodes, NEW x, Arrives(Path, n, x),
         UNCHANGED <<queue, sent, tagged>>
  PROVE  LaneInv(Path, L, p)'
<1>1. \A id : By(L[p], id)' <=> By(L[p], id)
  BY DEF By
<1>2. InLine(Path, L, p)'
  BY <1>1, ArrivesInLine DEF LaneInv
<1>3. QueueOrder(L, p)' /\ SentOrder(L[p])'
  BY <1>1, SameShrinks, ShrinkKeepsOrder, NothingSentKeepsOrder DEF LaneInv
<1>4. OnLane(Path, L, p)'
  <2>1. Len(captured) \in Nat
    BY LenProperties DEF FrameInv, FrameTypes
  <2> SUFFICES ASSUME NEW id \in Ids', By(L[p], id)', NEW m \in Nodes
               PROVE  /\ InHand(Path, m, id)' => \E k \in p..Len(L) : m = L[k]
                      /\ InQueue(Path, m, id)' => \E k \in (p + 1)..Len(L) : m = L[k]
    BY DEF OnLane
  <2>2. id \in Ids
    BY <1>1 DEF ByTaggers, By
  <2>3. id # x
    BY <2>1, <2>2 DEF Arrives, Ids
  <2>4. SameFor(Path, id) /\ By(L[p], id)
    BY <1>1, <2>3 DEF Arrives
  <2> QED
    BY <2>2, <2>4 DEF SameFor, OnLane, LaneInv
<1> QED
  BY <1>2, <1>3, <1>4 DEF LaneInv
-----------------------------------------------------------------------------
(* The records.                                                            *)

BehindAt(q) ==
  \/ \E n \in Nodes : ~PassesRaw(n) /\ q = <<"hand", n>>
  \/ \E n \in Nodes \ RawNodes : q = <<"queue", n>>
  \/ q = AtWire

(* A frame that goes on behind the taggers has been there, or was tagged.  *)
LEMMA MovesRecorded ==
  ASSUME NEW Path \in SUBSET Nodes, Recorded(Path), Len(captured') = Len(captured),
         \A r \in tagged : r \in tagged',
         NEW x, NEW q1, NEW q2, Moves(Path, x, q1, q2),
         BehindAt(q2) => BehindAt(q1) \/ \E r \in tagged' : r.id = x
  PROVE  Recorded(Path)'
<1> SUFFICES ASSUME NEW id \in Ids, Behind(Path, id)'
             PROVE  \E r \in tagged' : r.id = id
  BY DEF Recorded, Ids
<1>1. CASE id # x
  <2>1. Behind(Path, id)
    BY <1>1 DEF Moves, SameFor, Behind
  <2> QED
    BY <2>1 DEF Recorded
<1>2. CASE id = x
  <2>1. Only(Path, id, q2)' /\ Only(Path, id, q1)
    BY <1>2 DEF Moves
  <2>2. BehindAt(q2)
    BY <2>1 DEF Only, Behind, BehindAt
  <2>3. BehindAt(q1) => Behind(Path, id)
    BY <2>1 DEF Only, Behind, BehindAt
  <2> QED
    BY <1>2, <2>2, <2>3 DEF Recorded
<1> QED
  BY <1>1, <1>2

(* Frames that stay where they are keep their records.                     *)
LEMMA StaysRecorded ==
  ASSUME NEW Path \in SUBSET Nodes, Recorded(Path), Len(captured') = Len(captured),
         \A r \in tagged : r \in tagged', Stays(Path)
  PROVE  Recorded(Path)'
<1> SUFFICES ASSUME NEW id \in Ids, Behind(Path, id)'
             PROVE  \E r \in tagged' : r.id = id
  BY DEF Recorded, Ids
<1>1. Behind(Path, id)
  BY DEF Stays, SameFor, Behind
<1> QED
  BY <1>1 DEF Recorded

(* A frame that arrives is not behind the taggers yet.                     *)
LEMMA ArrivesRecorded ==
  ASSUME NEW Path \in SUBSET Nodes, FrameInv, Recorded(Path),
         NEW n \in Nodes, NEW x, Arrives(Path, n, x), UNCHANGED tagged
  PROVE  Recorded(Path)'
<1>1. Len(captured) \in Nat
  BY LenProperties DEF FrameInv, FrameTypes
<1>2. PassesRaw(n)
  BY RawWiring DEF Arrives, IsSource, TaggedOnce, PassesRaw
<1> SUFFICES ASSUME NEW id \in Ids', Behind(Path, id)'
             PROVE  \E r \in tagged : r.id = id
  BY DEF Recorded
<1>3. id # x
  <2>1. ASSUME id = x PROVE FALSE
    <3>1. Only(Path, id, <<"hand", n>>)'
      BY <2>1 DEF Arrives
    <3> QED
      BY <1>2, <3>1 DEF Only, Behind, AtWire
  <2> QED
    BY <2>1
<1>4. id \in Ids
  BY <1>1, <1>3 DEF Ids, Arrives
<1>5. SameFor(Path, id)
  BY <1>3 DEF Arrives
<1>6. Behind(Path, id)
  BY <1>5 DEF SameFor, Behind
<1> QED
  BY <1>4, <1>6 DEF Recorded

(* What a node is to push goes to its outputs.                             *)
LEMMA TodoKeepsOutputs ==
  ASSUME TodoAreOutputs, NEW n \in Nodes,
         \A m \in Nodes : m # n => todo'[m] = todo[m],
         \A i \in 1..Len(todo'[n]) : \E j \in 1..Len(Outputs[n]) :
           todo'[n][i] = Outputs[n][j]
  PROVE  TodoAreOutputs'
BY DEF TodoAreOutputs

(* Records are kept while more frames arrive.                              *)
LEMMA RecordsKept ==
  ASSUME FrameInv, ByTaggers, UNCHANGED tagged,
         Len(captured') \in {Len(captured), Len(captured) + 1}
  PROVE  ByTaggers'
<1>1. Len(captured) \in Nat
  BY LenProperties DEF FrameInv, FrameTypes
<1> QED
  BY <1>1 DEF ByTaggers, Ids
-----------------------------------------------------------------------------

(* What a node passes on it pushes to its outputs.                         *)
LEMMA TargetsAreOutputs ==
  ASSUME NEW n \in Nodes, NEW targets, Targets(n, targets)
  PROVE  /\ targets \in Seq(Nodes)
         /\ \A i \in 1..Len(targets) : \E j \in 1..Len(Outputs[n]) :
              targets[i] = Outputs[n][j]
<1>1. CASE targets = Outputs[n]
  BY <1>1, OutputsAreNodes
<1>2. ASSUME NEW j \in 1..Len(Outputs[n]), targets = <<Outputs[n][j]>>
      PROVE  /\ targets \in Seq(Nodes)
             /\ \A i \in 1..Len(targets) : \E k \in 1..Len(Outputs[n]) :
                  targets[i] = Outputs[n][k]
  <2>1. PICK m \in Nodes : m = Outputs[n][j]
    BY OutputsAreNodes
  <2>2. targets = <<m>> /\ Len(targets) = 1 /\ targets[1] = m
    BY <1>2, <2>1
  <2> QED
    BY <2>1, <2>2
<1> QED
  BY <1>1, <1>2 DEF Targets

(* A frame taken up as it is, or by its tagger, keeps the records.         *)
LEMMA TakeKeepsRecords ==
  ASSUME NEW Path \in SUBSET Nodes, Recorded(Path), Len(captured') = Len(captured),
         NEW n \in Nodes, NEW x, TakenUp(Path, n, x),
         \A r \in tagged : r \in tagged',
         (n \in RawNodes /\ ~PassesRaw(n)) => \E r \in tagged' : r.id = x
  PROVE  Recorded(Path)'
<1>1. CASE n \in Path
  <2>1. PICK q1, q2 : q1 = <<"queue", n>> /\ q2 = <<"hand", n>>
    OBVIOUS
  <2>2. BehindAt(q2) => BehindAt(q1) \/ \E r \in tagged' : r.id = x
    BY <2>1 DEF BehindAt, AtWire
  <2>3. Moves(Path, x, q1, q2)
    BY <1>1, <2>1 DEF TakenUp
  <2> QED
    BY <2>2, <2>3, MovesRecorded
<1>2. CASE n \notin Path
  BY <1>2, StaysRecorded DEF TakenUp
<1> QED
  BY <1>1, <1>2

(* A frame is passed on as it is.                                          *)
LEMMA PassesOnKeepsRecords ==
  ASSUME NEW Path \in SUBSET Nodes, MainPath(Path), FlowInv, FrameInv,
         PathInv(Path), RecordInv(Path), NEW n \in Nodes, PassesOn(n)
  PROVE  RecordInv(Path)'
<1>1. /\ Popped(n) /\ UNCHANGED <<captured, sent, tagged, lost>>
      /\ Kind[n] # "tagger"
  BY DEF PassesOn, history, Targets
<1>2. PICK f : f = Head(queue[n])
  OBVIOUS
<1>3. TakenUp(Path, n, f.id)
  BY <1>2, PassesOnKeepsPath
<1>4. Recorded(Path)'
  <2>1. ~(n \in RawNodes /\ ~PassesRaw(n))
    BY <1>1 DEF PassesRaw
  <2> QED
    BY <1>1, <1>3, <2>1, TakeKeepsRecords DEF RecordInv
<1>5. TodoAreOutputs'
  <2>1. f \in Frames
    BY <1>1, <1>2, HeadIsCaptured
  <2>2. PICK targets : Targets(n, targets) /\ Forward(n, f, targets)
    BY <1>2 DEF PassesOn
  <2>3. /\ targets \in Seq(Nodes)
        /\ \A i \in 1..Len(targets) : \E j \in 1..Len(Outputs[n]) :
             targets[i] = Outputs[n][j]
    BY <2>2, TargetsAreOutputs
  <2>4. todo'[n] = targets /\ \A m \in Nodes : m # n => todo'[m] = todo[m]
    BY <2>1, <2>2, <2>3, ForwardKeeps
  <2> QED
    BY <2>3, <2>4, TodoKeepsOutputs DEF RecordInv
<1> QED
  BY <1>1, <1>4, <1>5, RecordsKept DEF RecordInv

(* The lanes stay as they should be.                                       *)
LEMMA PassesOnKeepsLane ==
  ASSUME NEW Path \in SUBSET Nodes, NEW L \in Seq(Path), NEW p \in 1..Len(L),
         MainPath(Path), Lane(Path, L, p), FlowInv, FrameInv, PathInv(Path),
         LaneInv(Path, L, p), NEW n \in Nodes, PassesOn(n)
  PROVE  LaneInv(Path, L, p)'
<1>1. Popped(n) /\ UNCHANGED <<captured, sent, tagged>> /\ Kind[n] # "tagger"
  BY DEF PassesOn, history, Targets
<1>2. PICK x : x = Head(queue[n]).id
  OBVIOUS
<1>3. TakenUp(Path, n, x)
  BY <1>2, PassesOnKeepsPath
<1>4. \A id : By(L[p], id)' <=> By(L[p], id)
  BY <1>1 DEF By
<1> QED
  BY <1>1, <1>2, <1>3, <1>4, TakeKeepsLane

(* A frame is tagged and recorded.                                         *)
LEMMA TagsKeepsRecords ==
  ASSUME NEW Path \in SUBSET Nodes, MainPath(Path), FlowInv, FrameInv,
         PathInv(Path), RecordInv(Path), NEW n \in Nodes, Tags(n)
  PROVE  RecordInv(Path)'
<1>1. PICK f : f = Head(queue[n])
  OBVIOUS
<1>2. PICK g : g = tagger_node_edit_packet(f, TagOf(f))
  OBVIOUS
<1>3. PICK new : new = [id |-> f.id, node |-> n]
  OBVIOUS
<1>4. /\ Kind[n] = "tagger" /\ Popped(n) /\ UNCHANGED captured
      /\ f.size >= ETH_HLEN + IP_HEADER_MIN_LEN
      /\ tagger_node_get_ip(f) # 0 /\ TagOf(f) # 0
      /\ Forward(n, g, Outputs[n]) /\ tagged' = tagged \cup {new}
  BY <1>1, <1>2, <1>3 DEF Tags
<1>5. new.id = f.id /\ new.node = n
  BY <1>3
<1>6. n \in RawNodes
  BY <1>4, RawWiring DEF TaggedOnce
<1>7. f \in Frames /\ Original(f, captured) /\ f.id \in Ids
  BY <1>1, <1>4, <1>6, PopKeepsFrames DEF Origin, Original, Ids
<1>8. TakenUp(Path, n, f.id)
  BY <1>1, TagsKeepsPath
<1>9. Recorded(Path)'
  <2>1. (\A r \in tagged : r \in tagged') /\ \E r \in tagged' : r.id = f.id
    BY <1>4, <1>5
  <2> QED
    BY <1>4, <1>8, <2>1, TakeKeepsRecords DEF RecordInv
<1>10. ByTaggers'
  BY <1>4, <1>5, <1>7 DEF RecordInv, ByTaggers, Ids
<1>11. TodoAreOutputs'
  <2>1. g \in Frames
    BY <1>2, <1>4, <1>7, TaggingKeepsOrigin
  <2>2. /\ Outputs[n] \in Seq(Nodes)
        /\ todo'[n] = Outputs[n] /\ \A m \in Nodes : m # n => todo'[m] = todo[m]
    BY <1>4, <2>1, OutputsAreNodes, ForwardKeeps
  <2> QED
    BY <2>2, TodoKeepsOutputs DEF RecordInv
<1> QED
  BY <1>9, <1>10, <1>11 DEF RecordInv

(* It is the latest on the lane of its tagger.                             *)
LEMMA TagsKeepsLane ==
  ASSUME NEW Path \in SUBSET Nodes, NEW L \in Seq(Path), NEW p \in 1..Len(L),
         MainPath(Path), Lane(Path, L, p), FlowInv, FrameInv, PathInv(Path),
         LaneInv(Path, L, p), NEW n \in Nodes, Tags(n)
  PROVE  LaneInv(Path, L, p)'
<1>1. PICK x : x = Head(queue[n]).id
  OBVIOUS
<1>2. PICK new : new = [id |-> x, node |-> n]
  OBVIOUS
<1>3. Popped(n) /\ UNCHANGED <<captured, sent>> /\ tagged' = tagged \cup {new}
  BY <1>1, <1>2 DEF Tags
<1>4. new.id = x /\ new.node = n
  BY <1>2
<1>5. TakenUp(Path, n, x)
  BY <1>1, TagsKeepsPath
<1>6. \A id : By(L[p], id)' <=> By(L[p], id) \/ (n = L[p] /\ id = x)
  BY <1>3, <1>4 DEF By
<1> QED
  BY <1>1, <1>3, <1>5, <1>6, TakeKeepsLane

(* A sender takes a frame out of its queue.                                *)
LEMMA FetchesKeepsRecords ==
  ASSUME NEW Path \in SUBSET Nodes, MainPath(Path), FlowInv, FrameInv,
         PathInv(Path), RecordInv(Path), NEW n \in Nodes, Fetches(n)
  PROVE  RecordInv(Path)'
<1>1. UNCHANGED <<captured, tagged, todo>> /\ n \notin RawNodes
  BY RawWiring DEF Fetches, history, TaggedOnce
<1>2. PICK x : x = Head(queue[n]).id
  OBVIOUS
<1>3. TakenUp(Path, n, x)
  BY <1>2, FetchesKeepsPath
<1>4. Recorded(Path)'
  BY <1>1, <1>3, TakeKeepsRecords DEF RecordInv
<1> QED
  BY <1>1, <1>4 DEF RecordInv, ByTaggers, Ids, TodoAreOutputs

(* The frame goes on along its lane.                                       *)
LEMMA FetchesKeepsLane ==
  ASSUME NEW Path \in SUBSET Nodes, NEW L \in Seq(Path), NEW p \in 1..Len(L),
         MainPath(Path), Lane(Path, L, p), FlowInv, FrameInv, PathInv(Path),
         LaneInv(Path, L, p), NEW n \in Nodes, Fetches(n)
  PROVE  LaneInv(Path, L, p)'
<1>1. Popped(n) /\ UNCHANGED <<captured, sent, tagged>>
  BY DEF Fetches, history
<1>2. PICK x : x = Head(queue[n]).id
  OBVIOUS
<1>3. TakenUp(Path, n, x)
  BY <1>2, FetchesKeepsPath
<1>4. \A id : By(L[p], id)' <=> By(L[p], id)
  BY <1>1 DEF By
<1> QED
  BY <1>1, <1>2, <1>3, <1>4, TakeKeepsLane

(* A frame that is lost on the path leaves its record.                     *)
LEMMA LosesKeepsRecorded ==
  ASSUME NEW Path \in SUBSET Nodes, Recorded(Path), UNCHANGED <<captured, tagged>>,
         NEW x, NEW q, NEW m, Stays(Path) \/ Moves(Path, x, q, <<"lost", m>>)
  PROVE  Recorded(Path)'
<1>1. PICK q2 : q2 = <<"lost", m>>
  OBVIOUS
<1>2. ~BehindAt(q2)
  BY <1>1 DEF BehindAt, AtWire
<1> QED
  BY <1>1, <1>2, MovesRecorded, StaysRecorded

(* A node lets go of a frame.                                              *)
LEMMA LetsGoKeepsRecords ==
  ASSUME NEW Path \in SUBSET Nodes, FlowInv, FrameInv,
         PathInv(Path), RecordInv(Path), NEW n \in Nodes, LetsGo(n)
  PROVE  RecordInv(Path)'
<1>1. UNCHANGED <<captured, tagged, todo>>
  BY DEF LetsGo, LetGo
<1>2. PICK x : x = Head(queue[n]).id
  OBVIOUS
<1>3. Stays(Path) \/ Moves(Path, x, <<"queue", n>>, <<"lost", n>>)
  BY <1>2, LetsGoKeepsPath
<1>4. Recorded(Path)'
  BY <1>1, <1>3, LosesKeepsRecorded DEF RecordInv
<1> QED
  BY <1>1, <1>4 DEF RecordInv, ByTaggers, Ids, TodoAreOutputs

(* The frame leaves its lane.                                              *)
LEMMA LetsGoKeepsLane ==
  ASSUME NEW Path \in SUBSET Nodes, NEW L \in Seq(Path), NEW p \in 1..Len(L),
         Lane(Path, L, p), FlowInv, FrameInv, PathInv(Path),
         LaneInv(Path, L, p), NEW n \in Nodes, LetsGo(n)
  PROVE  LaneInv(Path, L, p)'
<1>1. Popped(n) /\ UNCHANGED <<captured, sent, tagged>>
  BY DEF LetsGo
<1>2. PICK x : x = Head(queue[n]).id
  OBVIOUS
<1>3. Stays(Path) \/ Moves(Path, x, <<"queue", n>>, <<"lost", n>>)
  BY <1>2, LetsGoKeepsPath
<1>4. Shrinks(Path)
  BY <1>1, PopShrinks
<1> QED
  BY <1>1, <1>3, <1>4, LosesKeepsLane

(* A node pushes a frame to one of its outputs.                            *)
LEMMA SendToOutputKeepsRecords ==
  ASSUME NEW Path \in SUBSET Nodes, FlowInv, FrameInv,
         PathInv(Path), RecordInv(Path), NEW n \in Nodes, SendToOutput(n)
  PROVE  RecordInv(Path)'
<1>1. PICK f \in Frames, m \in Nodes, rest \in Seq(Nodes) :
        /\ f = hand[n] /\ m = Head(todo[n])
        /\ todo'[n] = rest
        /\ \A k \in Nodes : k # n => todo'[k] = todo[k]
        /\ m = todo[n][1] /\ 1 \in 1..Len(todo[n])
        /\ Len(rest) \in Nat /\ Len(todo[n]) = Len(rest) + 1
        /\ \A i \in 1..Len(rest) : rest[i] = todo[n][i + 1]
  BY PushParts
<1>2. UNCHANGED <<captured, tagged>>
  BY DEF SendToOutput
<1>3. PushedTo(Path, n, m, f)
  BY <1>1, SendToOutputKeepsPath
<1>4. Recorded(Path)'
  <2>1. CASE Moves(Path, f.id, <<"hand", n>>, <<"queue", m>>)
    <3>1. PICK q1, q2, x : q1 = <<"hand", n>> /\ q2 = <<"queue", m>> /\ x = f.id
      OBVIOUS
    <3>2. m \in RawNodes <=> PassesRaw(n)
      BY <1>1 DEF FrameInv, TodoOnSide
    <3>3. BehindAt(q2) => BehindAt(q1)
      BY <3>1, <3>2 DEF BehindAt, AtWire
    <3>4. Moves(Path, x, q1, q2)
      BY <2>1, <3>1
    <3> QED
      BY <1>2, <3>3, <3>4, MovesRecorded DEF RecordInv
  <2>2. CASE Stays(Path) \/ Moves(Path, f.id, <<"hand", n>>, <<"lost", m>>)
    <3>1. PICK x, q : /\ x = f.id /\ q = <<"hand", n>>
                      /\ Stays(Path) \/ Moves(Path, x, q, <<"lost", m>>)
      BY <2>2
    <3> QED
      BY <1>2, <3>1, LosesKeepsRecorded DEF RecordInv
  <2> QED
    BY <1>3, <2>1, <2>2 DEF PushedTo
<1>5. TodoAreOutputs'
  <2>1. ASSUME NEW i \in 1..Len(todo'[n])
        PROVE  \E j \in 1..Len(Outputs[n]) : todo'[n][i] = Outputs[n][j]
    <3>1. i + 1 \in 1..Len(todo[n]) /\ todo'[n][i] = todo[n][i + 1]
      BY <1>1
    <3> QED
      BY <3>1 DEF RecordInv, TodoAreOutputs
  <2> QED
    BY <1>1, <2>1, TodoKeepsOutputs DEF RecordInv
<1> QED
  BY <1>2, <1>4, <1>5, RecordsKept DEF RecordInv

(* It goes on along its lane, leaves it, or is a copy beside it.           *)
LEMMA SendToOutputKeepsLane ==
  ASSUME NEW Path \in SUBSET Nodes, NEW L \in Seq(Path), NEW p \in 1..Len(L),
         Lane(Path, L, p), FlowInv, FrameInv, PathInv(Path), TodoAreOutputs,
         LaneInv(Path, L, p), NEW n \in Nodes, SendToOutput(n)
  PROVE  LaneInv(Path, L, p)'
<1>1. PICK f \in Frames, m \in Nodes :
        /\ f = hand[n] /\ m = Head(todo[n])
        /\ m = todo[n][1] /\ 1 \in 1..Len(todo[n])
  BY PushParts
<1>2. /\ UNCHANGED <<captured, sent, tagged>>
      /\ queue' = [queue EXCEPT ![m] = Append(@, f)] \/ UNCHANGED queue
  BY <1>1 DEF SendToOutput
<1>3. PushedTo(Path, n, m, f)
  BY <1>1, SendToOutputKeepsPath
<1>4. CASE m \notin Path
  <2>1. \A k \in Path : queue'[k] = queue[k]
    BY <1>2, <1>4, PushKeeps
  <2>2. Stays(Path) /\ Shrinks(Path)
    BY <1>3, <1>4, <2>1, SameShrinks DEF PushedTo
  <2> QED
    BY <1>2, <2>2, LosesKeepsLane
<1>5. CASE /\ m \in Path
           /\ Moves(Path, f.id, <<"hand", n>>, <<"queue", m>>)
           /\ queue' = [queue EXCEPT ![m] = Append(@, f)]
  <2>1. PICK i \in 1..Len(Outputs[n]) : Outputs[n][i] = m
    <3>1. \E i \in 1..Len(Outputs[n]) : todo[n][1] = Outputs[n][i]
      BY <1>1 DEF TodoAreOutputs
    <3> QED
      BY <1>1, <3>1
  <2> QED
    BY <1>2, <1>5, <2>1, PushKeepsLane
<1>6. CASE Moves(Path, f.id, <<"hand", n>>, <<"lost", m>>) /\ UNCHANGED queue
  <2>1. PICK x, q : x = f.id /\ q = <<"hand", n>> /\ Moves(Path, x, q, <<"lost", m>>)
    BY <1>6
  <2>2. Shrinks(Path)
    BY <1>6, SameShrinks
  <2> QED
    BY <1>2, <2>1, <2>2, LosesKeepsLane
<1> QED
  BY <1>3, <1>4, <1>5, <1>6 DEF PushedTo

(* A sender's frame leaves, or is lost.                                    *)
LEMMA SenderKeepsRecords ==
  ASSUME NEW Path \in SUBSET Nodes, MainPath(Path), FrameInv,
         PathInv(Path), RecordInv(Path), NEW n \in Nodes,
         SendSucceeds(n) \/ SendFails(n)
  PROVE  RecordInv(Path)'
<1>1. UNCHANGED <<captured, tagged, todo>> /\ pc[n] = "sendto"
  BY DEF SendSucceeds, SendFails
<1>2. PICK x, q1 : x = hand[n].id /\ q1 = <<"hand", n>>
  OBVIOUS
<1>3. ~PassesRaw(n)
  BY <1>1, RawWiring DEF FrameInv, Phases, Phase, TaggedOnce, PassesRaw
<1>4. BehindAt(q1)
  BY <1>2, <1>3 DEF BehindAt
<1>5. \E q2 : Moves(Path, x, q1, q2)
  BY <1>2, SendSucceedsKeepsPath, SendFailsKeepsPath
<1>6. Recorded(Path)'
  BY <1>1, <1>4, <1>5, MovesRecorded DEF RecordInv
<1> QED
  BY <1>1, <1>6 DEF RecordInv, ByTaggers, Ids, TodoAreOutputs

(* It is the last on the wire, or leaves the lane.                         *)
LEMMA SenderKeepsLane ==
  ASSUME NEW Path \in SUBSET Nodes, NEW L \in Seq(Path), NEW p \in 1..Len(L),
         MainPath(Path), Lane(Path, L, p), FrameInv, PathInv(Path),
         LaneInv(Path, L, p), NEW n \in Nodes, SendSucceeds(n) \/ SendFails(n)
  PROVE  LaneInv(Path, L, p)'
<1>1. UNCHANGED <<captured, tagged, queue>> /\ pc[n] = "sendto"
  BY DEF SendSucceeds, SendFails
<1>2. PICK f \in Frames : f = hand[n]
  BY <1>1, SenderHas
<1>3. CASE SendSucceeds(n)
  <2>1. Kind[n] = "sender" /\ sent' = Append(sent, f)
    BY <1>2, <1>3 DEF SendSucceeds, FrameInv, Phases, Phase
  <2>2. Moves(Path, f.id, <<"hand", n>>, AtWire)
    BY <1>2, <1>3, SendSucceedsKeepsPath
  <2> QED
    BY <1>1, <2>1, <2>2, SendKeepsLane
<1>4. CASE SendFails(n)
  <2>1. PICK x, q : x = f.id /\ q = <<"hand", n>>
    OBVIOUS
  <2>2. UNCHANGED sent /\ Moves(Path, x, q, <<"lost", n>>)
    BY <1>2, <1>4, <2>1, SendFailsKeepsPath DEF SendFails
  <2>3. Shrinks(Path)
    BY <1>1, SameShrinks
  <2> QED
    BY <1>1, <2>2, <2>3, LosesKeepsLane
<1> QED
  BY <1>3, <1>4

(* A frame arrives and is to be pushed to the sniffer's outputs.           *)
LEMMA ReceiveKeepsRecords ==
  ASSUME NEW Path \in SUBSET Nodes, MainPath(Path), FlowInv, FrameInv,
         PathInv(Path), RecordInv(Path), NEW n \in Nodes, Receive(n)
  PROVE  RecordInv(Path)'
<1>1. PICK x : x = Len(captured) + 1
  OBVIOUS
<1>2. Arrives(Path, n, x) /\ UNCHANGED tagged
  BY <1>1, ReceiveKeepsPath DEF Receive
<1>3. Recorded(Path)'
  BY <1>2, ArrivesRecorded DEF RecordInv
<1>4. ByTaggers'
  BY <1>2, RecordsKept DEF RecordInv, Arrives
<1>5. TodoAreOutputs'
  <2>1. todo' = [todo EXCEPT ![n] = Outputs[n]]
    BY DEF Receive, Forward
  <2>2. todo'[n] = Outputs[n] /\ \A m \in Nodes : m # n => todo'[m] = todo[m]
    BY <2>1 DEF FrameInv, FrameTypes
  <2> QED
    BY <2>2, TodoKeepsOutputs DEF RecordInv
<1> QED
  BY <1>3, <1>4, <1>5 DEF RecordInv

(* It is behind all others.                                                *)
LEMMA ReceiveKeepsLane ==
  ASSUME NEW Path \in SUBSET Nodes, NEW L \in Seq(Path), NEW p \in 1..Len(L),
         MainPath(Path), Lane(Path, L, p), FlowInv, FrameInv, PathInv(Path),
         ByTaggers, LaneInv(Path, L, p), NEW n \in Nodes, Receive(n)
  PROVE  LaneInv(Path, L, p)'
<1>1. PICK x : x = Len(captured) + 1
  OBVIOUS
<1>2. Arrives(Path, n, x) /\ UNCHANGED <<queue, sent, tagged>>
  BY <1>1, ReceiveKeepsPath DEF Receive
<1> QED
  BY <1>2, ArriveKeepsLane

(* The steps that leave the frames where they are.                         *)
LEMMA RestKeepsRecords ==
  ASSUME NEW Path \in SUBSET Nodes, PathInv(Path), RecordInv(Path), Rests
  PROVE  RecordInv(Path)'
<1>1. Stays(Path) /\ UNCHANGED <<captured, tagged, todo>>
  BY RestKeepsPath DEF Rests, history
<1>2. Recorded(Path)'
  BY <1>1, StaysRecorded DEF RecordInv
<1> QED
  BY <1>1, <1>2 DEF RecordInv, ByTaggers, Ids, TodoAreOutputs

(* And the lanes.                                                          *)
LEMMA RestKeepsLane ==
  ASSUME NEW Path \in SUBSET Nodes, NEW L \in Seq(Path), NEW p \in 1..Len(L),
         Lane(Path, L, p), PathInv(Path), LaneInv(Path, L, p), Rests
  PROVE  LaneInv(Path, L, p)'
<1>1. Stays(Path) /\ UNCHANGED <<captured, sent, tagged, queue>>
  BY RestKeepsPath DEF Rests, history
<1>2. Shrinks(Path)
  BY <1>1, SameShrinks
<1> QED
  BY <1>1, <1>2, LosesKeepsLane
-----------------------------------------------------------------------------
OrderInv(Path) ==
  /\ RecordInv(Path)
  /\ \A L \in Seq(Path) : \A p \in 1..Len(L) : Lane(Path, L, p) => LaneInv(Path, L, p)

(* At first there are no frames.                                           *)
LEMMA InitOrder ==
  ASSUME NEW Path \in SUBSET Nodes, Init
  PROVE  OrderInv(Path)
<1>1. /\ todo = [n \in Nodes |-> <<>>] /\ queue = [n \in Nodes |-> <<>>]
      /\ captured = <<>> /\ sent = <<>> /\ tagged = {} /\ Len(<<>>) = 0
  BY DEF Init
<1>2. Ids = {}
  BY <1>1 DEF Ids
<1>3. RecordInv(Path)
  BY <1>1, <1>2 DEF RecordInv, Recorded, ByTaggers, TodoAreOutputs
<1>4. ASSUME NEW L \in Seq(Path), NEW p \in 1..Len(L), Lane(Path, L, p)
      PROVE  LaneInv(Path, L, p)
  <2>1. InLine(Path, L, p) /\ OnLane(Path, L, p) /\ SentOrder(L[p])
    BY <1>1, <1>2 DEF InLine, OnLane, SentOrder
  <2>2. \A k \in 2..Len(L) : L[k] \in Nodes
    BY <1>4, LaneNodes
  <2>3. QueueOrder(L, p)
    BY <1>1, <2>2 DEF QueueOrder
  <2> QED
    BY <2>1, <2>3 DEF LaneInv
<1> QED
  BY <1>3, <1>4 DEF OrderInv

(* Every step keeps the order.                                             *)
LEMMA NextKeepsOrder ==
  ASSUME NEW Path \in SUBSET Nodes, MainPath(Path), FlowInv, FrameInv, PathInv(Path),
         OrderInv(Path), [Next]_vars
  PROVE  OrderInv(Path)'
<1>0. RecordInv(Path) /\ TodoAreOutputs /\ ByTaggers
  BY DEF OrderInv, RecordInv
<1>1. ASSUME Rests PROVE OrderInv(Path)'
  BY <1>0, <1>1, RestKeepsRecords, RestKeepsLane DEF OrderInv
<1>2. ASSUME NEW n \in Nodes, Process(n) PROVE OrderInv(Path)'
  <2>1. CASE PassesOn(n)
    BY <1>0, <2>1, PassesOnKeepsRecords, PassesOnKeepsLane DEF OrderInv
  <2>2. CASE Tags(n)
    BY <1>0, <2>2, TagsKeepsRecords, TagsKeepsLane DEF OrderInv
  <2>3. CASE LetsGo(n)
    BY <1>0, <2>3, LetsGoKeepsRecords, LetsGoKeepsLane DEF OrderInv
  <2>4. CASE Fetches(n)
    BY <1>0, <2>4, FetchesKeepsRecords, FetchesKeepsLane DEF OrderInv
  <2>5. CASE SendToOutput(n)
    BY <1>0, <2>5, SendToOutputKeepsRecords, SendToOutputKeepsLane DEF OrderInv
  <2>6. CASE SendSucceeds(n)
    BY <1>0, <2>6, SenderKeepsRecords, SenderKeepsLane DEF OrderInv
  <2> QED
    BY <1>2, <2>1, <2>2, <2>3, <2>4, <2>5, <2>6, ProcessShape
<1>3. ASSUME NEW n \in Nodes, Receive(n) PROVE OrderInv(Path)'
  BY <1>0, <1>3, ReceiveKeepsRecords, ReceiveKeepsLane DEF OrderInv
<1>4. ASSUME NEW n \in Nodes, SendFails(n) PROVE OrderInv(Path)'
  BY <1>0, <1>4, SenderKeepsRecords, SenderKeepsLane DEF OrderInv
<1>5. CASE UNCHANGED vars
  BY <1>1, <1>5 DEF vars, Rests, history
<1> QED
  BY <1>1, <1>2, <1>3, <1>4, <1>5, OthersRest DEF Next

(* The invariant of the order: on every lane, frames stay in line.         *)
THEOREM OrderInvariant ==
  ASSUME NEW Path \in SUBSET Nodes, MainPath(Path)
  PROVE  Spec => []OrderInv(Path)
<1>1. Init => OrderInv(Path)
  BY InitOrder
<1>2. FlowInv /\ FrameInv /\ PathInv(Path) /\ OrderInv(Path) /\ [Next]_vars
        => OrderInv(Path)'
  BY NextKeepsOrder
<1>3. Spec => []PathInv(Path)
  BY PathInvariant
<1> QED
  BY <1>1, <1>2, <1>3, FlowInvariant, FrameInvariant, PTL DEF Spec

(* OrderKept: in every pipeline with one sniffer and a lane for each of    *)
(* its taggers, frames that went through the same tagger leave in the      *)
(* order they came in, whatever its queues, its traffic and its failures.  *)
THEOREM OrderKeptHolds == Spec => []OrderKept
<1>1. PICK Path \in SUBSET Nodes :
        /\ MainPath(Path)
        /\ \A t \in Taggers : \E len \in 1..Len(Order) :
             \E L \in [1..len -> Path], p \in 1..len : L[p] = t /\ Lane(Path, L, p)
  BY LaneAssumption DEF LaneAssumption
<1>2. Spec => []OrderInv(Path)
  BY <1>1, OrderInvariant
<1>3. ASSUME FrameInv, OrderInv(Path) PROVE OrderKept
  <2>1. ASSUME NEW t \in Taggers PROVE SentOrder(t)
    <3>1. PICK len \in 1..Len(Order) :
            \E L \in [1..len -> Path], p \in 1..len : L[p] = t /\ Lane(Path, L, p)
      BY <1>1
    <3>2. PICK L \in [1..len -> Path] :
            \E p \in 1..len : L[p] = t /\ Lane(Path, L, p)
      BY <3>1
    <3>3. len \in Nat
      OBVIOUS
    <3>4. L \in Seq(Path) /\ Len(L) = len
      BY <3>3
    <3> QED
      BY <1>3, <3>2, <3>4 DEF OrderInv, LaneInv
  <2>2. ASSUME NEW i \in 1..Len(sent)
        PROVE  TaggerOf(sent[i].id) \in Taggers /\ By(TaggerOf(sent[i].id), sent[i].id)
    <3>1. PICK id : id = sent[i].id
      OBVIOUS
    <3>2. Behind(Path, id) /\ id \in Ids
      <4>1. IsSent(id)
        BY <3>1 DEF IsSent
      <4> QED
        BY <1>3, <4>1, BeyondCaptured DEF Behind, Ids
    <3>3. \E r \in tagged : r.id = id
      BY <1>3, <3>2 DEF OrderInv, RecordInv, Recorded
    <3>4. PICK r : r = CHOOSE k \in tagged : k.id = id
      OBVIOUS
    <3>5. r \in tagged /\ r.id = id /\ TaggerOf(id) = r.node
      BY <3>3, <3>4 DEF TaggerOf
    <3>6. r.node \in Taggers
      BY <1>3, <3>5 DEF OrderInv, RecordInv, ByTaggers, Taggers
    <3> QED
      BY <3>1, <3>5, <3>6 DEF By
  <2> QED
    BY <2>1, <2>2 DEF OrderKept, SentOrder
<1> QED
  BY <1>2, <1>3, FrameInvariant, PTL
-----------------------------------------------------------------------------
(* How many frames there are.                                              *)

(* Frame id has left the nodes of Up, or is in the buffer of an exit.      *)
Past(Path, Up, Exits, id) ==
  \A n \in Up : /\ ~InQueue(Path, n, id)
                /\ n \notin Exits => ~InHand(Path, n, id)

(* A step takes frame id onward, or leaves it where it is.                 *)
Onward(Path, id) ==
  \/ SameFor(Path, id)
  \/ \E n \in Nodes :
       \/ Only(Path, id, <<"queue", n>>) /\ Only(Path, id, <<"hand", n>>)'
       \/ /\ Only(Path, id, <<"hand", n>>)
          /\ \E i \in 1..Len(Outputs[n]) :
               Only(Path, id, <<"queue", Outputs[n][i]>>)'
       \/ Only(Path, id, <<"lost", n>>)'
  \/ Only(Path, id, AtWire)'

(* A frame that has left Up does not come back.                            *)
LEMMA PastKept ==
  ASSUME NEW Path \in SUBSET Nodes, NEW Up \in SUBSET Nodes, NEW Exits,
         Cut(Up, Exits), NEW id, Past(Path, Up, Exits, id), Onward(Path, id)
  PROVE  Past(Path, Up, Exits, id)'
<1> SUFFICES ASSUME NEW k \in Up
             PROVE  ~InQueue(Path, k, id)' /\ (k \notin Exits => ~InHand(Path, k, id)')
  BY DEF Past
<1>0. k \in Nodes /\ ~InQueue(Path, k, id) /\ (k \notin Exits => ~InHand(Path, k, id))
  BY DEF Past
<1>1. CASE SameFor(Path, id)
  BY <1>0, <1>1 DEF SameFor
<1>2. ASSUME NEW n \in Nodes, Only(Path, id, <<"queue", n>>),
             Only(Path, id, <<"hand", n>>)'
      PROVE  ~InQueue(Path, k, id)' /\ (k \notin Exits => ~InHand(Path, k, id)')
  <2>1. k # n
    BY <1>0, <1>2 DEF Only
  <2> QED
    BY <1>0, <1>2, <2>1 DEF Only
<1>3. ASSUME NEW n \in Nodes, NEW i \in 1..Len(Outputs[n]),
             Only(Path, id, <<"hand", n>>), Only(Path, id, <<"queue", Outputs[n][i]>>)'
      PROVE  ~InQueue(Path, k, id)' /\ (k \notin Exits => ~InHand(Path, k, id)')
  <2>1. PICK m \in Nodes : m = Outputs[n][i]
    BY OutputsAreNodes
  <2>2. InHand(Path, n, id)
    BY <1>3 DEF Only
  <2>3. m \in Up => n \in Up \ Exits
    BY <2>1 DEF Cut
  <2>4. k # m
    BY <2>2, <2>3 DEF Past
  <2>5. Only(Path, id, <<"queue", m>>)'
    BY <1>3, <2>1
  <2> QED
    BY <1>0, <2>4, <2>5 DEF Only
<1>4. ASSUME NEW n \in Nodes, Only(Path, id, <<"lost", n>>)'
      PROVE  ~InQueue(Path, k, id)' /\ (k \notin Exits => ~InHand(Path, k, id)')
  BY <1>0, <1>4 DEF Only
<1>5. CASE Only(Path, id, AtWire)'
  BY <1>0, <1>5 DEF Only, AtWire
<1> QED
  BY <1>1, <1>2, <1>3, <1>4, <1>5 DEF Onward

(* Up to and with the taggers.                                             *)
LEMMA RawCut == Cut(RawNodes, Taggers)
BY RawWiring DEF TaggedOnce, Cut, Taggers

(* The frame a sniffer receives.                                           *)
LEMMA ReceivedFrame ==
  ASSUME FrameInv, NEW n \in Nodes, Receive(n)
  PROVE  \E f \in Frames : Forward(n, f, Outputs[n])
<1>1. PICK w \in Wire[Len(captured) + 1] :
        Forward(n, [id |-> Len(captured) + 1, size |-> w.size, tags |-> w.tags,
                    type |-> w.type, dst |-> w.dst], Outputs[n])
  BY Zenon DEF Receive
<1>2. captured \in Seq(Frames) /\ Len(captured) \in Nat /\ Len(captured) < Len(Wire)
  BY LenProperties DEF FrameInv, FrameTypes, Receive, MaxFrames
<1>3. Wire \in Seq(SUBSET WireFrames) /\ Len(captured) + 1 \in 1..Len(Wire)
  BY <1>2, FlowConstants, LenProperties
<1>4. Wire[Len(captured) + 1] \in SUBSET WireFrames
  BY <1>3, ElementOfSeq
<1>5. w \in WireFrames
  BY <1>4
<1>6. [id |-> Len(captured) + 1, size |-> w.size, tags |-> w.tags,
       type |-> w.type, dst |-> w.dst] \in Frames
  BY <1>2, <1>5, FlowConstants DEF WireFrames, Frames, VLAN_HLEN
<1> QED
  BY <1>1, <1>6

(* Every step takes the frames onward.                                     *)
LEMMA TakenUpOnward ==
  ASSUME NEW Path \in SUBSET Nodes, NEW n \in Nodes, NEW x, TakenUp(Path, n, x), NEW id
  PROVE  Onward(Path, id)
<1>1. CASE n \in Path
  BY <1>1 DEF TakenUp, Moves, Onward
<1>2. CASE n \notin Path
  BY <1>2 DEF TakenUp, Stays, Onward
<1> QED
  BY <1>1, <1>2

(* Nor does letting a frame go hold it back.                               *)
LEMMA LosesOnward ==
  ASSUME NEW Path \in SUBSET Nodes, NEW n \in Nodes, NEW x, NEW q,
         Stays(Path) \/ Moves(Path, x, q, <<"lost", n>>), NEW id
  PROVE  Onward(Path, id)
BY DEF Moves, Stays, Onward

(* A push brings it to an output, or to a loss.                            *)
LEMMA PushedOnward ==
  ASSUME NEW Path \in SUBSET Nodes, FlowInv, FrameInv, PathInv(Path), TodoAreOutputs,
         NEW n \in Nodes, SendToOutput(n), NEW id
  PROVE  Onward(Path, id)
<1>1. PICK f \in Frames, m \in Nodes :
        f = hand[n] /\ m = Head(todo[n]) /\ m = todo[n][1] /\ 1 \in 1..Len(todo[n])
  BY PushParts
<1>2. PICK i \in 1..Len(Outputs[n]) : m = Outputs[n][i]
  BY <1>1 DEF TodoAreOutputs
<1>3. PushedTo(Path, n, m, f)
  BY <1>1, SendToOutputKeepsPath
<1>4. CASE Stays(Path) \/ Moves(Path, f.id, <<"hand", n>>, <<"lost", m>>)
  <2>1. PICK x, q : x = f.id /\ q = <<"hand", n>>
    OBVIOUS
  <2>2. Stays(Path) \/ Moves(Path, x, q, <<"lost", m>>)
    BY <1>4, <2>1
  <2> QED
    BY <2>2, LosesOnward
<1>5. CASE Moves(Path, f.id, <<"hand", n>>, <<"queue", m>>)
  <2>1. id # f.id => SameFor(Path, id)
    BY <1>5 DEF Moves
  <2>2. id = f.id => /\ Only(Path, id, <<"hand", n>>)
                     /\ Only(Path, id, <<"queue", Outputs[n][i]>>)'
    BY <1>2, <1>5 DEF Moves
  <2> QED
    BY <2>1, <2>2 DEF Onward
<1> QED
  BY <1>3, <1>4, <1>5 DEF PushedTo

(* So does every step.                                                     *)
LEMMA StepOnward ==
  ASSUME NEW Path \in SUBSET Nodes, MainPath(Path), FlowInv, FrameInv, PathInv(Path),
         TodoAreOutputs, [Next]_vars, NEW id \in Ids
  PROVE  Onward(Path, id)
<1>1. ASSUME Rests PROVE Onward(Path, id)
  BY <1>1, RestKeepsPath DEF Stays, Onward
<1>2. ASSUME NEW n \in Nodes, Process(n) PROVE Onward(Path, id)
  <2>0. PICK x, y : x = Head(queue[n]).id /\ y = hand[n].id
    OBVIOUS
  <2>1. CASE PassesOn(n) \/ Tags(n) \/ Fetches(n)
    <3>1. TakenUp(Path, n, x)
      BY <2>0, <2>1, PassesOnKeepsPath, TagsKeepsPath, FetchesKeepsPath
    <3> QED
      BY <3>1, TakenUpOnward
  <2>2. CASE LetsGo(n)
    <3>1. Stays(Path) \/ Moves(Path, x, <<"queue", n>>, <<"lost", n>>)
      BY <2>0, <2>2, LetsGoKeepsPath
    <3> QED
      BY <3>1, LosesOnward
  <2>3. CASE SendToOutput(n)
    BY <2>3, PushedOnward
  <2>4. CASE SendSucceeds(n)
    <3>1. Moves(Path, y, <<"hand", n>>, AtWire)
      BY <2>0, <2>4, SendSucceedsKeepsPath
    <3> QED
      BY <3>1 DEF Moves, Onward
  <2> QED
    BY <1>2, <2>1, <2>2, <2>3, <2>4, ProcessShape
<1>3. ASSUME NEW n \in Nodes, SendFails(n) PROVE Onward(Path, id)
  <2>0. PICK y : y = hand[n].id
    OBVIOUS
  <2>1. Moves(Path, y, <<"hand", n>>, <<"lost", n>>)
    BY <1>3, <2>0, SendFailsKeepsPath
  <2> QED
    BY <2>1, LosesOnward
<1>4. ASSUME NEW n \in Nodes, Receive(n) PROVE Onward(Path, id)
  <2>1. PICK new : new = Len(captured) + 1
    OBVIOUS
  <2>2. Arrives(Path, n, new)
    BY <1>4, <2>1, ReceiveKeepsPath
  <2>3. id # new
    BY <2>1, LenProperties DEF Ids, FrameInv, FrameTypes
  <2> QED
    BY <2>2, <2>3 DEF Arrives, Onward
<1>5. CASE UNCHANGED vars
  BY <1>1, <1>5 DEF vars, Rests, history
<1> QED
  BY <1>1, <1>2, <1>3, <1>4, <1>5, OthersRest DEF Next
-----------------------------------------------------------------------------
(* Counting.                                                               *)

(* A set with one element more.                                            *)
LEMMA OneMore ==
  ASSUME NEW S, IsFiniteSet(S), NEW T, NEW x, x \notin S,
         \A y : y \in T <=> y \in S \/ y = x
  PROVE  /\ IsFiniteSet(T) /\ Cardinality(S) \in Nat
         /\ Cardinality(T) = Cardinality(S) + 1
<1>1. T = S \cup {x}
  OBVIOUS
<1> QED
  BY <1>1, FS_AddElement, FS_CardinalityType

(* A set with one element less.                                            *)
LEMMA OneLess ==
  ASSUME NEW S, IsFiniteSet(S), NEW T, NEW x \in S,
         \A y : y \in T <=> y \in S /\ y # x
  PROVE  /\ IsFiniteSet(T) /\ Cardinality(S) \in Nat
         /\ Cardinality(T) = Cardinality(S) - 1
<1>1. T = S \ {x}
  OBVIOUS
<1> QED
  BY <1>1, FS_RemoveElement, FS_CardinalityType

(* A frame that is let go at gone.node, and none like it before.           *)
LEMMA OneMoreLost ==
  ASSUME IsFiniteSet(lost), NEW gone, lost' = lost \cup {gone}, NEW m,
         gone.node = m => \A l \in lost : l.node = m => l.id # gone.id
  PROVE  /\ IsFiniteSet(lost') /\ LostAt(m) \in Nat
         /\ LostAt(m)' = IF gone.node = m THEN LostAt(m) + 1 ELSE LostAt(m)
<1> DEFINE S == {l \in lost : l.node = m}
           T == {l \in lost' : l.node = m}
<1>1. IsFiniteSet(S) /\ IsFiniteSet(lost')
  BY FS_Subset, FS_AddElement
<1>2. LostAt(m) = Cardinality(S) /\ LostAt(m)' = Cardinality(T)
  BY DEF LostAt
<1>3. CASE gone.node = m
  <2>1. gone \notin S /\ \A l : l \in T <=> l \in S \/ l = gone
    BY <1>3
  <2> HIDE DEF S, T
  <2> QED
    BY <1>1, <1>2, <1>3, <2>1, OneMore
<1>4. CASE gone.node # m
  <2>1. T = S
    BY <1>4
  <2> HIDE DEF S, T
  <2> QED
    BY <1>1, <1>2, <1>4, <2>1, FS_CardinalityType
<1> QED
  BY <1>3, <1>4

(* Frames let go so far are a number.                                      *)
LEMMA LostAtType ==
  ASSUME IsFiniteSet(lost), NEW m
  PROVE  LostAt(m) \in Nat
<1>1. IsFiniteSet({l \in lost : l.node = m})
  BY FS_Subset
<1> QED
  BY <1>1, FS_CardinalityType DEF LostAt
-----------------------------------------------------------------------------
(* What is left to be pushed.                                              *)

(* What a node begins to push, and what it leaves to be pushed.            *)
Loaded(n) ==
  /\ todo[n] = <<>>
  /\ IF Kind[n] = "dispatcher" THEN \E i \in 1..Len(Outputs[n]) : todo'[n] = <<Outputs[n][i]>>
     ELSE todo'[n] = Outputs[n]
TodoStep(n) == todo'[n] = todo[n] \/ Loaded(n)

(* A push takes the first output off the list.                             *)
LEMMA PushedTodo ==
  ASSUME NEW Path \in SUBSET Nodes, FlowInv, FrameInv, PathInv(Path),
         NEW n \in Nodes, SendToOutput(n)
  PROVE  /\ todo[n] # <<>> /\ 1 \in 1..Len(todo[n]) /\ Head(todo[n]) = todo[n][1]
         /\ Len(todo'[n]) \in Nat /\ Len(todo[n]) = Len(todo'[n]) + 1
         /\ \A i \in 1..Len(todo'[n]) : todo'[n][i] = todo[n][i + 1]
         /\ \A m \in Nodes : m # n => TodoStep(m)
<1>1. PICK f \in Frames, m \in Nodes, rest \in Seq(Nodes) :
        /\ m = Head(todo[n]) /\ todo'[n] = rest
        /\ \A k \in Nodes : k # n => hand'[k] = hand[k] /\ todo'[k] = todo[k]
        /\ m = todo[n][1] /\ 1 \in 1..Len(todo[n])
        /\ Len(rest) \in Nat /\ Len(todo[n]) = Len(rest) + 1
        /\ \A i \in 1..Len(rest) : rest[i] = todo[n][i + 1]
  BY PushParts
<1>2. todo[n] # <<>>
  BY <1>1
<1> QED
  BY <1>1, <1>2 DEF TodoStep

(* All other steps begin to push, or leave it for later.                   *)
LEMMA OtherTodo ==
  ASSUME FlowInv, FrameInv, [Next]_vars, \A n \in Nodes : ~SendToOutput(n)
  PROVE  \A n \in Nodes : TodoStep(n)
<1>1. ASSUME UNCHANGED todo PROVE \A n \in Nodes : TodoStep(n)
  BY <1>1 DEF TodoStep
<1>2. ASSUME NEW n \in Nodes, pc[n] \in {"recv", "pop"}, NEW f \in Frames,
             NEW targets, Forward(n, f, targets),
             \/ Kind[n] # "dispatcher" /\ targets = Outputs[n]
             \/ Targets(n, targets)
      PROVE  \A m \in Nodes : TodoStep(m)
  <2>1. targets \in Seq(Nodes)
    BY <1>2, TargetsAreOutputs, OutputsAreNodes
  <2>2. todo'[n] = targets /\ \A m \in Nodes : m # n => todo'[m] = todo[m]
    BY <1>2, <2>1, ForwardKeeps
  <2>3. todo[n] = <<>>
    BY <1>2 DEF FrameInv, Phases, Phase
  <2>4. Loaded(n)
    BY <1>2, <2>2, <2>3 DEF Loaded, Targets
  <2> QED
    BY <2>2, <2>4 DEF TodoStep
<1>3. ASSUME NEW n \in Nodes, Process(n) PROVE \A m \in Nodes : TodoStep(m)
  <2>1. CASE PassesOn(n)
    <3>1. PICK targets : Targets(n, targets) /\ Forward(n, Head(queue[n]), targets)
      BY <2>1 DEF PassesOn
    <3>2. pc[n] = "pop" /\ Head(queue[n]) \in Frames
      BY <2>1, HeadIsCaptured DEF PassesOn, Popped, history
    <3> QED
      BY <1>2, <3>1, <3>2
  <2>2. CASE Tags(n)
    <3>1. PICK f : f = Head(queue[n])
      OBVIOUS
    <3>2. PICK g : g = tagger_node_edit_packet(f, TagOf(f))
      OBVIOUS
    <3>3. /\ Kind[n] = "tagger" /\ Popped(n) /\ UNCHANGED captured
          /\ f.size >= ETH_HLEN + IP_HEADER_MIN_LEN
          /\ tagger_node_get_ip(f) # 0 /\ TagOf(f) # 0
          /\ Forward(n, g, Outputs[n])
      BY <2>2, <3>1, <3>2 DEF Tags
    <3>4. n \in RawNodes
      BY <3>3, RawWiring DEF TaggedOnce
    <3>5. g \in Frames
      BY <3>1, <3>2, <3>3, <3>4, PopKeepsFrames, TaggingKeepsOrigin DEF Origin
    <3>6. pc[n] \in {"recv", "pop"} /\ Kind[n] # "dispatcher"
      BY <3>3 DEF Popped
    <3> QED
      BY <1>2, <3>3, <3>5, <3>6
  <2>3. CASE LetsGo(n) \/ Fetches(n) \/ SendSucceeds(n)
    BY <1>1, <2>3 DEF LetsGo, LetGo, Fetches, SendSucceeds
  <2> QED
    BY <1>3, <2>1, <2>2, <2>3, ProcessShape
<1>4. ASSUME NEW n \in Nodes, Receive(n) PROVE \A m \in Nodes : TodoStep(m)
  <2>1. PICK f \in Frames : Forward(n, f, Outputs[n])
    BY <1>4, ReceivedFrame
  <2>2. pc[n] = "recv" /\ Kind[n] = "sniffer"
    BY <1>4 DEF Receive, FrameInv, Phases, Phase, IsSource
  <2>3. pc[n] \in {"recv", "pop"} /\ Kind[n] # "dispatcher"
    BY <2>2
  <2> QED
    BY <1>2, <2>1, <2>3
<1>5. ASSUME NEW n \in Nodes, SendFails(n) PROVE \A m \in Nodes : TodoStep(m)
  BY <1>1, <1>5 DEF SendFails
<1>6. CASE UNCHANGED vars
  BY <1>1, <1>6 DEF vars
<1>7. ASSUME Rests PROVE \A n \in Nodes : TodoStep(n)
  BY <1>1, <1>7 DEF Rests
<1> QED
  BY <1>3, <1>4, <1>5, <1>6, <1>7, OthersRest DEF Next

(* An output that nobody else feeds gets each frame once.                  *)
TodoOnceEach ==
  \A n \in Nodes : \A i, j \in 1..Len(todo[n]) :
     todo[n][i] = todo[n][j] /\ FedBy(n, todo[n][i]) => i = j
Awaits(n, m) == \E i \in 1..Len(todo[n]) : todo[n][i] = m

(* It stays so.                                                            *)
LEMMA TodoStaysOnce ==
  ASSUME NEW Path \in SUBSET Nodes, FlowInv, FrameInv, PathInv(Path),
         TodoOnceEach, [Next]_vars
  PROVE  TodoOnceEach'
<1> SUFFICES ASSUME NEW n \in Nodes, NEW i \in 1..Len(todo'[n]),
                    NEW j \in 1..Len(todo'[n]),
                    todo'[n][i] = todo'[n][j], FedBy(n, todo'[n][i])
             PROVE  i = j
  BY DEF TodoOnceEach, FedBy
<1>1. CASE SendToOutput(n)
  <2>1. /\ i + 1 \in 1..Len(todo[n]) /\ todo'[n][i] = todo[n][i + 1]
        /\ j + 1 \in 1..Len(todo[n]) /\ todo'[n][j] = todo[n][j + 1]
    BY <1>1, PushedTodo
  <2>2. i + 1 = j + 1
    BY <2>1 DEF TodoOnceEach
  <2> QED
    BY <2>2
<1>2. CASE TodoStep(n)
  <2>1. CASE todo'[n] = todo[n]
    BY <2>1 DEF TodoOnceEach
  <2>2. CASE todo'[n] = Outputs[n]
    BY <2>2 DEF FedBy
  <2>3. ASSUME NEW k \in 1..Len(Outputs[n]), todo'[n] = <<Outputs[n][k]>> PROVE i = j
    BY <2>3
  <2> QED
    BY <1>2, <2>1, <2>2, <2>3 DEF TodoStep, Loaded
<1> QED
  BY <1>1, <1>2, PushedTodo, OtherTodo

(* So one frame is due, or none.                                           *)
LEMMA OnceOrNot ==
  ASSUME NEW ms, NEW m,
         \A i, j \in 1..Len(ms) : ms[i] = m /\ ms[j] = m => i = j
  PROVE  Cardinality({i \in 1..Len(ms) : ms[i] = m}) =
           IF \E i \in 1..Len(ms) : ms[i] = m THEN 1 ELSE 0
<1> DEFINE S == {i \in 1..Len(ms) : ms[i] = m}
<1>1. ASSUME NEW i \in 1..Len(ms), ms[i] = m PROVE Cardinality(S) = 1
  <2>1. S = {i}
    BY <1>1
  <2> HIDE DEF S
  <2> QED
    BY <2>1, FS_Singleton
<1>2. ASSUME ~\E i \in 1..Len(ms) : ms[i] = m PROVE Cardinality(S) = 0
  <2>1. \A j : j \notin S
    BY <1>2
  <2> HIDE DEF S
  <2> QED
    BY <2>1, NoElement
<1> QED
  BY <1>1, <1>2

(* Due in terms of Awaits, before a step and after it.                     *)
LEMMA DueIs ==
  ASSUME NEW n \in Nodes, NEW m, FedBy(n, m)
  PROVE  /\ TodoOnceEach => Due(n, m) = IF Awaits(n, m) THEN 1 ELSE 0
         /\ TodoOnceEach' => Due(n, m)' = IF Awaits(n, m)' THEN 1 ELSE 0
<1>1. ASSUME TodoOnceEach PROVE Due(n, m) = IF Awaits(n, m) THEN 1 ELSE 0
  <2>1. PICK ms : ms = todo[n]
    OBVIOUS
  <2>2. \A i, j \in 1..Len(ms) : ms[i] = m /\ ms[j] = m => i = j
    BY <1>1, <2>1 DEF TodoOnceEach
  <2>3. /\ Due(n, m) = Cardinality({i \in 1..Len(ms) : ms[i] = m})
        /\ Awaits(n, m) <=> \E i \in 1..Len(ms) : ms[i] = m
    BY <2>1 DEF Due, Awaits
  <2> QED
    BY <2>2, <2>3, OnceOrNot
<1>2. ASSUME TodoOnceEach' PROVE Due(n, m)' = IF Awaits(n, m)' THEN 1 ELSE 0
  <2>1. PICK ms : ms = todo'[n]
    OBVIOUS
  <2>2. \A i, j \in 1..Len(ms) : ms[i] = m /\ ms[j] = m => i = j
    BY <1>2, <2>1, SMTT(20) DEF TodoOnceEach, FedBy
  <2>3. /\ Due(n, m)' = Cardinality({i \in 1..Len(ms) : ms[i] = m})
        /\ Awaits(n, m)' <=> \E i \in 1..Len(ms) : ms[i] = m
    BY <2>1 DEF Due, Awaits
  <2> QED
    BY <2>2, <2>3, OnceOrNot
<1> QED
  BY <1>1, <1>2
-----------------------------------------------------------------------------
(* What a node has been offered.                                           *)

(* What the statistics of the nodes are after a step: one push or one      *)
(* frame at one node adds to them.                                         *)
SameStats(k) ==
  /\ ctx'[k].packets_sent = ctx[k].packets_sent
  /\ ctx'[k].packet_count = ctx[k].packet_count
  /\ ctx'[k].total_packets = ctx[k].total_packets
  /\ ctx'[k].vlan_packets = ctx[k].vlan_packets
  /\ ctx'[k].non_vlan_packets = ctx[k].non_vlan_packets

(* A push does not touch those of other nodes.                             *)
LEMMA PushLeavesStats ==
  ASSUME CountersOK, NEW n \in Nodes, SendToOutput(n), NEW k \in Nodes, k # n
  PROVE  SameStats(k)
<1>1. ctx \in [Nodes -> Contexts]
  BY DEF CountersOK
<1>2. \/ UNCHANGED ctx
      \/ \E v : ctx' = [ctx EXCEPT ![n].packets_sent = v]
  BY DEF SendToOutput
<1> QED
  BY <1>1, <1>2 DEF SameStats

(* Only pushes, counters and loggers touch the statistics.                 *)
LEMMA StatsKept ==
  ASSUME CountersOK, [Next]_vars, NEW k \in Nodes,
         ~SendToOutput(k), ~Count(k), ~LogPacket(k)
  PROVE  SameStats(k)
<1>1. ctx \in [Nodes -> Contexts]
  BY DEF CountersOK
<1>2. CASE UNCHANGED ctx
  BY <1>2 DEF SameStats
<1>3. ASSUME NEW n \in Nodes, NEW d, ctx' = [ctx EXCEPT ![n] = d],
             n = k => /\ d.packets_sent = ctx[k].packets_sent
                      /\ d.packet_count = ctx[k].packet_count
                      /\ d.total_packets = ctx[k].total_packets
                      /\ d.vlan_packets = ctx[k].vlan_packets
                      /\ d.non_vlan_packets = ctx[k].non_vlan_packets
      PROVE  SameStats(k)
  BY <1>1, <1>3 DEF SameStats
<1>4. ASSUME NEW n \in Nodes, NEW v, ctx' = [ctx EXCEPT ![n].err_counter = v]
      PROVE  SameStats(k)
  BY <1>1, <1>4 DEF SameStats, Contexts
<1>5. ASSUME NEW n \in Nodes, NEW v, ctx' = [ctx EXCEPT ![n].next_index = v]
      PROVE  SameStats(k)
  BY <1>1, <1>5 DEF SameStats, Contexts
<1>6. ASSUME NEW n \in Nodes, Process(n) PROVE SameStats(k)
  <2>1. CASE SendToOutput(n)
    BY <2>1, PushLeavesStats
  <2>2. CASE Dispatch(n)
    <3>1. \/ UNCHANGED ctx
          \/ \E v : ctx' = [ctx EXCEPT ![n].next_index = v]
      BY <2>2 DEF Dispatch
    <3> QED
      BY <1>2, <1>5, <3>1
  <2>3. CASE Tag(n) \/ Collect(n) \/ SenderPop(n)
    BY <1>2, <2>3 DEF Tag, Collect, SenderPop
  <2>4. CASE Count(n)
    <3>1. n # k /\ \E d : ctx' = [ctx EXCEPT ![n] = d]
      BY <2>4 DEF Count
    <3> QED
      BY <1>3, <3>1
  <2>5. CASE LogPacket(n)
    <3>1. n # k /\ \E v : ctx' = [ctx EXCEPT ![n].packet_count = v]
      BY <2>5 DEF LogPacket
    <3> QED
      BY <1>1, <3>1 DEF SameStats
  <2>6. CASE SendSucceeds(n)
    BY <1>4, <2>6 DEF SendSucceeds
  <2> QED
    BY <1>6, <2>1, <2>2, <2>3, <2>4, <2>5, <2>6 DEF Process
<1>7. ASSUME NEW n \in Nodes, Receive(n) \/ ReceiveFails(n) \/ SendFails(n)
      PROVE  SameStats(k)
  <2>1. \/ UNCHANGED ctx
        \/ \E v : ctx' = [ctx EXCEPT ![n].err_counter = v]
    BY <1>7 DEF Receive, ReceiveFails, SendFails
  <2> QED
    BY <1>2, <1>4, <2>1
<1> QED
  BY <1>2, <1>6, <1>7
     DEF Next, vars, StartNode, StopPipeline, JoinNode, PopFails, LeaveLoop

(* A push adds to packets_sent of a dispatcher, if the frame is taken.     *)
LEMMA PushStats ==
  ASSUME CountersOK, NEW n \in Nodes, SendToOutput(n)
  PROVE  /\ ctx'[n].packets_sent =
              IF Kind[n] = "dispatcher" /\ Accepts(Head(todo[n]), hand[n])
              THEN ctx[n].packets_sent + 1 ELSE ctx[n].packets_sent
         /\ ctx'[n].packet_count = ctx[n].packet_count
         /\ ctx'[n].total_packets = ctx[n].total_packets
         /\ ctx'[n].vlan_packets = ctx[n].vlan_packets
         /\ ctx'[n].non_vlan_packets = ctx[n].non_vlan_packets
<1>1. ctx \in [Nodes -> Contexts]
  BY DEF CountersOK
<1> DEFINE taken == Accepts(Head(todo[n]), hand[n])
<1>2. \/ /\ taken
         /\ ctx' = [ctx EXCEPT ![n].packets_sent =
                                 IF Kind[n] = "dispatcher" THEN @ + 1 ELSE @]
      \/ ~taken /\ UNCHANGED ctx
  BY DEF SendToOutput
<1> HIDE DEF taken
<1>3. ctx'[n].packets_sent = IF Kind[n] = "dispatcher" /\ taken
                             THEN ctx[n].packets_sent + 1 ELSE ctx[n].packets_sent
  BY <1>1, <1>2 DEF Contexts
<1>4. /\ ctx'[n].packet_count = ctx[n].packet_count
      /\ ctx'[n].total_packets = ctx[n].total_packets
      /\ ctx'[n].vlan_packets = ctx[n].vlan_packets
      /\ ctx'[n].non_vlan_packets = ctx[n].non_vlan_packets
  BY <1>1, <1>2 DEF Contexts
<1> QED
  BY <1>3, <1>4 DEF taken

(* What a frame adds at a counter.                                         *)
LEMMA CountStats ==
  ASSUME FrameInv, NEW n \in Nodes, Count(n)
  PROVE  /\ ctx'[n].packets_sent = ctx[n].packets_sent
         /\ ctx'[n].total_packets = ctx[n].total_packets + 1
         /\ is_vlan_packet(Head(queue[n])) =>
              /\ ctx'[n].vlan_packets = ctx[n].vlan_packets + 1
              /\ ctx'[n].non_vlan_packets = ctx[n].non_vlan_packets
<1>1. ctx \in [Nodes -> Contexts]
  BY DEF FrameInv, CountersOK
<1>2. PICK f, vlan : f = Head(queue[n]) /\ vlan = IF is_vlan_packet(f) THEN 1 ELSE 0
  OBVIOUS
<1>3. ctx' = [ctx EXCEPT ![n] =
                [ctx[n] EXCEPT !.total_packets = @ + 1, !.total_bytes = @ + f.size,
                               !.vlan_packets = @ + vlan,
                               !.non_vlan_packets = @ + 1 - vlan]]
  BY <1>1, <1>2, Zenon DEF Count, Counted
<1>4. ctx'[n] = [ctx[n] EXCEPT !.total_packets = @ + 1, !.total_bytes = @ + f.size,
                               !.vlan_packets = @ + vlan,
                               !.non_vlan_packets = @ + 1 - vlan]
  BY <1>1, <1>3
<1>5. ctx[n] \in Contexts
  BY <1>1
<1> QED
  BY <1>2, <1>4, <1>5 DEF Contexts

(* What a frame adds at a logger.                                          *)
LEMMA LogStats ==
  ASSUME CountersOK, NEW n \in Nodes, LogPacket(n)
  PROVE  /\ ctx'[n].packets_sent = ctx[n].packets_sent
         /\ ctx'[n].packet_count = ctx[n].packet_count + 1
  BY DEF CountersOK, Contexts, LogPacket
-----------------------------------------------------------------------------
(* m counts what it takes, or is the only one to send.                     *)
Counts(m) ==
  \/ Kind[m] \in {"logger", "counter"}
  \/ {s \in Nodes : Kind[s] = "sender"} = {m}

(* What Offered adds up are numbers.                                       *)
LEMMA OfferedTypes ==
  ASSUME FrameInv, IsFiniteSet(lost), NEW m \in Nodes
  PROVE  /\ Len(queue[m]) \in Nat /\ LostAt(m) \in Nat /\ Busy(m) \in Nat
         /\ Len(sent) \in Nat /\ ctx[m].packet_count \in Nat
         /\ ctx[m].total_packets \in Nat
<1>1. Len(queue[m]) \in Nat /\ Len(sent) \in Nat
  BY LenProperties DEF FrameInv, FrameTypes
<1>2. ctx[m].packet_count \in Nat /\ ctx[m].total_packets \in Nat
  BY DEF FrameInv, CountersOK, Contexts
<1>3. LostAt(m) \in Nat /\ Busy(m) \in Nat
  BY LostAtType DEF Busy
<1> QED
  BY <1>1, <1>2, <1>3

(* Nothing changes for a node about which nothing changes.                 *)
LEMMA SameOffered ==
  ASSUME NEW m \in Nodes, Counts(m), Len(queue'[m]) = Len(queue[m]),
         LostAt(m)' = LostAt(m), SameStats(m),
         Kind[m] = "sender" => hand'[m] = hand[m] /\ sent' = sent
  PROVE  Offered(m)' = Offered(m)
<1>1. CASE Kind[m] = "sender"
  BY <1>1 DEF Offered, Busy
<1>2. CASE Kind[m] # "sender"
  BY <1>2 DEF Offered, SameStats
<1> QED
  BY <1>1, <1>2

(* What a node takes out of its queue it counts, lets go or sends.         *)
LEMMA TakenOffered ==
  ASSUME NEW Path \in SUBSET Nodes, MainPath(Path),
         FlowInv, FrameInv, FrameInv', PathInv(Path), IsFiniteSet(lost),
         NEW m \in Nodes, Counts(m), Count(m) \/ LogPacket(m) \/ SenderPop(m)
  PROVE  IsFiniteSet(lost') /\ Offered(m)' = Offered(m)
<1>0. /\ Len(queue[m]) \in Nat /\ LostAt(m) \in Nat /\ Busy(m) \in Nat
      /\ Len(sent) \in Nat /\ ctx[m].packet_count \in Nat
      /\ ctx[m].total_packets \in Nat
  BY OfferedTypes
<1>9. PICK q \in Nat, x \in Nat, b \in Nat, s \in Nat :
         q = Len(queue[m]) /\ x = LostAt(m) /\ b = Busy(m) /\ s = Len(sent)
  BY <1>0
<1>1. Popped(m) /\ UNCHANGED sent
  BY DEF Count, LogPacket, SenderPop
<1>2. Len(queue'[m]) = Len(queue[m]) - 1
  BY <1>1, PopKeeps
<1>3. CASE Count(m) \/ LogPacket(m)
  <2>1. UNCHANGED lost /\ Kind[m] \in {"counter", "logger"}
    BY <1>3 DEF Count, LogPacket
  <2>2. LostAt(m)' = LostAt(m)
    BY <2>1 DEF LostAt
  <2>3. IsFiniteSet(lost')
    BY <2>1
  <2>4. CASE Count(m)
    <3>1. Kind[m] = "counter" /\ ctx'[m].total_packets = ctx[m].total_packets + 1
      BY <2>4, CountStats DEF Count
    <3>2. /\ Offered(m) = Len(queue[m]) + LostAt(m) + ctx[m].total_packets
          /\ Offered(m)' = Len(queue'[m]) + LostAt(m)' + ctx'[m].total_packets
      BY <3>1 DEF Offered
    <3>3. Offered(m)' = Offered(m)
      BY <1>0, <1>2, <2>2, <3>1, <3>2
    <3> QED
      BY <2>3, <3>3
  <2>5. CASE LogPacket(m)
    <3>1. Kind[m] = "logger" /\ ctx'[m].packet_count = ctx[m].packet_count + 1
      BY <2>5, LogStats DEF LogPacket, FrameInv
    <3>2. /\ Offered(m) = Len(queue[m]) + LostAt(m) + ctx[m].packet_count
          /\ Offered(m)' = Len(queue'[m]) + LostAt(m)' + ctx'[m].packet_count
      BY <3>1 DEF Offered
    <3>3. Offered(m)' = Offered(m)
      BY <1>0, <1>2, <2>2, <3>1, <3>2
    <3> QED
      BY <2>3, <3>3
  <2> QED
    BY <1>3, <2>4, <2>5
<1>4. CASE SenderPop(m)
  <2>1. Kind[m] = "sender" /\ hand[m] = NoFrame
    BY <1>4 DEF SenderPop, Popped, FrameInv, Phases, Phase
  <2>2. PICK f : f = Head(queue[m])
    OBVIOUS
  <2>3. f \in Frames /\ f # NoFrame
    BY <1>1, <1>4, <2>2, HeadIsCaptured, FlowConstants DEF SenderPop
  <2>4. /\ Offered(m) = Len(queue[m]) + LostAt(m) + (Busy(m) + Len(sent))
        /\ Offered(m)' = Len(queue'[m]) + LostAt(m)' + (Busy(m)' + Len(sent))
    BY <1>1, <2>1 DEF Offered
  <2>5. hand \in [Nodes -> Frames \cup {NoFrame}]
    BY DEF FrameInv, FrameTypes
  <2>6. ASSUME NEW why, LetGo(m, f, why) PROVE IsFiniteSet(lost') /\ Offered(m)' = Offered(m)
    <3>1. PICK gone : gone = [id |-> f.id, node |-> m, why |-> why]
      OBVIOUS
    <3>2. lost' = lost \cup {gone} /\ gone.node = m /\ gone.id = f.id
      BY <2>6, <3>1 DEF LetGo
    <3>3. m \in Path
      BY <2>1 DEF MainPath
    <3>4. InQueue(Path, m, f.id) /\ f.id \in 1..Len(captured)
      BY <1>1, <1>4, <2>2, <3>3, PopWhere, HeadIsCaptured DEF SenderPop
    <3>5. ~LostBy(Path, m, f.id)
      BY <3>4, NowhereElse DEF PathInv, Only
    <3>6. \A l \in lost : l.node = m => l.id # gone.id
      BY <3>2, <3>3, <3>5 DEF LostBy
    <3>7. IsFiniteSet(lost') /\ LostAt(m)' = LostAt(m) + 1
      BY <3>2, <3>6, OneMoreLost
    <3>8. Busy(m)' = Busy(m)
      BY <2>6 DEF LetGo, Busy
    <3>9. Offered(m) = q + x + (b + s) /\ Offered(m)' = (q - 1) + (x + 1) + (b + s)
      BY <1>2, <1>9, <2>4, <3>7, <3>8
    <3> QED
      BY <3>7, <3>9
  <2>7. ASSUME hand' = [hand EXCEPT ![m] = f], UNCHANGED lost
        PROVE  IsFiniteSet(lost') /\ Offered(m)' = Offered(m)
    <3>1. Busy(m) = 0 /\ Busy(m)' = 1 /\ LostAt(m)' = LostAt(m)
      BY <2>1, <2>3, <2>5, <2>7 DEF Busy, LostAt
    <3>2. IsFiniteSet(lost')
      BY <2>7
    <3>3. Offered(m) = q + x + (0 + s) /\ Offered(m)' = (q - 1) + x + (1 + s)
      BY <1>2, <1>9, <2>4, <3>1
    <3>4. Offered(m)' = Offered(m)
      BY <3>3
    <3> QED
      BY <3>2, <3>4
  <2> QED
    BY <1>4, <2>2, <2>6, <2>7 DEF SenderPop
<1> QED
  BY <1>3, <1>4

(* A sender's frame is on the wire or lost.                                *)
LEMMA SenderOffered ==
  ASSUME NEW Path \in SUBSET Nodes, MainPath(Path),
         FlowInv, FrameInv, PathInv(Path), IsFiniteSet(lost),
         NEW m \in Nodes, Kind[m] = "sender", SendSucceeds(m) \/ SendFails(m)
  PROVE  IsFiniteSet(lost') /\ Offered(m)' = Offered(m)
<1>0. /\ Len(queue[m]) \in Nat /\ LostAt(m) \in Nat /\ Busy(m) \in Nat
      /\ Len(sent) \in Nat /\ ctx[m].packet_count \in Nat
      /\ ctx[m].total_packets \in Nat
  BY OfferedTypes
<1>9. PICK q \in Nat, x \in Nat, b \in Nat, s \in Nat :
         q = Len(queue[m]) /\ x = LostAt(m) /\ b = Busy(m) /\ s = Len(sent)
  BY <1>0
<1>1. PICK f : f = hand[m]
  OBVIOUS
<1>2. /\ pc[m] = "sendto" /\ hand' = [hand EXCEPT ![m] = NoFrame] /\ UNCHANGED queue
  BY DEF SendSucceeds, SendFails
<1>3. /\ m \in Path /\ f \in Frames /\ Only(Path, f.id, <<"hand", m>>)
  BY <1>1, <1>2, SenderHas
<1>4. Busy(m) = 1 /\ Busy(m)' = 0
  BY <1>1, <1>2, <1>3, FlowConstants DEF Busy, FrameInv, FrameTypes
<1>5. /\ Offered(m) = Len(queue[m]) + LostAt(m) + (Busy(m) + Len(sent))
      /\ Offered(m)' = Len(queue[m]) + LostAt(m)' + (Busy(m)' + Len(sent'))
  BY <1>2 DEF Offered
<1>6. CASE SendSucceeds(m)
  <2>1. sent' = Append(sent, f) /\ UNCHANGED lost
    BY <1>1, <1>6 DEF SendSucceeds
  <2>2. Len(sent') = Len(sent) + 1 /\ LostAt(m)' = LostAt(m) /\ IsFiniteSet(lost')
    BY <1>3, <2>1, AppendProperties DEF LostAt, FrameInv, FrameTypes
  <2>3. Offered(m) = q + x + (1 + s) /\ Offered(m)' = q + x + (0 + (s + 1))
    BY <1>4, <1>5, <1>9, <2>2
  <2> QED
    BY <2>2, <2>3
<1>7. CASE SendFails(m)
  <2>1. PICK gone : gone = [id |-> f.id, node |-> m, why |-> "sendto"]
    OBVIOUS
  <2>2. /\ lost' = lost \cup {gone} /\ gone.node = m /\ gone.id = f.id
        /\ UNCHANGED sent
    BY <1>1, <1>7, <2>1 DEF SendFails
  <2>3. \A l \in lost : l.node = m => l.id # gone.id
    BY <1>3, <2>2 DEF Only, LostBy
  <2>4. IsFiniteSet(lost') /\ LostAt(m)' = LostAt(m) + 1
    BY <2>2, <2>3, OneMoreLost
  <2>5. Offered(m) = q + x + (1 + s) /\ Offered(m)' = q + (x + 1) + (0 + s)
    BY <1>4, <1>5, <1>9, <2>2, <2>4
  <2> QED
    BY <2>4, <2>5
<1> QED
  BY <1>6, <1>7

(* A push offers the frame to the node it goes to.                         *)
LEMMA PushOffered ==
  ASSUME NEW Path \in SUBSET Nodes, FlowInv, FrameInv, PathInv(Path),
         IsFiniteSet(lost), NEW m \in Nodes, Counts(m),
         NEW n \in Nodes, SendToOutput(n),
         Head(todo[n]) = m => \A l \in lost : l.node = m => l.id # hand[n].id
  PROVE  /\ IsFiniteSet(lost')
         /\ Offered(m)' = IF Head(todo[n]) = m THEN Offered(m) + 1 ELSE Offered(m)
<1>0. /\ Len(queue[m]) \in Nat /\ LostAt(m) \in Nat /\ Busy(m) \in Nat
      /\ Len(sent) \in Nat /\ ctx[m].packet_count \in Nat
      /\ ctx[m].total_packets \in Nat
  BY OfferedTypes
<1>9. PICK q \in Nat, x \in Nat : q = Len(queue[m]) /\ x = LostAt(m)
  BY <1>0
<1>1. PICK f \in Frames, k \in Nodes :
        /\ f = hand[n] /\ k = Head(todo[n]) /\ Kind[n] # "sender"
        /\ \A j \in Nodes : j # n => hand'[j] = hand[j] /\ todo'[j] = todo[j]
  BY PushParts
<1>2. PICK gone : gone = [id |-> f.id, node |-> k, why |-> "push failed"]
  OBVIOUS
<1>3. /\ gone.node = k /\ gone.id = f.id /\ UNCHANGED sent
      /\ \/ queue' = [queue EXCEPT ![k] = Append(@, f)] /\ UNCHANGED lost
         \/ lost' = lost \cup {gone} /\ UNCHANGED queue
  BY <1>1, <1>2 DEF SendToOutput
<1>4. /\ ctx'[m].packet_count = ctx[m].packet_count
      /\ ctx'[m].total_packets = ctx[m].total_packets
  <2>1. CASE n = m
    BY <2>1, PushStats DEF FrameInv
  <2>2. CASE n # m
    BY <2>2, PushLeavesStats DEF SameStats, FrameInv
  <2> QED
    BY <2>1, <2>2
<1>5. Kind[m] = "sender" => Busy(m)' = Busy(m)
  BY <1>1 DEF Busy
<1>6. PICK c \in Nat : /\ Offered(m) = Len(queue[m]) + LostAt(m) + c
                       /\ Offered(m)' = Len(queue'[m]) + LostAt(m)' + c
  <2>1. CASE Kind[m] = "sender"
    <3>1. /\ Offered(m) = Len(queue[m]) + LostAt(m) + (Busy(m) + Len(sent))
          /\ Offered(m)' = Len(queue'[m]) + LostAt(m)' + (Busy(m)' + Len(sent))
      BY <1>3, <2>1 DEF Offered
    <3>2. Busy(m) + Len(sent) \in Nat
      BY <1>0
    <3> QED
      BY <1>5, <2>1, <3>1, <3>2
  <2>2. CASE Kind[m] = "logger"
    BY <1>0, <1>4, <2>2 DEF Offered
  <2>3. CASE Kind[m] = "counter"
    BY <1>0, <1>4, <2>3 DEF Offered
  <2> QED
    BY <2>1, <2>2, <2>3 DEF Counts
<1>7. CASE queue' = [queue EXCEPT ![k] = Append(@, f)] /\ UNCHANGED lost
  <2>1. Len(queue'[m]) = IF k = m THEN Len(queue[m]) + 1 ELSE Len(queue[m])
    BY <1>7, PushKeeps
  <2>2. LostAt(m)' = LostAt(m) /\ IsFiniteSet(lost')
    BY <1>7 DEF LostAt
  <2>3. /\ Offered(m) = q + x + c
        /\ Offered(m)' = IF k = m THEN (q + 1) + x + c ELSE q + x + c
    BY <1>6, <1>9, <2>1, <2>2
  <2> QED
    BY <1>1, <2>2, <2>3
<1>8. CASE lost' = lost \cup {gone} /\ UNCHANGED queue
  <2>1. gone.node = m => \A l \in lost : l.node = m => l.id # gone.id
    BY <1>1, <1>3
  <2>2. /\ IsFiniteSet(lost')
        /\ LostAt(m)' = IF k = m THEN LostAt(m) + 1 ELSE LostAt(m)
    BY <1>3, <1>8, <2>1, OneMoreLost
  <2>3. /\ Offered(m) = q + x + c
        /\ Offered(m)' = IF k = m THEN q + (x + 1) + c ELSE q + x + c
    BY <1>6, <1>8, <1>9, <2>2
  <2> QED
    BY <1>1, <2>2, <2>3
<1> QED
  BY <1>3, <1>7, <1>8

(* A node that counts is a logger, a counter or a sender.                  *)
LEMMA CountingKinds ==
  ASSUME NEW m \in Nodes, Counts(m)
  PROVE  /\ Kind[m] \in {"logger", "counter", "sender"}
         /\ Kind[m] = "sender" => \A n \in Nodes : Kind[n] = "sender" => n = m
BY DEF Counts

(* Only a node that lets its frame go, and no push, loses a frame for      *)
(* another reason than a full queue.                                       *)
LEMMA LostGrows ==
  ASSUME FrameInv, [Next]_vars, \A n \in Nodes : ~SendToOutput(n)
  PROVE  \/ UNCHANGED lost
         \/ \E n \in Nodes : \E gone :
              /\ lost' = lost \cup {gone} /\ gone.node = n /\ gone.why # "push failed"
              /\ \/ Process(n) /\ LetsGo(n) /\ gone.id = Head(queue[n]).id
                 \/ SendFails(n) /\ gone.id = hand[n].id
<1>1. ASSUME NEW n \in Nodes, LetsGo(n)
      PROVE  \E gone : /\ lost' = lost \cup {gone} /\ gone.node = n
                       /\ gone.why # "push failed" /\ gone.id = Head(queue[n]).id
  <2>1. PICK f, why : f = Head(queue[n]) /\ Filters(n, f, why) /\ LetGo(n, f, why)
    BY <1>1 DEF LetsGo
  <2>2. PICK gone : gone = [id |-> f.id, node |-> n, why |-> why]
    OBVIOUS
  <2>3. gone.node = n /\ gone.id = f.id /\ gone.why = why
    BY <2>2
  <2>4. lost' = lost \cup {gone} /\ why # "push failed"
    BY <2>1, <2>2 DEF LetGo, Filters
  <2> QED
    BY <2>1, <2>3, <2>4
<1>2. ASSUME NEW n \in Nodes, SendFails(n)
      PROVE  \E gone : /\ lost' = lost \cup {gone} /\ gone.node = n
                       /\ gone.why # "push failed" /\ gone.id = hand[n].id
  <2>1. PICK gone : gone = [id |-> hand[n].id, node |-> n, why |-> "sendto"]
    OBVIOUS
  <2>2. gone.node = n /\ gone.id = hand[n].id /\ gone.why # "push failed"
    BY <2>1
  <2>3. lost' = lost \cup {gone}
    BY <1>2, <2>1 DEF SendFails
  <2> QED
    BY <2>2, <2>3
<1>3. ASSUME NEW n \in Nodes, Process(n), ~LetsGo(n) PROVE UNCHANGED lost
  <2>1. PassesOn(n) \/ Tags(n) \/ Fetches(n) \/ SendSucceeds(n)
    BY <1>3, ProcessShape
  <2>2. Tags(n) => UNCHANGED lost
    BY DEF Tags
  <2>3. PassesOn(n) => UNCHANGED lost
    BY DEF PassesOn, history
  <2>4. Fetches(n) => UNCHANGED lost
    BY DEF Fetches, history
  <2>5. SendSucceeds(n) => UNCHANGED lost
    BY DEF SendSucceeds
  <2> QED
    BY <2>1, <2>2, <2>3, <2>4, <2>5
<1>4. ASSUME NEW n \in Nodes, Receive(n) PROVE UNCHANGED lost
  BY <1>4 DEF Receive
<1>5. ASSUME Rests \/ UNCHANGED vars PROVE UNCHANGED lost
  BY <1>5 DEF Rests, history, vars
<1>6. CASE UNCHANGED lost
  BY <1>6
<1>7. CASE ~UNCHANGED lost
  <2>0. Next /\ ~Rests
    BY <1>5, <1>7
  <2>1. PICK n \in Nodes : SendFails(n) \/ (Process(n) /\ LetsGo(n))
    <3>1. PICK n \in Nodes : Process(n) \/ Receive(n) \/ SendFails(n)
      BY <2>0, OthersRest DEF Next
    <3>2. ~Receive(n) /\ (Process(n) => LetsGo(n))
      BY <1>3, <1>4, <1>7
    <3> QED
      BY <3>1, <3>2
  <2>2. CASE SendFails(n)
    <3>1. PICK gone : /\ lost' = lost \cup {gone} /\ gone.node = n
                      /\ gone.why # "push failed" /\ gone.id = hand[n].id
      BY <1>2, <2>2
    <3> QED
      BY <2>2, <3>1
  <2>3. CASE Process(n) /\ LetsGo(n)
    <3>1. PICK gone : /\ lost' = lost \cup {gone} /\ gone.node = n
                      /\ gone.why # "push failed" /\ gone.id = Head(queue[n]).id
      BY <1>1, <2>3
    <3> QED
      BY <2>3, <3>1
  <2> QED
    BY <2>1, <2>2, <2>3
<1> QED
  BY <1>6, <1>7

(* It loses a frame of the path once.                                      *)
LEMMA LostFresh ==
  ASSUME NEW Path \in SUBSET Nodes, MainPath(Path), FrameInv, PathInv(Path),
         NEW n \in Path, NEW x,
         \/ LetsGo(n) /\ x = Head(queue[n]).id
         \/ SendFails(n) /\ x = hand[n].id
  PROVE  \A l \in lost : l.node = n => l.id # x
<1>1. CASE LetsGo(n) /\ x = Head(queue[n]).id
  <2>1. Popped(n) /\ UNCHANGED captured
    BY <1>1 DEF LetsGo
  <2>2. InQueue(Path, n, x) /\ x \in 1..Len(captured)
    BY <1>1, <2>1, PopWhere, HeadIsCaptured
  <2>3. ~LostBy(Path, n, x)
    BY <2>2, NowhereElse DEF PathInv, Only
  <2> QED
    BY <2>3 DEF LostBy
<1>2. CASE SendFails(n) /\ x = hand[n].id
  <2>1. pc[n] = "sendto" /\ n \in Nodes
    BY <1>2 DEF SendFails
  <2>2. Only(Path, x, <<"hand", n>>)
    BY <1>2, <2>1, SenderHas
  <2>3. ~LostBy(Path, n, x)
    BY <2>2 DEF Only
  <2> QED
    BY <2>3 DEF LostBy
<1> QED
  BY <1>1, <1>2

(* What no frame is taken from, and no frame is sent by.                   *)
LEMMA LeftAlone ==
  ASSUME FlowInv, FrameInv, [Next]_vars, \A n \in Nodes : ~SendToOutput(n),
         NEW m \in Nodes, Counts(m),
         ~Count(m), ~LogPacket(m), ~SenderPop(m), ~SendSucceeds(m), ~SendFails(m)
  PROVE  /\ queue'[m] = queue[m]
         /\ Kind[m] = "sender" => hand'[m] = hand[m] /\ sent' = sent
<1> DEFINE Kept == /\ queue'[m] = queue[m]
                   /\ Kind[m] = "sender" => hand'[m] = hand[m] /\ sent' = sent
<1>0. hand \in [Nodes -> Frames \cup {NoFrame}]
  BY DEF FrameInv, FrameTypes
<1>1. ASSUME NEW n \in Nodes, Process(n) PROVE Kept
  <2>1. CASE n = m
    BY <1>1, <2>1, CountingKinds DEF Process, Dispatch, Tag, Collect
  <2>2. ASSUME n # m, Popped(n), UNCHANGED sent,
               UNCHANGED hand \/ \E f : hand' = [hand EXCEPT ![n] = f]
        PROVE  Kept
    <3>1. queue'[m] = queue[m]
      BY <2>2, PopKeeps
    <3>2. hand'[m] = hand[m]
      BY <1>0, <2>2
    <3> QED
      BY <2>2, <3>1, <3>2
  <2>3. ASSUME n # m, PassesOn(n) \/ Tags(n) PROVE Kept
    BY <2>2, <2>3 DEF PassesOn, Tags, Forward, history
  <2>4. ASSUME n # m, LetsGo(n) \/ Fetches(n) PROVE Kept
    BY <2>2, <2>4 DEF LetsGo, LetGo, Fetches, history
  <2>5. ASSUME n # m, SendSucceeds(n) PROVE Kept
    <3>1. Kind[n] = "sender"
      BY <2>5 DEF SendSucceeds, FrameInv, Phases, Phase
    <3>2. Kind[m] # "sender"
      BY <2>5, <3>1, CountingKinds
    <3> QED
      BY <2>5, <3>2 DEF SendSucceeds
  <2> QED
    BY <1>1, <2>1, <2>3, <2>4, <2>5, ProcessShape
<1>2. ASSUME NEW n \in Nodes, Receive(n) PROVE Kept
  <2>1. /\ Kind[n] = "sniffer" /\ UNCHANGED <<queue, sent>>
        /\ \E f : hand' = [hand EXCEPT ![n] = f]
    BY <1>2 DEF Receive, Forward, FrameInv, Phases, Phase, IsSource
  <2>2. Kind[m] = "sender" => hand'[m] = hand[m]
    BY <1>0, <2>1
  <2> QED
    BY <2>1, <2>2
<1>3. ASSUME NEW n \in Nodes, SendFails(n) PROVE Kept
  <2>1. n # m /\ UNCHANGED <<queue, sent>> /\ hand' = [hand EXCEPT ![n] = NoFrame]
    BY <1>3 DEF SendFails
  <2> QED
    BY <1>0, <2>1
<1>4. ASSUME Rests \/ UNCHANGED vars PROVE Kept
  BY <1>4 DEF Rests, history, vars
<1> QED
  BY <1>1, <1>2, <1>3, <1>4, OthersRest DEF Next

(* Without a push nothing is offered.                                      *)
LEMMA OfferedKept ==
  ASSUME NEW Path \in SUBSET Nodes, MainPath(Path),
         FlowInv, FrameInv, FrameInv', PathInv(Path), IsFiniteSet(lost),
         [Next]_vars, \A n \in Nodes : ~SendToOutput(n), NEW m \in Nodes, Counts(m)
  PROVE  Offered(m)' = Offered(m)
<1>1. CASE Count(m) \/ LogPacket(m) \/ SenderPop(m)
  BY <1>1, TakenOffered
<1>2. CASE SendSucceeds(m) \/ SendFails(m)
  <2>1. Kind[m] = "sender"
    BY <1>2 DEF SendSucceeds, SendFails, FrameInv, Phases, Phase
  <2> QED
    BY <1>2, <2>1, SenderOffered
<1>3. CASE ~Count(m) /\ ~LogPacket(m) /\ ~SenderPop(m) /\ ~SendSucceeds(m) /\ ~SendFails(m)
  <2>1. /\ queue'[m] = queue[m]
        /\ Kind[m] = "sender" => hand'[m] = hand[m] /\ sent' = sent
    BY <1>3, LeftAlone
  <2>2. SameStats(m)
    BY <1>3, StatsKept DEF FrameInv
  <2>3. LostAt(m)' = LostAt(m)
    <3>1. ASSUME Process(m), LetsGo(m) PROVE FALSE
      <4>1. Kind[m] = "sender" /\ pc[m] = "pop"
        BY <3>1, CountingKinds DEF LetsGo, Filters, Popped
      <4> QED
        BY <1>3, <3>1, <4>1 DEF Process, Dispatch, Tag, Collect
    <3>2. ASSUME NEW n \in Nodes, NEW gone, lost' = lost \cup {gone}, gone.node = n,
                 \/ Process(n) /\ LetsGo(n)
                 \/ SendFails(n)
          PROVE  LostAt(m)' = LostAt(m)
      <4>1. gone.node # m
        BY <1>3, <3>1, <3>2
      <4> QED
        BY <3>2, <4>1, OneMoreLost
    <3> QED
      BY <3>2, LostGrows DEF LostAt
  <2> QED
    BY <2>1, <2>2, <2>3, SameOffered
<1> QED
  BY <1>1, <1>2, <1>3

(* What m has been offered, and what n still has to offer it.              *)
Total(n, m) == Offered(m) + Due(n, m)

(* n takes up a frame that it is to push.                                  *)
Loads(n) == todo[n] = <<>> /\ todo'[n] # <<>>

(* m is an output of n, which copies every frame to it.                    *)
Copies(n, m) ==
  /\ Kind[n] # "dispatcher" /\ Tallied(n, m)
  /\ \E i \in 1..Len(Outputs[n]) : Outputs[n][i] = m

(* Offered adds up to a number.                                            *)
LEMMA OfferedIsNat ==
  ASSUME FrameInv, IsFiniteSet(lost), NEW m \in Nodes, Counts(m)
  PROVE  Offered(m) \in Nat
<1>1. /\ Len(queue[m]) \in Nat /\ LostAt(m) \in Nat /\ Busy(m) \in Nat
      /\ Len(sent) \in Nat /\ ctx[m].packet_count \in Nat
      /\ ctx[m].total_packets \in Nat
  BY OfferedTypes
<1> QED
  BY <1>1, CountingKinds, SMTT(20) DEF Offered

(* A frame that n takes up is due to all its outputs.                      *)
LEMMA LoadedIsDue ==
  ASSUME NEW n \in Nodes, NEW m \in Nodes, Copies(n, m), TodoStep(n),
         todo \in [Nodes -> Seq(Nodes)], todo' \in [Nodes -> Seq(Nodes)]
  PROVE  /\ Loads(n) => ~Awaits(n, m) /\ Awaits(n, m)'
         /\ ~Loads(n) => (Awaits(n, m)' <=> Awaits(n, m))
<1>1. Len(<<>>) = 0
  BY EmptySeq
<1>2. todo[n] = <<>> => ~Awaits(n, m)
  BY <1>1 DEF Awaits
<1>3. todo'[n] = Outputs[n] => Awaits(n, m)' /\ todo'[n] # <<>>
  BY <1>1 DEF Copies, Awaits
<1>4. CASE todo'[n] = todo[n]
  BY <1>4 DEF Loads, Awaits
<1>5. CASE Loaded(n)
  BY <1>2, <1>3, <1>5 DEF Loaded, Loads, Copies
<1> QED
  BY <1>4, <1>5 DEF TodoStep

(* A push takes one output off the list.                                   *)
LEMMA PushedIsDone ==
  ASSUME NEW Path \in SUBSET Nodes, FlowInv, FrameInv, PathInv(Path), TodoOnceEach,
         NEW n \in Nodes, SendToOutput(n), NEW m \in Nodes, FedBy(n, m)
  PROVE  /\ Head(todo[n]) = m => Awaits(n, m)
         /\ Awaits(n, m)' <=> Awaits(n, m) /\ Head(todo[n]) # m
<1>1. /\ 1 \in 1..Len(todo[n]) /\ Head(todo[n]) = todo[n][1]
      /\ Len(todo'[n]) \in Nat /\ Len(todo[n]) = Len(todo'[n]) + 1
      /\ \A i \in 1..Len(todo'[n]) : todo'[n][i] = todo[n][i + 1]
  BY PushedTodo
<1>2. ASSUME NEW i \in 1..Len(todo'[n]), todo'[n][i] = m
      PROVE  Awaits(n, m) /\ Head(todo[n]) # m
  <2>1. i + 1 \in 1..Len(todo[n]) /\ todo[n][i + 1] = m /\ i + 1 # 1
    BY <1>1, <1>2
  <2>2. Head(todo[n]) # m
    BY <1>1, <2>1 DEF TodoOnceEach
  <2> QED
    BY <2>1, <2>2 DEF Awaits
<1>3. ASSUME NEW i \in 1..Len(todo[n]), todo[n][i] = m, Head(todo[n]) # m
      PROVE  Awaits(n, m)'
  <2>1. i # 1
    BY <1>1, <1>3
  <2>2. i - 1 \in 1..Len(todo'[n]) /\ todo'[n][i - 1] = todo[n][i]
    BY <1>1, <2>1
  <2> QED
    BY <1>3, <2>2 DEF Awaits
<1>4. Head(todo[n]) = m => Awaits(n, m)
  BY <1>1 DEF Awaits
<1> QED
  BY <1>2, <1>3, <1>4 DEF Awaits

(* What all the outputs of n have been offered grows with each frame that  *)
(* n takes up, and with nothing else.                                      *)
LEMMA TotalGrows ==
  ASSUME NEW Path \in SUBSET Nodes, MainPath(Path),
         FlowInv, FrameInv, FrameInv', PathInv(Path), TodoAreOutputs,
         TodoOnceEach, TodoOnceEach', IsFiniteSet(lost), [Next]_vars,
         NEW n \in Nodes, NEW m \in Nodes, Copies(n, m),
         SendToOutput(n) /\ Head(todo[n]) = m
           => \A l \in lost : l.node = m => l.id # hand[n].id
  PROVE  Total(n, m) \in Nat /\ Total(n, m)' = Total(n, m) + (IF Loads(n) THEN 1 ELSE 0)
<1>0. Counts(m) /\ FedBy(n, m) /\ Kind[n] # "dispatcher"
  BY DEF Copies, Tallied, Counts
<1>1. Offered(m) \in Nat
  BY <1>0, OfferedIsNat
<1>2. PICK o \in Nat : o = Offered(m)
  BY <1>1
<1>3. /\ Due(n, m) = IF Awaits(n, m) THEN 1 ELSE 0
      /\ Due(n, m)' = IF Awaits(n, m)' THEN 1 ELSE 0
  BY <1>0, DueIs
<1>4. todo \in [Nodes -> Seq(Nodes)] /\ todo' \in [Nodes -> Seq(Nodes)]
  BY DEF FrameInv, FrameTypes
<1>5. Total(n, m) \in Nat
  BY <1>2, <1>3 DEF Total
<1>6. CASE Offered(m)' = o /\ TodoStep(n)
  <2>1. /\ Loads(n) => ~Awaits(n, m) /\ Awaits(n, m)'
        /\ ~Loads(n) => (Awaits(n, m)' <=> Awaits(n, m))
    BY <1>4, <1>6, LoadedIsDue
  <2>2. Due(n, m)' = Due(n, m) + (IF Loads(n) THEN 1 ELSE 0) /\ Due(n, m) \in Nat
    BY <1>3, <2>1
  <2> QED
    BY <1>2, <1>5, <1>6, <2>2 DEF Total
<1>7. CASE \A k \in Nodes : ~SendToOutput(k)
  <2>1. Offered(m)' = o
    BY <1>0, <1>2, <1>7, OfferedKept
  <2>2. TodoStep(n)
    BY <1>7, OtherTodo
  <2> QED
    BY <1>6, <2>1, <2>2
<1>8. ASSUME NEW k \in Nodes, SendToOutput(k), k # n
      PROVE  Total(n, m)' = Total(n, m) + (IF Loads(n) THEN 1 ELSE 0)
  <2>1. /\ TodoStep(n)
        /\ 1 \in 1..Len(todo[k]) /\ Head(todo[k]) = todo[k][1]
    BY <1>8, PushedTodo
  <2>2. PICK i \in 1..Len(Outputs[k]) : Head(todo[k]) = Outputs[k][i]
    BY <2>1 DEF TodoAreOutputs
  <2>3. Head(todo[k]) # m
    BY <1>0, <1>8, <2>2 DEF FedBy
  <2>4. Offered(m)' = o
    BY <1>0, <1>2, <1>8, <2>3, PushOffered
  <2> QED
    BY <1>6, <2>1, <2>4
<1>9. CASE SendToOutput(n)
  <2>1. /\ Head(todo[n]) = m => Awaits(n, m)
        /\ Awaits(n, m)' <=> Awaits(n, m) /\ Head(todo[n]) # m
    BY <1>0, <1>9, PushedIsDone
  <2>2. Offered(m)' = IF Head(todo[n]) = m THEN o + 1 ELSE o
    BY <1>0, <1>2, <1>9, PushOffered
  <2>3. ~Loads(n)
    BY <1>9, PushedTodo DEF Loads
  <2>4. CASE Head(todo[n]) = m
    <3>1. Total(n, m) = o + 1 /\ Total(n, m)' = (o + 1) + 0
      BY <1>2, <1>3, <2>1, <2>2, <2>4 DEF Total
    <3> QED
      BY <2>3, <3>1
  <2>5. CASE Head(todo[n]) # m
    <3>1. Total(n, m)' = Total(n, m)
      BY <1>2, <1>3, <2>1, <2>2, <2>5 DEF Total
    <3> QED
      BY <1>5, <2>3, <3>1
  <2> QED
    BY <2>4, <2>5
<1> QED
  BY <1>5, <1>7, <1>8, <1>9
-----------------------------------------------------------------------------
(* Ends beside the path.                                                   *)

(* What n has in its buffer after a step: nothing, what it had before, or  *)
(* a frame from its queue or from the wire.                                *)
LEMMA HandAfter ==
  ASSUME NEW Path \in SUBSET Nodes, MainPath(Path), FlowInv, FrameInv, PathInv(Path),
         [Next]_vars, NEW n \in Path
  PROVE  \/ hand'[n] = NoFrame
         \/ hand'[n] = hand[n] /\ (todo'[n] = todo[n] \/ SendToOutput(n))
         \/ \E x : /\ hand'[n].id = x /\ Only(Path, x, <<"hand", n>>)'
                   /\ InQueue(Path, n, x) \/ x = Len(captured) + 1
<1> DEFINE After == \/ hand'[n] = NoFrame
                    \/ hand'[n] = hand[n] /\ (todo'[n] = todo[n] \/ SendToOutput(n))
                    \/ \E x : /\ hand'[n].id = x /\ Only(Path, x, <<"hand", n>>)'
                              /\ InQueue(Path, n, x) \/ x = Len(captured) + 1
<1>0. hand \in [Nodes -> Frames \cup {NoFrame}] /\ todo \in [Nodes -> Seq(Nodes)]
  BY DEF FrameInv, FrameTypes
<1>1. ASSUME NEW k \in Nodes, UNCHANGED hand \/ \E f : hand' = [hand EXCEPT ![k] = f],
             UNCHANGED todo \/ \E ms : todo' = [todo EXCEPT ![k] = ms], k # n
      PROVE  After
  BY <1>0, <1>1
<1>2. ASSUME NEW x, Only(Path, x, <<"hand", n>>)',
             InQueue(Path, n, x) \/ x = Len(captured) + 1
      PROVE  After
  <2>1. hand'[n].id = x
    BY <1>2 DEF Only, InHand
  <2> QED
    BY <1>2, <2>1
<1>3. ASSUME UNCHANGED <<hand, todo>> PROVE After
  BY <1>3
<1>4. ASSUME NEW k \in Nodes, hand' = [hand EXCEPT ![k] = NoFrame], UNCHANGED todo
      PROVE  After
  BY <1>0, <1>4
<1>5. ASSUME NEW k \in Nodes, Process(k) PROVE After
  <2>1. CASE LetsGo(k)
    BY <1>3, <2>1 DEF LetsGo, LetGo
  <2>2. CASE SendSucceeds(k)
    BY <1>4, <2>2 DEF SendSucceeds
  <2>3. CASE SendToOutput(k)
    <3>1. PICK f \in Frames, rest \in Seq(Nodes) :
            /\ f = hand[k] /\ hand'[k] = IF rest = <<>> THEN NoFrame ELSE f
            /\ \A j \in Nodes : j # k => hand'[j] = hand[j] /\ todo'[j] = todo[j]
      BY <2>3, PushParts
    <3> QED
      BY <2>3, <3>1
  <2>4. CASE PassesOn(k) \/ Tags(k) \/ Fetches(k)
    <3>1. CASE k = n
      <4>1. PICK x : x = Head(queue[n]).id
        OBVIOUS
      <4>2. TakenUp(Path, n, x)
        BY <2>4, <3>1, <4>1, PassesOnKeepsPath, TagsKeepsPath, FetchesKeepsPath
      <4>3. Only(Path, x, <<"queue", n>>) /\ Only(Path, x, <<"hand", n>>)'
        BY <4>2 DEF TakenUp, Moves
      <4>4. InQueue(Path, n, x)
        BY <4>3 DEF Only
      <4> QED
        BY <1>2, <4>3, <4>4
    <3>2. CASE k # n
      <4>1. PassesOn(k) => /\ \E f : hand' = [hand EXCEPT ![k] = f]
                           /\ \E ms : todo' = [todo EXCEPT ![k] = ms]
        BY DEF PassesOn, Forward
      <4>2. Tags(k) => /\ \E f : hand' = [hand EXCEPT ![k] = f]
                       /\ \E ms : todo' = [todo EXCEPT ![k] = ms]
        BY DEF Tags, Forward
      <4>3. Fetches(k) => UNCHANGED todo /\ \E f : hand' = [hand EXCEPT ![k] = f]
        BY DEF Fetches
      <4> QED
        BY <1>1, <2>4, <3>2, <4>1, <4>2, <4>3
    <3> QED
      BY <3>1, <3>2
  <2> QED
    BY <1>5, <2>1, <2>2, <2>3, <2>4, ProcessShape
<1>6. ASSUME NEW k \in Nodes, Receive(k) PROVE After
  <2>1. PICK x : x = Len(captured) + 1
    OBVIOUS
  <2>2. Arrives(Path, k, x)
    BY <1>6, <2>1, ReceiveKeepsPath
  <2>3. /\ \E f : hand' = [hand EXCEPT ![k] = f]
        /\ \E ms : todo' = [todo EXCEPT ![k] = ms]
    BY <1>6 DEF Receive, Forward
  <2> QED
    BY <1>1, <1>2, <2>1, <2>2, <2>3 DEF Arrives
<1>7. ASSUME NEW k \in Nodes, SendFails(k) PROVE After
  BY <1>4, <1>7 DEF SendFails
<1>8. ASSUME Rests PROVE After
  BY <1>3, <1>8 DEF Rests
<1>9. ASSUME UNCHANGED vars PROVE After
  BY <1>3, <1>9 DEF vars
<1> HIDE DEF After
<1>10. After
  BY <1>5, <1>6, <1>7, <1>8, <1>9, OthersRest DEF Next
<1> QED
  BY <1>10 DEF After

(* What is lost at an end beside the path, n has tried to push to it: it   *)
(* does not do so again.                                                   *)
EndInv(Path, Up, n, m) ==
  /\ hand[n] # NoFrame => Past(Path, Up, {n}, hand[n].id)
  /\ \A l \in lost :
       l.node = m => /\ Past(Path, Up, {n}, l.id)
                     /\ hand[n] # NoFrame /\ hand[n].id = l.id => ~Awaits(n, m)

(* Only a push by n loses a frame at such an end.                          *)
LEMMA LostAtEnd ==
  ASSUME NEW Path \in SUBSET Nodes, MainPath(Path), FlowInv, FrameInv, PathInv(Path),
         TodoAreOutputs, [Next]_vars, NEW n \in Nodes, NEW m \in Nodes \ Path,
         Copies(n, m), NEW l \in lost', l.node = m, l \notin lost
  PROVE  SendToOutput(n) /\ Head(todo[n]) = m /\ l.id = hand[n].id
<1>1. Kind[m] \in {"logger", "counter"} /\ FedBy(n, m)
  <2>1. Kind[m] # "sender"
    BY DEF MainPath
  <2> QED
    BY <2>1, CountingKinds DEF Copies, Tallied, Counts
<1>2. CASE \A k \in Nodes : ~SendToOutput(k)
  <2>1. PICK k \in Nodes : k = m /\ (LetsGo(k) \/ SendFails(k))
    BY <1>2, LostGrows
  <2>2. Kind[k] \in {"tagger", "sender"}
    BY <2>1 DEF LetsGo, Filters, SendFails, FrameInv, Phases, Phase
  <2> QED
    BY <1>1, <2>1, <2>2
<1>3. ASSUME NEW k \in Nodes, SendToOutput(k)
      PROVE  SendToOutput(n) /\ Head(todo[n]) = m /\ l.id = hand[n].id
  <2>1. PICK f : f = hand[k]
    OBVIOUS
  <2>2. l = [id |-> f.id, node |-> Head(todo[k]), why |-> "push failed"]
    BY <1>3, <2>1 DEF SendToOutput
  <2>3. l.id = f.id /\ Head(todo[k]) = m
    BY <2>2
  <2>4. PICK i \in 1..Len(Outputs[k]) : Head(todo[k]) = Outputs[k][i]
    BY <1>3, PushedTodo, SMTT(20) DEF TodoAreOutputs
  <2>5. k = n
    BY <1>1, <2>3, <2>4 DEF FedBy
  <2> QED
    BY <1>3, <2>1, <2>3, <2>5
<1> QED
  BY <1>2, <1>3

(* A step leaves it so: the frame in n's buffer is not there again, and    *)
(* n goes on from the end that it was lost at to the next.                 *)
LEMMA EndKept ==
  ASSUME NEW Path \in SUBSET Nodes, MainPath(Path), FlowInv, FrameInv, PathInv(Path),
         TodoAreOutputs, TodoOnceEach, [Next]_vars,
         NEW Up \in SUBSET Nodes, NEW n \in Path, n \in Up, Cut(Up, {n}),
         NEW m \in Nodes \ Path, Copies(n, m), EndInv(Path, Up, n, m)
  PROVE  EndInv(Path, Up, n, m)'
<1>1. \A id \in Ids : Past(Path, Up, {n}, id) => Past(Path, Up, {n}, id)'
  BY StepOnward, PastKept
<1>2. ASSUME NEW x, hand[n] # NoFrame, hand[n].id = x
      PROVE  Past(Path, Up, {n}, x)'
  <2>1. Origin(hand[n], captured, PassesRaw(n)) /\ PassesRaw(n) \in BOOLEAN
    BY <1>2 DEF FrameInv, InHands, PassesRaw
  <2>2. x \in Ids
    BY <1>2, <2>1, OriginIsCaptured DEF Ids
  <2> QED
    BY <1>1, <1>2, <2>2 DEF EndInv
<1>3. \/ hand'[n] = NoFrame
      \/ hand'[n] = hand[n] /\ (todo'[n] = todo[n] \/ SendToOutput(n))
      \/ \E x : /\ hand'[n].id = x /\ Only(Path, x, <<"hand", n>>)'
                /\ InQueue(Path, n, x) \/ x = Len(captured) + 1
  BY HandAfter
<1>4. ASSUME NEW x, hand'[n] # NoFrame, hand'[n].id = x
      PROVE  Past(Path, Up, {n}, x)'
  <2>1. CASE hand'[n] = hand[n]
    BY <1>2, <1>4, <2>1
  <2>2. CASE Only(Path, x, <<"hand", n>>)'
    BY <2>2 DEF Only, Past
  <2> QED
    BY <1>3, <1>4, <2>1, <2>2
<1>5. ASSUME NEW l \in lost', l.node = m, NEW y, l.id = y
      PROVE  /\ Past(Path, Up, {n}, y)'
             /\ hand'[n] # NoFrame /\ hand'[n].id = y => ~Awaits(n, m)'
  <2>1. CASE l \in lost
    <3>1. y \in Ids /\ Past(Path, Up, {n}, y)
      BY <1>5, <2>1 DEF EndInv, FrameInv, LostAreCaptured
    <3>2. Past(Path, Up, {n}, y)'
      BY <1>1, <3>1
    <3>3. ASSUME hand'[n] # NoFrame, hand'[n].id = y PROVE ~Awaits(n, m)'
      <4>1. ~InQueue(Path, n, y) /\ y # Len(captured) + 1
        BY <3>1, LenProperties DEF Past, Ids, FrameInv, FrameTypes
      <4>2. hand'[n] = hand[n] /\ (todo'[n] = todo[n] \/ SendToOutput(n))
        BY <1>3, <3>3, <4>1
      <4>3. ~Awaits(n, m)
        BY <1>5, <2>1, <3>3, <4>2 DEF EndInv
      <4>4. CASE todo'[n] = todo[n]
        BY <4>3, <4>4 DEF Awaits
      <4>5. CASE SendToOutput(n)
        BY <4>3, <4>5, PushedIsDone DEF Copies, Tallied
      <4> QED
        BY <4>2, <4>4, <4>5
    <3> QED
      BY <3>2, <3>3
  <2>2. CASE l \notin lost
    <3>1. SendToOutput(n) /\ Head(todo[n]) = m /\ y = hand[n].id
      BY <1>5, <2>2, LostAtEnd
    <3>2. hand[n] # NoFrame
      BY <3>1 DEF SendToOutput, FrameInv, Phases, Phase
    <3>3. ~Awaits(n, m)'
      BY <3>1, PushedIsDone DEF Copies, Tallied
    <3> QED
      BY <1>2, <3>1, <3>2, <3>3
  <2> QED
    BY <2>1, <2>2
<1>6. hand'[n] # NoFrame => \A x : x = hand'[n].id => Past(Path, Up, {n}, x)'
  BY <1>4
<1>7. \A l \in lost' : l.node = m => \A y : y = l.id =>
        /\ Past(Path, Up, {n}, y)'
        /\ hand'[n] # NoFrame /\ hand'[n].id = y => ~Awaits(n, m)'
  BY <1>5
<1> QED
  BY <1>6, <1>7 DEF EndInv
-----------------------------------------------------------------------------
(* The invariant of the counts.                                            *)

(* A frame that was tagged is past the taggers' queues.                    *)
TaggedPast(Path) ==
  \A r \in tagged : r.node \in Path => Past(Path, RawNodes, Taggers, r.id)

(* Only a tagger's step adds a record.                                     *)
LEMMA TaggedGrows ==
  ASSUME FrameInv, [Next]_vars
  PROVE  UNCHANGED tagged \/ \E n \in Nodes : Tags(n)
<1>1. ASSUME NEW n \in Nodes, Process(n), ~Tags(n) PROVE UNCHANGED tagged
  <2>1. PassesOn(n) => UNCHANGED tagged
    BY DEF PassesOn, history
  <2>2. LetsGo(n) => UNCHANGED tagged
    BY DEF LetsGo
  <2>3. Fetches(n) => UNCHANGED tagged
    BY DEF Fetches, history
  <2>4. SendToOutput(n) \/ SendSucceeds(n) => UNCHANGED tagged
    BY DEF SendToOutput, SendSucceeds
  <2> QED
    BY <1>1, <2>1, <2>2, <2>3, <2>4, ProcessShape
<1>2. ASSUME NEW n \in Nodes, Receive(n) \/ SendFails(n) PROVE UNCHANGED tagged
  BY <1>2 DEF Receive, SendFails
<1>3. ASSUME Rests \/ UNCHANGED vars PROVE UNCHANGED tagged
  BY <1>3 DEF Rests, history, vars
<1> QED
  BY <1>1, <1>2, <1>3, OthersRest DEF Next

(* The record that a tagger adds.                                          *)
LEMMA NewRecord ==
  ASSUME NEW n \in Nodes, Tags(n)
  PROVE  \E r : tagged' = tagged \cup {r} /\ r.id = Head(queue[n]).id /\ r.node = n
<1>1. PICK r : r = [id |-> Head(queue[n]).id, node |-> n]
  OBVIOUS
<1>2. r.id = Head(queue[n]).id /\ r.node = n
  BY <1>1
<1> QED
  BY <1>1, <1>2 DEF Tags

(* A tagged frame does not come back to a tagger's queue.                  *)
LEMMA TaggedPastKept ==
  ASSUME NEW Path \in SUBSET Nodes, MainPath(Path), FlowInv, FrameInv, PathInv(Path),
         RecordInv(Path), [Next]_vars, TaggedPast(Path)
  PROVE  TaggedPast(Path)'
<1>1. \A id \in Ids : Past(Path, RawNodes, Taggers, id)
                        => Past(Path, RawNodes, Taggers, id)'
  BY StepOnward, PastKept, RawCut, RawWiring DEF RecordInv
<1>2. ASSUME NEW r \in tagged, r.node \in Path, NEW x, x = r.id
      PROVE  Past(Path, RawNodes, Taggers, x)'
  BY <1>1, <1>2 DEF TaggedPast, RecordInv, ByTaggers
<1>3. ASSUME NEW n \in Path, Tags(n), NEW x, x = Head(queue[n]).id
      PROVE  Past(Path, RawNodes, Taggers, x)'
  <2>1. Kind[n] = "tagger"
    BY <1>3 DEF Tags
  <2>2. n \in RawNodes /\ n \in Taggers
    BY <2>1, RawWiring DEF TaggedOnce, Taggers
  <2>3. TakenUp(Path, n, x)
    BY <1>3, TagsKeepsPath
  <2>4. Only(Path, x, <<"hand", n>>)'
    BY <1>3, <2>3 DEF TakenUp, Moves
  <2> QED
    BY <2>2, <2>4, RawWiring DEF Only, Past
<1>4. ASSUME NEW r \in tagged', r.node \in Path, NEW x, x = r.id
      PROVE  Past(Path, RawNodes, Taggers, x)'
  <2>1. CASE r \in tagged
    BY <1>2, <1>4, <2>1
  <2>2. CASE r \notin tagged
    <3>1. PICK n \in Nodes : Tags(n)
      BY <1>4, <2>2, TaggedGrows
    <3>2. r.id = Head(queue[n]).id /\ r.node = n
      BY <1>4, <2>2, <3>1, NewRecord
    <3> QED
      BY <1>3, <1>4, <3>1, <3>2
  <2> QED
    BY <2>1, <2>2
<1>5. \A r \in tagged' : r.node \in Path =>
        \A x : x = r.id => Past(Path, RawNodes, Taggers, x)'
  BY <1>4
<1> QED
  BY <1>5 DEF TaggedPast

(* What is let go or tagged stays finite.                                  *)
LEMMA StaysFinite ==
  ASSUME FrameInv, [Next]_vars, IsFiniteSet(lost), IsFiniteSet(tagged)
  PROVE  IsFiniteSet(lost)' /\ IsFiniteSet(tagged)'
<1>1. CASE \A n \in Nodes : ~SendToOutput(n)
  <2>1. UNCHANGED lost \/ \E gone : lost' = lost \cup {gone}
    BY <1>1, LostGrows
  <2>2. IsFiniteSet(lost')
    BY <2>1, FS_AddElement
  <2>3. IsFiniteSet(tagged')
    BY TaggedGrows, NewRecord, FS_AddElement
  <2> QED
    BY <2>2, <2>3
<1>2. ASSUME NEW n \in Nodes, SendToOutput(n)
      PROVE  IsFiniteSet(lost)' /\ IsFiniteSet(tagged)'
  <2>1. UNCHANGED tagged /\ (UNCHANGED lost \/ \E gone : lost' = lost \cup {gone})
    BY <1>2 DEF SendToOutput
  <2> QED
    BY <2>1, FS_AddElement
<1> QED
  BY <1>1, <1>2

(* So it is at all the ends beside the path to which nothing comes back.   *)
EndsInv(Path) ==
  \A Up \in SUBSET Nodes : \A n \in Path : \A m \in Nodes \ Path :
     n \in Up /\ Cut(Up, {n}) /\ Copies(n, m) => EndInv(Path, Up, n, m)

(* What the counts rest on: the histories are finite, and neither a push,  *)
(* nor a loss, nor a record is of a frame that was there before.           *)
TallyInv(Path) ==
  /\ IsFiniteSet(lost) /\ IsFiniteSet(tagged)
  /\ TodoOnceEach /\ TaggedPast(Path) /\ EndsInv(Path)

(* At first nothing is let go or tagged.                                   *)
LEMMA InitTally ==
  ASSUME NEW Path \in SUBSET Nodes, Init
  PROVE  TallyInv(Path)
<1>1. /\ lost = {} /\ tagged = {} /\ hand = [n \in Nodes |-> NoFrame]
      /\ todo = [n \in Nodes |-> <<>>] /\ Len(<<>>) = 0
  BY DEF Init
<1> QED
  BY <1>1, FS_EmptySet DEF TallyInv, TodoOnceEach, TaggedPast, EndsInv, EndInv

(* A step keeps the tally.                                                 *)
LEMMA NextKeepsTally ==
  ASSUME NEW Path \in SUBSET Nodes, MainPath(Path), FlowInv, FrameInv, PathInv(Path),
         RecordInv(Path), TallyInv(Path), [Next]_vars
  PROVE  TallyInv(Path)'
<1> USE DEF TallyInv
<1>1. IsFiniteSet(lost)' /\ IsFiniteSet(tagged)'
  BY StaysFinite
<1>2. TodoOnceEach'
  BY TodoStaysOnce
<1>3. TaggedPast(Path)'
  BY TaggedPastKept
<1>4. EndsInv(Path)'
  <2> SUFFICES ASSUME NEW Up \in SUBSET Nodes, NEW n \in Path, NEW m \in Nodes \ Path,
                      n \in Up, Cut(Up, {n}), Copies(n, m)
               PROVE  EndInv(Path, Up, n, m)'
    BY DEF EndsInv
  <2>1. EndInv(Path, Up, n, m)
    BY DEF EndsInv
  <2> QED
    BY <2>1, EndKept DEF RecordInv
<1> QED
  BY <1>1, <1>2, <1>3, <1>4

(* The outputs whose frames are followed: those on the path, and those     *)
(* beside it to which no frame can come back.                              *)
Followed(Path, n, m) ==
  /\ n \in Path /\ m \in Nodes /\ Copies(n, m)
  /\ m \in Path \/ \E Up \in SUBSET Nodes : n \in Up /\ Cut(Up, {n})

(* A push does not lose a frame where it was lost before.                  *)
LEMMA PushFresh ==
  ASSUME NEW Path \in SUBSET Nodes, MainPath(Path), FlowInv, FrameInv, PathInv(Path),
         TallyInv(Path), NEW n \in Nodes, NEW m \in Nodes, Followed(Path, n, m),
         SendToOutput(n), Head(todo[n]) = m
  PROVE  \A l \in lost : l.node = m => l.id # hand[n].id
<1>1. CASE m \in Path
  <2>1. PICK f \in Frames : f = hand[n] /\ f.id \in 1..Len(captured)
    BY PushParts
  <2>2. PushedTo(Path, n, m, f)
    BY <2>1, SendToOutputKeepsPath
  <2>3. Only(Path, f.id, <<"hand", n>>)
    BY <1>1, <2>2 DEF PushedTo, Moves
  <2>4. ~LostBy(Path, m, f.id)
    BY <2>3 DEF Only
  <2> QED
    BY <1>1, <2>1, <2>4 DEF LostBy
<1>2. CASE m \notin Path
  <2>1. PICK Up \in SUBSET Nodes : n \in Up /\ Cut(Up, {n})
    BY <1>2 DEF Followed
  <2>2. EndInv(Path, Up, n, m)
    BY <1>2, <2>1 DEF Followed, TallyInv, EndsInv
  <2>3. hand[n] # NoFrame
    BY DEF SendToOutput, FrameInv, Phases, Phase
  <2>4. Awaits(n, m)
    BY PushedIsDone DEF Followed, Copies, Tallied, TallyInv
  <2> QED
    BY <2>2, <2>3, <2>4 DEF EndInv
<1> QED
  BY <1>1, <1>2
-----------------------------------------------------------------------------
(* What has been offered, and what the counters say.                       *)
CopiesEven(Path) ==
  \A n, a, b \in Nodes :
     Followed(Path, n, a) /\ Followed(Path, n, b) => Total(n, a) = Total(n, b)
CounterEven(Path) ==
  \A c, s \in Nodes :
     Kind[c] = "counter" /\ Followed(Path, c, s)
       => ctx[c].total_packets = Total(c, s)
VlanOnly ==
  \A c \in Nodes \ RawNodes :
     Kind[c] = "counter" => /\ ctx[c].vlan_packets = ctx[c].total_packets
                            /\ ctx[c].non_vlan_packets = 0

(* A frame that n takes up counts for each output.                         *)
LEMMA TotalsGrow ==
  ASSUME NEW Path \in SUBSET Nodes, MainPath(Path), FlowInv, FrameInv, FrameInv',
         PathInv(Path), RecordInv(Path), TallyInv(Path), TallyInv(Path)', [Next]_vars,
         NEW n \in Nodes, NEW m \in Nodes, Followed(Path, n, m)
  PROVE  Total(n, m) \in Nat /\ Total(n, m)' = Total(n, m) + (IF Loads(n) THEN 1 ELSE 0)
<1>1. SendToOutput(n) /\ Head(todo[n]) = m => \A l \in lost : l.node = m => l.id # hand[n].id
  BY PushFresh
<1> QED
  BY <1>1, TotalGrows DEF Followed, TallyInv, RecordInv

(* So the outputs of a node stay even.                                     *)
LEMMA CopiesStayEven ==
  ASSUME NEW Path \in SUBSET Nodes, MainPath(Path), FlowInv, FrameInv, FrameInv',
         PathInv(Path), RecordInv(Path), TallyInv(Path), TallyInv(Path)', [Next]_vars,
         CopiesEven(Path)
  PROVE  CopiesEven(Path)'
<1> SUFFICES ASSUME NEW n \in Nodes, NEW a \in Nodes, NEW b \in Nodes,
                    Followed(Path, n, a), Followed(Path, n, b)
             PROVE  Total(n, a)' = Total(n, b)'
  BY DEF CopiesEven
<1>1. Total(n, a) = Total(n, b)
  BY DEF CopiesEven
<1> QED
  BY <1>1, TotalsGrow

(* A counter takes up a frame when it counts it.                           *)
LEMMA CounterLoads ==
  ASSUME FlowInv, FrameInv, [Next]_vars, NEW c \in Nodes, Kind[c] = "counter",
         Outputs[c] # <<>>
  PROVE  ctx'[c].total_packets = ctx[c].total_packets + (IF Loads(c) THEN 1 ELSE 0)
<1>0. /\ ctx[c].total_packets \in Nat
      /\ hand \in [Nodes -> Frames \cup {NoFrame}] /\ todo \in [Nodes -> Seq(Nodes)]
  BY DEF FrameInv, FrameTypes, CountersOK, Contexts
<1>1. CASE Count(c)
  <2>1. todo[c] = <<>> /\ todo'[c] = Outputs[c]
    BY <1>0, <1>1 DEF Count, Popped, Forward, FrameInv, Phases, Phase
  <2>2. Loads(c)
    BY <2>1 DEF Loads
  <2> QED
    BY <1>1, <2>2, CountStats
<1>2. CASE ~Count(c)
  <2>1. ctx'[c].total_packets = ctx[c].total_packets
    <3>1. CASE SendToOutput(c)
      BY <3>1, PushStats DEF FrameInv
    <3>2. CASE ~SendToOutput(c)
      <4>1. ~LogPacket(c)
        BY DEF LogPacket
      <4> QED
        BY <1>2, <3>2, <4>1, StatsKept DEF SameStats, FrameInv
    <3> QED
      BY <3>1, <3>2
  <2>2. ~Loads(c)
    <3> SUFFICES ASSUME todo[c] = <<>> PROVE todo'[c] = <<>>
      BY DEF Loads
    <3>1. ASSUME NEW n \in Nodes, n # c, \E ms : todo' = [todo EXCEPT ![n] = ms]
          PROVE  todo'[c] = <<>>
      BY <1>0, <3>1
    <3>2. ASSUME UNCHANGED todo PROVE todo'[c] = <<>>
      BY <3>2
    <3>3. ASSUME NEW n \in Nodes, Process(n) PROVE todo'[c] = <<>>
      <4>1. CASE n = c
        <5>1. pc[c] # "send" /\ pc[c] # "sendto"
          BY DEF FrameInv, Phases, Phase
        <5> QED
          BY <1>2, <3>3, <4>1, <5>1
             DEF Process, SendToOutput, Dispatch, Tag, Collect, LogPacket, SenderPop,
                 SendSucceeds
      <4>2. CASE n # c
        <5>1. PassesOn(n) \/ Tags(n) \/ SendToOutput(n)
                => \E ms : todo' = [todo EXCEPT ![n] = ms]
          BY DEF PassesOn, Tags, SendToOutput, Forward
        <5>2. LetsGo(n) \/ Fetches(n) \/ SendSucceeds(n) => UNCHANGED todo
          BY DEF LetsGo, LetGo, Fetches, SendSucceeds
        <5> QED
          BY <3>1, <3>2, <3>3, <4>2, <5>1, <5>2, ProcessShape
      <4> QED
        BY <4>1, <4>2
    <3>4. ASSUME NEW n \in Nodes, Receive(n) PROVE todo'[c] = <<>>
      <4>1. n # c /\ \E ms : todo' = [todo EXCEPT ![n] = ms]
        BY <3>4 DEF Receive, Forward, FrameInv, Phases, Phase, IsSource
      <4> QED
        BY <3>1, <4>1
    <3>5. ASSUME NEW n \in Nodes, SendFails(n) PROVE todo'[c] = <<>>
      BY <3>2, <3>5 DEF SendFails
    <3>6. CASE Rests \/ UNCHANGED vars
      BY <3>2, <3>6 DEF Rests, vars
    <3> QED
      BY <3>3, <3>4, <3>5, <3>6, OthersRest DEF Next
  <2> QED
    BY <1>0, <2>1, <2>2
<1> QED
  BY <1>1, <1>2

(* So what it has counted is what it has to offer.                         *)
LEMMA CounterStaysEven ==
  ASSUME NEW Path \in SUBSET Nodes, MainPath(Path), FlowInv, FrameInv, FrameInv',
         PathInv(Path), RecordInv(Path), TallyInv(Path), TallyInv(Path)', [Next]_vars,
         CounterEven(Path)
  PROVE  CounterEven(Path)'
<1> SUFFICES ASSUME NEW c \in Nodes, NEW s \in Nodes,
                    Kind[c] = "counter", Followed(Path, c, s)
             PROVE  ctx'[c].total_packets = Total(c, s)'
  BY DEF CounterEven
<1>1. ctx[c].total_packets = Total(c, s)
  BY DEF CounterEven
<1>2. Outputs[c] # <<>>
  BY EmptySeq DEF Followed, Copies
<1> QED
  BY <1>1, <1>2, TotalsGrow, CounterLoads

(* Behind the taggers a frame has a VLAN header.                           *)
LEMMA TaggedIsVlan ==
  ASSUME FrameInv, NEW n \in Nodes \ RawNodes, Popped(n)
  PROVE  is_vlan_packet(Head(queue[n]))
<1>1. 1 \in 1..Len(queue[n]) /\ Head(queue[n]) = queue[n][1]
  BY PopKeeps
<1>2. PICK f : f = Head(queue[n])
  OBVIOUS
<1>3. Tagged(f, captured)
  BY <1>1, <1>2 DEF FrameInv, InQueues, Origin
<1>4. PICK c \in Frames : TaggedByRule(f, c)
  <2>1. f.id \in 1..Len(captured) /\ captured \in Seq(Frames)
    BY <1>3 DEF Tagged, FrameInv, FrameTypes
  <2>2. captured[f.id] \in Frames
    BY <2>1, ElementOfSeq
  <2> QED
    BY <1>3, <2>2 DEF Tagged
<1>5. PICK k \in 1..Len(tag_rules) :
        f = [c EXCEPT !.tags = <<tag_rules[k].tag>>, !.size = @ + 4]
  BY <1>4 DEF TaggedByRule
<1>6. f.size = c.size + 4 /\ f.tags = <<tag_rules[k].tag>>
  BY <1>4, <1>5 DEF Frames
<1>7. c.size \in Nat /\ c.size >= 34
  BY <1>4 DEF TaggedByRule, Frames, ETH_HLEN, IP_HEADER_MIN_LEN
<1>8. f.tags # <<>>
  BY <1>6
<1> QED
  BY <1>2, <1>6, <1>7, <1>8 DEF is_vlan_packet, ether_type

(* So a counter there counts VLAN frames only.                             *)
LEMMA VlanStaysOnly ==
  ASSUME FrameInv, [Next]_vars, VlanOnly
  PROVE  VlanOnly'
<1> SUFFICES ASSUME NEW c \in Nodes \ RawNodes, Kind[c] = "counter"
             PROVE  /\ ctx'[c].vlan_packets = ctx'[c].total_packets
                    /\ ctx'[c].non_vlan_packets = 0
  BY DEF VlanOnly
<1>1. /\ ctx[c].vlan_packets = ctx[c].total_packets
      /\ ctx[c].non_vlan_packets = 0
  BY DEF VlanOnly
<1>2. CASE Count(c)
  <2>1. is_vlan_packet(Head(queue[c]))
    BY <1>2, TaggedIsVlan DEF Count
  <2> QED
    BY <1>1, <1>2, <2>1, CountStats
<1>3. CASE SendToOutput(c)
  BY <1>1, <1>3, PushStats DEF FrameInv
<1>4. CASE ~Count(c) /\ ~SendToOutput(c)
  <2>1. ~LogPacket(c)
    BY DEF LogPacket
  <2> QED
    BY <1>1, <1>4, <2>1, StatsKept DEF SameStats, FrameInv
<1> QED
  BY <1>2, <1>3, <1>4
-----------------------------------------------------------------------------
(* What a dispatcher has passed on: the frames that wait for its taggers,  *)
(* and those that these have tagged or let go.                             *)
Waiting(M) == {s \in Slots : s[1] \in M /\ s[2] <= Len(queue[s[1]])}
LetGoAt(M) == {l \in lost : l.node \in M /\ l.why # "push failed"}
TaggedAt(M) == {r \in tagged : r.node \in M}
Held(M) ==
  Cardinality(Waiting(M)) + Cardinality(LetGoAt(M)) + Cardinality(TaggedAt(M))

(* d is a dispatcher, and nobody else feeds its taggers.                   *)
FeedsTaggers(Path, d) ==
  /\ Kind[d] = "dispatcher"
  /\ \A m \in Fed(d) : m \in Path /\ Kind[m] = "tagger" /\ FedBy(d, m)

DispatchInv(Path) ==
  \A d \in Nodes : FeedsTaggers(Path, d) =>
    /\ IsFiniteSet(Waiting(Fed(d)))
    /\ ctx[d].packets_sent = Held(Fed(d))

(* A push to one of the queues.                                            *)
LEMMA WaitingGrows ==
  ASSUME FrameInv, NEW M \in SUBSET Nodes, IsFiniteSet(Waiting(M)),
         NEW m \in M, NEW f \in Frames, Len(queue[m]) < Q_SIZE,
         queue' = [queue EXCEPT ![m] = Append(@, f)]
  PROVE  /\ IsFiniteSet(Waiting(M)') /\ Cardinality(Waiting(M)) \in Nat
         /\ Cardinality(Waiting(M)') = Cardinality(Waiting(M)) + 1
<1> DEFINE S == Waiting(M)
           T == Waiting(M)'
           new == <<m, Len(queue[m]) + 1>>
<1>1. /\ Len(queue[m]) \in Nat /\ Len(queue'[m]) = Len(queue[m]) + 1
      /\ \A n \in Nodes : n # m => queue'[n] = queue[n]
  BY PushKeeps
<1>2. new \in Slots /\ new \notin S
  BY <1>1, FlowConstants DEF Slots, Waiting
<1>3. \A s : s \in T <=> s \in S \/ s = new
  <2>1. ASSUME NEW n \in Nodes, NEW i \in 1..Q_SIZE
        PROVE  <<n, i>> \in T <=> <<n, i>> \in S \/ <<n, i>> = new
    BY <1>1, <2>1 DEF Waiting, Slots
  <2>2. ASSUME NEW s, s \in Slots PROVE \E n \in Nodes, i \in 1..Q_SIZE : s = <<n, i>>
    BY <2>2 DEF Slots
  <2>3. \A s : s \in T \/ s \in S => s \in Slots
    BY DEF Waiting, Slots
  <2> QED
    BY <1>2, <2>1, <2>2, <2>3
<1> HIDE DEF S, T, new
<1>4. IsFiniteSet(S)
  BY DEF S
<1>5. /\ IsFiniteSet(T) /\ Cardinality(S) \in Nat
      /\ Cardinality(T) = Cardinality(S) + 1
  BY <1>2, <1>3, <1>4, OneMore
<1> QED
  BY <1>5 DEF S, T

(* A pop from one of the queues.                                           *)
LEMMA WaitingShrinks ==
  ASSUME FrameInv, NEW M \in SUBSET Nodes, IsFiniteSet(Waiting(M)),
         NEW m \in M, Popped(m)
  PROVE  /\ IsFiniteSet(Waiting(M)') /\ Cardinality(Waiting(M)) \in Nat
         /\ Cardinality(Waiting(M)') = Cardinality(Waiting(M)) - 1
<1> DEFINE S == Waiting(M)
           T == Waiting(M)'
           old == <<m, Len(queue[m])>>
<1>1. /\ Len(queue[m]) \in Nat /\ Len(queue[m]) >= 1
      /\ Len(queue'[m]) = Len(queue[m]) - 1 /\ Len(queue[m]) <= Q_SIZE
      /\ \A n \in Nodes : n # m => queue'[n] = queue[n]
  BY PopKeeps DEF FrameInv
<1>2. old \in S
  BY <1>1, FlowConstants DEF Slots, Waiting
<1>3. \A s : s \in T <=> s \in S /\ s # old
  <2>1. ASSUME NEW n \in Nodes, NEW i \in 1..Q_SIZE
        PROVE  <<n, i>> \in T <=> <<n, i>> \in S /\ <<n, i>> # old
    BY <1>1, <2>1 DEF Waiting, Slots
  <2>2. ASSUME NEW s, s \in Slots PROVE \E n \in Nodes, i \in 1..Q_SIZE : s = <<n, i>>
    BY <2>2 DEF Slots
  <2>3. \A s : s \in T \/ s \in S => s \in Slots
    BY DEF Waiting, Slots
  <2> QED
    BY <2>1, <2>2, <2>3
<1> HIDE DEF S, T, old
<1>4. IsFiniteSet(S)
  BY DEF S
<1>5. /\ IsFiniteSet(T) /\ Cardinality(S) \in Nat
      /\ Cardinality(T) = Cardinality(S) - 1
  BY <1>2, <1>3, <1>4, OneLess
<1> QED
  BY <1>5 DEF S, T

(* The same queues hold the same number of frames.                         *)
LEMMA WaitingSame ==
  ASSUME NEW M \in SUBSET Nodes, \A m \in M : queue'[m] = queue[m]
  PROVE  Waiting(M)' = Waiting(M)
BY DEF Waiting, Slots

(* A frame that is let go.                                                 *)
LEMMA LetGoGrows ==
  ASSUME IsFiniteSet(lost), NEW M, NEW gone, lost' = lost \cup {gone},
         gone.node \in M, gone.why # "push failed", gone \notin lost
  PROVE  /\ Cardinality(LetGoAt(M)) \in Nat
         /\ Cardinality(LetGoAt(M)') = Cardinality(LetGoAt(M)) + 1
<1>1. IsFiniteSet(LetGoAt(M))
  BY FS_Subset DEF LetGoAt
<1> DEFINE S == LetGoAt(M)
           T == LetGoAt(M)'
<1>2. gone \notin S /\ \A x : x \in T <=> x \in S \/ x = gone
  BY DEF LetGoAt
<1> HIDE DEF S, T
<1>3. IsFiniteSet(S)
  BY <1>1 DEF S
<1>4. Cardinality(S) \in Nat /\ Cardinality(T) = Cardinality(S) + 1
  BY ONLY <1>2, <1>3, OneMore
<1> QED
  BY <1>4 DEF S, T

(* One that is let go elsewhere, or because a queue was full.              *)
LEMMA LetGoSame ==
  ASSUME NEW M, UNCHANGED lost \/ \E gone : /\ lost' = lost \cup {gone}
                                            /\ gone.node \in M => gone.why = "push failed"
  PROVE  LetGoAt(M)' = LetGoAt(M)
BY DEF LetGoAt

(* A frame that is tagged.                                                 *)
LEMMA TaggedMore ==
  ASSUME IsFiniteSet(tagged), NEW M, NEW r, tagged' = tagged \cup {r},
         r.node \in M, r \notin tagged
  PROVE  /\ Cardinality(TaggedAt(M)) \in Nat
         /\ Cardinality(TaggedAt(M)') = Cardinality(TaggedAt(M)) + 1
<1>1. IsFiniteSet(TaggedAt(M))
  BY FS_Subset DEF TaggedAt
<1> DEFINE S == TaggedAt(M)
           T == TaggedAt(M)'
<1>2. r \notin S /\ \A x : x \in T <=> x \in S \/ x = r
  BY DEF TaggedAt
<1> HIDE DEF S, T
<1>3. IsFiniteSet(S)
  BY <1>1 DEF S
<1>4. Cardinality(S) \in Nat /\ Cardinality(T) = Cardinality(S) + 1
  BY ONLY <1>2, <1>3, OneMore
<1> QED
  BY <1>4 DEF S, T

(* One that is tagged elsewhere.                                           *)
LEMMA TaggedSame ==
  ASSUME NEW M, UNCHANGED tagged \/ \E r : tagged' = tagged \cup {r} /\ r.node \notin M
  PROVE  TaggedAt(M)' = TaggedAt(M)
BY DEF TaggedAt

(* All three are numbers.                                                  *)
LEMMA HeldTypes ==
  ASSUME NEW M, IsFiniteSet(Waiting(M)), IsFiniteSet(lost), IsFiniteSet(tagged)
  PROVE  /\ Cardinality(Waiting(M)) \in Nat /\ Cardinality(LetGoAt(M)) \in Nat
         /\ Cardinality(TaggedAt(M)) \in Nat
<1>1. IsFiniteSet(LetGoAt(M)) /\ IsFiniteSet(TaggedAt(M))
  BY FS_Subset DEF LetGoAt, TaggedAt
<1> QED
  BY <1>1, FS_CardinalityType

(* Without a push, a tagger's queue changes when it tags or lets go.       *)
LEMMA OnlyTaggersTake ==
  ASSUME FrameInv, [Next]_vars, \A n \in Nodes : ~SendToOutput(n),
         NEW m \in Nodes, Kind[m] = "tagger", queue'[m] # queue[m]
  PROVE  Popped(m) /\ (Tags(m) \/ LetsGo(m))
<1>1. ASSUME UNCHANGED queue PROVE FALSE
  BY <1>1
<1>2. ASSUME NEW n \in Nodes, Receive(n) \/ SendFails(n) PROVE FALSE
  BY <1>1, <1>2 DEF Receive, SendFails
<1>3. ~Rests /\ ~UNCHANGED vars
  BY <1>1 DEF Rests, vars
<1>4. PICK n \in Nodes : Process(n)
  BY <1>2, <1>3, OthersRest DEF Next
<1>5. ~SendSucceeds(n)
  BY <1>1 DEF SendSucceeds
<1>6. Popped(n)
  BY <1>4, <1>5, ProcessShape DEF PassesOn, Tags, LetsGo, Fetches
<1>7. n = m
  BY <1>6, PopKeeps
<1>8. ~PassesOn(m) /\ ~Fetches(m)
  BY DEF PassesOn, Targets, Fetches
<1> QED
  BY <1>4, <1>5, <1>6, <1>7, <1>8, ProcessShape

(* packets_sent is what the taggers hold, after every step.                *)
Even(d, M) == IsFiniteSet(Waiting(M)) /\ ctx[d].packets_sent = Held(M)

(* A step of a tagger moves a frame within what is held, a push of d adds  *)
(* one, a push to a full queue none.                                       *)
LEMMA DispatchStep ==
  ASSUME NEW Path \in SUBSET Nodes, MainPath(Path), FlowInv, FrameInv, PathInv(Path),
         RecordInv(Path), TallyInv(Path), [Next]_vars, NEW d \in Nodes,
         FeedsTaggers(Path, d), NEW M \in SUBSET Nodes, M = Fed(d), Even(d, M)
  PROVE  Even(d, M)'
<1>0. \A m \in M : m \in Path /\ Kind[m] = "tagger" /\ FedBy(d, m) /\ m \in RawNodes
  BY RawWiring DEF FeedsTaggers, TaggedOnce
<1>1. IsFiniteSet(Waiting(M)) /\ IsFiniteSet(lost) /\ IsFiniteSet(tagged)
  BY DEF Even, TallyInv
<1>2. PICK a \in Nat, b \in Nat, c \in Nat :
        /\ a = Cardinality(Waiting(M)) /\ b = Cardinality(LetGoAt(M))
        /\ c = Cardinality(TaggedAt(M)) /\ ctx[d].packets_sent = a + b + c
  BY <1>1, HeldTypes DEF Even, Held
<1> DEFINE Now(x, y, z, n) ==
             /\ IsFiniteSet(Waiting(M)') /\ Cardinality(Waiting(M)') = x
             /\ Cardinality(LetGoAt(M)') = y /\ Cardinality(TaggedAt(M)') = z
             /\ ctx'[d].packets_sent = n
<1>3. ASSUME NEW x, NEW y, NEW z, NEW n, Now(x, y, z, n), n = x + y + z
      PROVE  Even(d, M)'
  BY <1>3 DEF Even, Held
<1>4. CASE \A n \in Nodes : ~SendToOutput(n)
  <2>1. ctx'[d].packets_sent = a + b + c
    <3>1. ~Count(d) /\ ~LogPacket(d)
      BY DEF FeedsTaggers, Count, LogPacket
    <3> QED
      BY <1>2, <1>4, <3>1, StatsKept DEF SameStats, FrameInv
  <2>2. ASSUME NEW t \in M, Tags(t) PROVE Even(d, M)'
    <3>1. PICK r : tagged' = tagged \cup {r} /\ r.id = Head(queue[t]).id /\ r.node = t
      BY <2>2, NewRecord
    <3>2. PICK id : id = Head(queue[t]).id
      OBVIOUS
    <3>3. Popped(t) /\ UNCHANGED lost
      BY <2>2 DEF Tags
    <3>4. InQueue(Path, t, id)
      BY <1>0, <3>2, <3>3, PopWhere
    <3>5. r \notin tagged
      BY <1>0, <3>1, <3>2, <3>4 DEF TallyInv, TaggedPast, Past
    <3>6. IsFiniteSet(Waiting(M)') /\ Cardinality(Waiting(M)') = a - 1
      BY <1>1, <1>2, <3>3, WaitingShrinks
    <3>7. Cardinality(TaggedAt(M)') = c + 1
      BY <1>1, <1>2, <3>1, <3>5, TaggedMore
    <3>8. Cardinality(LetGoAt(M)') = b
      BY <1>2, <3>3, LetGoSame
    <3>9. Now(a - 1, b, c + 1, a + b + c) /\ a + b + c = (a - 1) + b + (c + 1)
      BY <2>1, <3>6, <3>7, <3>8
    <3> QED
      BY <1>3, <3>9
  <2>3. ASSUME NEW t \in M, LetsGo(t) PROVE Even(d, M)'
    <3>1. PICK f, why : f = Head(queue[t]) /\ Filters(t, f, why) /\ LetGo(t, f, why)
      BY <2>3 DEF LetsGo
    <3>2. PICK gone : gone = [id |-> f.id, node |-> t, why |-> why]
      OBVIOUS
    <3>3. gone.node = t /\ gone.id = f.id /\ gone.why = why /\ why # "push failed"
      BY <3>1, <3>2 DEF Filters
    <3>4. lost' = lost \cup {gone}
      BY <3>1, <3>2 DEF LetGo
    <3>5. Popped(t) /\ UNCHANGED tagged
      BY <2>3 DEF LetsGo
    <3>6. PICK id : id = Head(queue[t]).id /\ id = gone.id
      BY <3>1, <3>3
    <3>7. \A l \in lost : l.node = t => l.id # id
      BY <1>0, <2>3, <3>6, LostFresh
    <3>8. gone \notin lost
      BY <3>3, <3>6, <3>7
    <3>9. IsFiniteSet(Waiting(M)') /\ Cardinality(Waiting(M)') = a - 1
      BY <1>1, <1>2, <3>5, WaitingShrinks
    <3>10. Cardinality(LetGoAt(M)') = b + 1
      BY <1>1, <1>2, <3>3, <3>4, <3>8, LetGoGrows
    <3>11. Cardinality(TaggedAt(M)') = c
      BY <1>2, <3>5, TaggedSame
    <3>12. Now(a - 1, b + 1, c, a + b + c) /\ a + b + c = (a - 1) + (b + 1) + c
      BY <2>1, <3>9, <3>10, <3>11
    <3> QED
      BY <1>3, <3>12
  <2>4. CASE \A t \in M : ~Tags(t) /\ ~LetsGo(t)
    <3>1. Waiting(M)' = Waiting(M)
      BY <1>0, <1>4, <2>4, OnlyTaggersTake, WaitingSame
    <3>2. TaggedAt(M)' = TaggedAt(M)
      <4>1. ASSUME NEW n \in Nodes, Tags(n) PROVE TaggedAt(M)' = TaggedAt(M)
        BY <2>4, <4>1, NewRecord, TaggedSame
      <4> QED
        BY <4>1, TaggedGrows, TaggedSame
    <3>3. LetGoAt(M)' = LetGoAt(M)
      <4>1. ASSUME NEW n \in Nodes, NEW gone, lost' = lost \cup {gone}, gone.node = n,
                   LetsGo(n) \/ SendFails(n)
            PROVE  LetGoAt(M)' = LetGoAt(M)
        <5>1. SendFails(n) => Kind[n] = "sender"
          BY DEF SendFails, FrameInv, Phases, Phase
        <5>2. n \notin M
          BY <1>0, <2>4, <4>1, <5>1
        <5> QED
          BY <4>1, <5>2, LetGoSame
      <4> QED
        BY <1>4, <4>1, LostGrows, LetGoSame
    <3>4. Now(a, b, c, a + b + c)
      BY <1>1, <1>2, <2>1, <3>1, <3>2, <3>3
    <3> QED
      BY <1>3, <3>4
  <2> QED
    BY <2>2, <2>3, <2>4
<1>5. ASSUME NEW k \in Nodes, SendToOutput(k) PROVE Even(d, M)'
  <2>1. PICK f \in Frames, m \in Nodes :
          f = hand[k] /\ m = Head(todo[k]) /\ m = todo[k][1] /\ 1 \in 1..Len(todo[k])
    BY <1>5, PushParts
  <2>2. PICK i \in 1..Len(Outputs[k]) : m = Outputs[k][i]
    <3>1. TodoAreOutputs
      BY DEF RecordInv
    <3> QED
      BY ONLY <2>1, <3>1, k \in Nodes DEF TodoAreOutputs
  <2>3. m \in M <=> k = d
    BY <1>0, <2>2 DEF FedBy, Fed
  <2>4. PICK gone : gone = [id |-> f.id, node |-> m, why |-> "push failed"]
    OBVIOUS
  <2>5. gone.node = m /\ gone.why = "push failed"
    BY <2>4
  <2>6. /\ UNCHANGED tagged
        /\ \/ /\ Accepts(m, f) /\ UNCHANGED lost
              /\ queue' = [queue EXCEPT ![m] = Append(@, f)]
           \/ /\ ~Accepts(m, f) /\ UNCHANGED queue
              /\ lost' = lost \cup {gone}
    BY <1>5, <2>1, <2>4 DEF SendToOutput
  <2>7. Cardinality(TaggedAt(M)') = c /\ Cardinality(LetGoAt(M)') = b
    BY <1>2, <2>5, <2>6, TaggedSame, LetGoSame
  <2>8. CASE k = d /\ Accepts(m, f)
    <3>1. ctx'[d].packets_sent = a + b + c + 1
      BY <1>2, <1>5, <2>1, <2>8, PushStats DEF FrameInv, FeedsTaggers
    <3>2. queue' = [queue EXCEPT ![m] = Append(@, f)]
      BY <2>6, <2>8
    <3>3. IsFiniteSet(Waiting(M)') /\ Cardinality(Waiting(M)') = a + 1
      BY <1>1, <1>2, <2>3, <2>8, <3>2, WaitingGrows DEF Accepts
    <3>4. Now(a + 1, b, c, a + b + c + 1) /\ a + b + c + 1 = (a + 1) + b + c
      BY <2>7, <3>1, <3>3
    <3> QED
      BY <1>3, <3>4
  <2>9. CASE k # d \/ ~Accepts(m, f)
    <3>1. ctx'[d].packets_sent = a + b + c
      <4>1. CASE k = d
        BY <1>2, <1>5, <2>1, <2>9, <4>1, PushStats DEF FrameInv
      <4>2. CASE k # d
        BY <1>2, <1>5, <4>2, PushLeavesStats DEF SameStats, FrameInv
      <4> QED
        BY <4>1, <4>2
    <3>2. \A j \in M : queue'[j] = queue[j]
      <4>1. CASE UNCHANGED queue
        BY <4>1
      <4>2. CASE queue' = [queue EXCEPT ![m] = Append(@, f)] /\ Accepts(m, f)
        <5>1. m \notin M
          BY <2>3, <2>9, <4>2
        <5> QED
          BY <4>2, <5>1, PushKeeps
      <4> QED
        BY <2>6, <4>1, <4>2
    <3>3. Waiting(M)' = Waiting(M)
      BY <3>2, WaitingSame
    <3>4. Now(a, b, c, a + b + c)
      BY <1>1, <1>2, <2>7, <3>1, <3>3
    <3> QED
      BY <1>3, <3>4
  <2> QED
    BY <2>6, <2>8, <2>9
<1> QED
  BY <1>4, <1>5

(* For all dispatchers.                                                    *)
LEMMA DispatchStays ==
  ASSUME NEW Path \in SUBSET Nodes, MainPath(Path), FlowInv, FrameInv, PathInv(Path),
         RecordInv(Path), TallyInv(Path), [Next]_vars, DispatchInv(Path)
  PROVE  DispatchInv(Path)'
<1> SUFFICES ASSUME NEW d \in Nodes, FeedsTaggers(Path, d)
             PROVE  Even(d, Fed(d))'
  BY DEF DispatchInv, Even, FeedsTaggers, Fed
<1>1. PICK M \in SUBSET Nodes : M = Fed(d)
  BY OutputsAreNodes DEF Fed
<1>2. Even(d, M)
  BY <1>1 DEF DispatchInv, Even
<1>3. Even(d, M)'
  BY <1>1, <1>2, DispatchStep
<1> QED
  BY <1>1, <1>3 DEF Even, Held, Waiting, LetGoAt, TaggedAt, Fed

(* The invariant of the counts.                                            *)
CountInv(Path) ==
  /\ TallyInv(Path) /\ DispatchInv(Path)
  /\ CopiesEven(Path) /\ CounterEven(Path) /\ VlanOnly

(* Everything is counted from zero.                                        *)
LEMMA InitCounts ==
  ASSUME NEW Path \in SUBSET Nodes, Init
  PROVE  CountInv(Path)
<1>0. /\ lost = {} /\ tagged = {} /\ sent = <<>> /\ Len(<<>>) = 0
      /\ \A n \in Nodes : /\ hand[n] = NoFrame /\ todo[n] = <<>> /\ queue[n] = <<>>
                          /\ ctx[n].packets_sent = 0 /\ ctx[n].packet_count = 0
                          /\ ctx[n].total_packets = 0 /\ ctx[n].vlan_packets = 0
                          /\ ctx[n].non_vlan_packets = 0
  BY DEF Init
<1>1. TallyInv(Path)
  BY InitTally
<1>2. ASSUME NEW n \in Nodes, NEW m \in Nodes PROVE Total(n, m) = 0 \/ ~Copies(n, m)
  <2>1. LostAt(m) = 0
    BY <1>0, NoElement DEF LostAt
  <2>2. Due(n, m) = 0
    BY <1>0, NoElement DEF Due
  <2>3. Counts(m) => Offered(m) = 0
    BY <1>0, <2>1, CountingKinds DEF Offered, Busy
  <2> QED
    BY <2>2, <2>3 DEF Total, Copies, Tallied, Counts
<1>3. CopiesEven(Path) /\ CounterEven(Path) /\ VlanOnly
  BY <1>0, <1>2 DEF CopiesEven, CounterEven, VlanOnly, Followed
<1>4. ASSUME NEW d \in Nodes PROVE Even(d, Fed(d))
  <2>1. PICK M \in SUBSET Nodes : M = Fed(d)
    BY OutputsAreNodes DEF Fed
  <2>2. Waiting(M) = {} /\ LetGoAt(M) = {} /\ TaggedAt(M) = {}
    BY <1>0 DEF Waiting, LetGoAt, TaggedAt, Slots
  <2>3. Held(M) = 0
    BY <2>2, FS_EmptySet DEF Held
  <2> QED
    BY <1>0, <2>1, <2>2, <2>3, FS_EmptySet DEF Even
<1> QED
  BY <1>1, <1>3, <1>4 DEF CountInv, DispatchInv, Even

(* A step keeps all of the counts.                                         *)
LEMMA NextKeepsCounts ==
  ASSUME NEW Path \in SUBSET Nodes, MainPath(Path), FlowInv, FrameInv, FrameInv',
         PathInv(Path), RecordInv(Path), CountInv(Path), [Next]_vars
  PROVE  CountInv(Path)'
<1>1. TallyInv(Path)'
  BY NextKeepsTally DEF CountInv
<1>2. DispatchInv(Path)'
  BY DispatchStays DEF CountInv
<1>3. CopiesEven(Path)'
  BY <1>1, CopiesStayEven DEF CountInv
<1>4. CounterEven(Path)'
  BY <1>1, CounterStaysEven DEF CountInv
<1>5. VlanOnly'
  BY VlanStaysOnly DEF CountInv
<1> QED
  BY <1>1, <1>2, <1>3, <1>4, <1>5 DEF CountInv

(* The invariant of the counts: each frame is counted where it went.       *)
THEOREM CountInvariant ==
  ASSUME NEW Path \in SUBSET Nodes, MainPath(Path)
  PROVE  Spec => []CountInv(Path)
<1>1. Init => CountInv(Path)
  BY InitCounts
<1>2. FlowInv /\ FrameInv /\ FrameInv' /\ PathInv(Path) /\ OrderInv(Path)
        /\ CountInv(Path) /\ [Next]_vars => CountInv(Path)'
  BY NextKeepsCounts DEF OrderInv
<1>3. Spec => []PathInv(Path) /\ []OrderInv(Path)
  BY PathInvariant, OrderInvariant
<1> QED
  BY <1>1, <1>2, <1>3, FlowInvariant, FrameInvariant, PTL DEF Spec

(* What a counter has in its buffer is still to be offered to its output.  *)
LEMMA BusyIsDue ==
  ASSUME NEW Path \in SUBSET Nodes, FrameInv, TodoAreOutputs, TodoOnceEach,
         NEW c \in Nodes, NEW s, FedBy(c, s), Kind[c] # "sender",
         Len(Outputs[c]) = 1, s = Outputs[c][1]
  PROVE  Due(c, s) = Busy(c)
<1>1. hand[c] # NoFrame <=> todo[c] # <<>>
  BY DEF FrameInv, Phases, Phase
<1>2. todo[c] \in Seq(Nodes) /\ Len(<<>>) = 0
  BY EmptySeq DEF FrameInv, FrameTypes
<1>3. todo[c] # <<>> => 1 \in 1..Len(todo[c])
  BY <1>2, LenProperties
<1>4. 1 \in 1..Len(todo[c]) => todo[c][1] = s
  BY DEF TodoAreOutputs
<1>5. Awaits(c, s) <=> todo[c] # <<>>
  BY <1>2, <1>3, <1>4 DEF Awaits
<1> QED
  BY <1>1, <1>5, DueIs DEF Busy

(* StatsAgree: whatever the pipeline, its traffic and its failures,        *)
(* packets_sent of a dispatcher is the number of frames its taggers hold,  *)
(* have tagged or have let go; the packet counter before the sender has    *)
(* counted the frames at or behind it, and none without a VLAN header.     *)
THEOREM StatsAgreeHolds == Spec => []StatsAgree
<1>1. PICK Path \in SUBSET Nodes :
        /\ MainPath(Path)
        /\ \A n \in Nodes : \A i \in 1..Len(Outputs[n]) :
             /\ Kind[n] = "dispatcher" =>
                  /\ n \in Path /\ Kind[Outputs[n][i]] = "tagger"
                  /\ FedBy(n, Outputs[n][i])
             /\ Kind[n] = "counter" /\ Len(Outputs[n]) = 1 =>
                  Kind[Outputs[n][i]] = "sender" /\ Tallied(n, Outputs[n][i])
  BY CountAssumption DEF CountAssumption
<1>2. Spec => []OrderInv(Path) /\ []CountInv(Path)
  BY <1>1, OrderInvariant, CountInvariant
<1>3. ASSUME FrameInv, OrderInv(Path), CountInv(Path) PROVE StatsAgree
  <2>1. ASSUME NEW d \in Nodes, Kind[d] = "dispatcher"
        PROVE  ctx[d].packets_sent = Held(Fed(d))
    <3>1. FeedsTaggers(Path, d)
      BY <1>1, <2>1 DEF FeedsTaggers, Fed, MainPath
    <3> QED
      BY <1>3, <3>1 DEF CountInv, DispatchInv
  <2>2. ASSUME NEW c \in Nodes, Kind[c] = "counter", Len(Outputs[c]) = 1,
               NEW s, s = Outputs[c][1]
        PROVE  /\ ctx[c].total_packets =
                    Busy(c) + Len(queue[s]) + Busy(s) + LostAt(s) + Len(sent)
               /\ ctx[c].vlan_packets = ctx[c].total_packets
               /\ ctx[c].non_vlan_packets = 0
    <3>1. 1 \in 1..Len(Outputs[c]) /\ s \in Nodes /\ Kind[s] = "sender" /\ Tallied(c, s)
      BY <1>1, <2>2, OutputsAreNodes
    <3>2. s \in Path /\ c \in Path
      BY <1>1, <2>2, <3>1 DEF MainPath
    <3>3. Followed(Path, c, s)
      BY <2>2, <3>1, <3>2 DEF Followed, Copies
    <3>4. ctx[c].total_packets = Offered(s) + Due(c, s)
      BY <1>3, <2>2, <3>1, <3>3 DEF CountInv, CounterEven, Total
    <3>5. Due(c, s) = Busy(c)
      BY <1>3, <2>2, <3>1, BusyIsDue
         DEF Tallied, OrderInv, RecordInv, CountInv, TallyInv
    <3>6. Offered(s) = Len(queue[s]) + LostAt(s) + (Busy(s) + Len(sent))
      BY <3>1 DEF Offered
    <3>7. /\ Len(queue[s]) \in Nat /\ LostAt(s) \in Nat /\ Busy(s) \in Nat
          /\ Len(sent) \in Nat /\ Busy(c) \in Nat
      BY <1>3, <3>1, OfferedTypes DEF CountInv, TallyInv, Busy
    <3>8. c \in Nodes \ RawNodes
      BY <2>2, <3>1, RawWiring DEF TaggedOnce
    <3>9. /\ ctx[c].vlan_packets = ctx[c].total_packets
          /\ ctx[c].non_vlan_packets = 0
      BY <1>3, <2>2, <3>8 DEF CountInv, VlanOnly
    <3>10. ctx[c].total_packets =
             Busy(c) + Len(queue[s]) + Busy(s) + LostAt(s) + Len(sent)
      BY <3>4, <3>5, <3>6, <3>7
    <3> QED
      BY <3>9, <3>10
  <2>3. ASSUME NEW d \in Nodes
        PROVE  Waiting(Fed(d)) =
                 {s \in Fed(d) \X (1..Q_SIZE) : s[2] <= Len(queue[s[1]])}
    <3>1. Fed(d) \subseteq Nodes
      BY OutputsAreNodes DEF Fed
    <3> QED
      BY <3>1 DEF Waiting, Slots
  <2> QED
    BY <2>1, <2>2, <2>3 DEF StatsAgree, Held, LetGoAt, TaggedAt
<1> QED
  BY <1>2, <1>3, FrameInvariant, PTL

(* CopiesAgree: a node with several ends has offered each of them the same *)
(* number of frames, those it still has to push included, also when their  *)
(* queues are full.                                                        *)
THEOREM CopiesAgreeHolds == Spec => []CopiesAgree
<1>1. PICK Path \in SUBSET Nodes :
        /\ MainPath(Path)
        /\ \A n \in Nodes : \A i \in 1..Len(Outputs[n]) :
             Kind[n] # "dispatcher" /\ i \in EndsOf(n) /\ EndsOf(n) # {i} =>
               /\ n \in Path /\ Tallied(n, Outputs[n][i])
               /\ \E Up \in SUBSET Nodes : n \in Up /\ Cut(Up, {n})
  BY CountAssumption DEF CountAssumption
<1>2. Spec => []CountInv(Path)
  BY <1>1, CountInvariant
<1>3. ASSUME CountInv(Path) PROVE CopiesAgree
  <2>1. ASSUME NEW n \in Nodes, Kind[n] # "dispatcher",
               NEW i \in EndsOf(n), NEW j \in EndsOf(n), i # j
        PROVE  Followed(Path, n, Outputs[n][i])
    <3>1. i \in 1..Len(Outputs[n]) /\ EndsOf(n) # {i}
      BY <2>1 DEF EndsOf
    <3>2. Outputs[n][i] \in Nodes
      BY <3>1, OutputsAreNodes
    <3> QED
      BY <1>1, <2>1, <3>1, <3>2 DEF Followed, Copies
  <2> SUFFICES ASSUME NEW n \in Nodes, Kind[n] # "dispatcher",
                      NEW i \in EndsOf(n), NEW j \in EndsOf(n)
               PROVE  Total(n, Outputs[n][i]) = Total(n, Outputs[n][j])
    BY DEF CopiesAgree, Total
  <2>2. CASE i = j
    BY <2>2
  <2>3. CASE i # j
    <3>1. /\ Outputs[n][i] \in Nodes /\ Followed(Path, n, Outputs[n][i])
          /\ Outputs[n][j] \in Nodes /\ Followed(Path, n, Outputs[n][j])
      BY <2>1, <2>3, OutputsAreNodes DEF EndsOf
    <3> QED
      BY <1>3, <3>1 DEF CountInv, CopiesEven
  <2> QED
    BY <2>2, <2>3
<1> QED
  BY <1>2, <1>3, PTL
=============================================================================
