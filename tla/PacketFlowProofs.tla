-------------------------- MODULE PacketFlowProofs --------------------------
(***************************************************************************)
(* Proofs about PacketFlow, for every number of frames, errors and stops   *)
(* and every capacity: how nodes react to should_exit and when a thread    *)
(* ends, for every wiring; and, for every wiring in which a frame meets    *)
(* exactly one tagger on its way and every set of valid rules, that what a *)
(* node holds is a frame as it was captured, or with exactly one VLAN      *)
(* header, the right one.                                                  *)
(***************************************************************************)
EXTENDS PacketFlow, TagRulesProofs, SequenceTheorems, TLAPS

Steps == {"new", "recv", "pop", "send", "sendto", "done"}

(* The types of what the invariant speaks about.                           *)
ControlTypes ==
  /\ started \in 0..Len(Order)
  /\ should_exit \in BOOLEAN
  /\ popErrors \in Nat
  /\ pc \in [Nodes -> Steps]
  /\ late \in [Nodes -> Nat]

(* pipeline_start has not reached the last nodes.                          *)
NotStartedYet ==
  \A i \in 1..Len(Order) : i > started => pc[Order[i]] = "new"

(* A node that has not taken its late frame, or has not passed it on yet.  *)
LateFrames ==
  \A n \in Nodes :
    /\ ~should_exit => late[n] = 0
    /\ pc[n] \in {"new", "recv", "pop"} => late[n] = 0
    /\ late[n] <= 1

(* Why a thread has ended.                                                 *)
EndedForAReason ==
  \A n \in Nodes : pc[n] = "done" => should_exit \/ popErrors > 0 \/ ~Wired(n)

FlowInv == ControlTypes /\ NotStartedYet /\ LateFrames /\ EndedForAReason
-----------------------------------------------------------------------------
(* What the nodes' actions do to the variables of the invariant.           *)

(* n takes a frame and passes it on, or lets it go.                        *)
Takes(n) ==
  /\ pc[n] \in {"recv", "pop"}
  /\ late' = [late EXCEPT ![n] = IF should_exit THEN @ + 1 ELSE @]
  /\ UNCHANGED <<started, should_exit, popErrors>>
  /\ Goto(n, "send") \/ Goto(n, "sendto") \/ Again(n)

(* n goes on with its frame, begins a new iteration, or ends.              *)
GoesOn(n) ==
  /\ pc[n] \in {"recv", "pop", "send", "sendto"}
  /\ UNCHANGED <<started, late>>
  /\ popErrors' \in Nat /\ popErrors' >= popErrors
  /\ \/ pc[n] = "send" /\ Goto(n, "send") /\ UNCHANGED should_exit
     \/ Again(n) /\ UNCHANGED should_exit
     \/ Goto(n, "done") /\ should_exit' = TRUE
     \/ Goto(n, "done") /\ UNCHANGED should_exit /\ popErrors' > 0

(* Two nodes of the pipeline at different places are different.            *)
LEMMA OrderLemma ==
  /\ Len(Order) \in Nat
  /\ \A i \in 1..Len(Order) : Order[i] \in Nodes
  /\ \A i, j \in 1..Len(Order) : Order[i] = Order[j] => i = j
  /\ \A n \in Nodes : \E i \in 1..Len(Order) : n = Order[i]
BY FlowAssumption DEF FlowAssumption, Nodes

(* A node that takes a frame keeps the invariant: before should_exit it is *)
(* not late, and afterwards it ends when it has passed the frame on.       *)
LEMMA TakesKeeps ==
  ASSUME NEW n \in Nodes, FlowInv, Takes(n)
  PROVE  FlowInv'
<1> USE DEF FlowInv, ControlTypes, Steps
<1>1. ControlTypes'
  BY DEF Takes, Goto, Again
<1>2. NotStartedYet'
  BY OrderLemma DEF NotStartedYet, Takes, Goto, Again
<1>3. LateFrames'
  BY DEF LateFrames, Takes, Goto, Again
<1>4. EndedForAReason'
  BY DEF EndedForAReason, Takes, Goto, Again, Wired
<1> QED
  BY <1>1, <1>2, <1>3, <1>4

(* The same for the steps that take nothing.                               *)
LEMMA GoesOnKeeps ==
  ASSUME NEW n \in Nodes, FlowInv, GoesOn(n)
  PROVE  FlowInv'
<1> USE DEF FlowInv, ControlTypes, Steps
<1>1. ControlTypes'
  BY DEF GoesOn, Goto, Again
<1>2. NotStartedYet'
  BY OrderLemma DEF NotStartedYet, GoesOn, Goto, Again
<1>3. LateFrames'
  BY DEF LateFrames, GoesOn, Goto, Again
<1>4. EndedForAReason'
  BY DEF EndedForAReason, GoesOn, Goto, Again, Wired
<1> QED
  BY <1>1, <1>2, <1>3, <1>4
-----------------------------------------------------------------------------
(* Forwarding a frame that has just been taken.                            *)
LEMMA ForwardGoes ==
  ASSUME NEW n \in Nodes, NEW f, NEW targets, Forward(n, f, targets)
  PROVE  Goto(n, "send") \/ Again(n)
BY DEF Forward

(* Each action of a node takes a frame, or goes on with the one it has.    *)
LEMMA ProcessIsStep ==
  ASSUME NEW n \in Nodes, FlowInv, Process(n)
  PROVE  Takes(n) \/ GoesOn(n)
<1> USE DEF control, bounds
<1>1. ASSUME SendToOutput(n) PROVE GoesOn(n)
  <2>1. pc[n] = "send" /\ UNCHANGED <<control, bounds, late>>
    BY <1>1, Zenon DEF SendToOutput
  <2>2. Goto(n, "send") \/ Again(n)
    BY <1>1, ForwardGoes, Zenon DEF SendToOutput
  <2> QED
    BY <2>1, <2>2 DEF GoesOn, FlowInv, ControlTypes
<1>2. ASSUME Dispatch(n) PROVE Takes(n)
  <2>1. \E f, targets : Forward(n, f, targets)
    BY <1>2, Zenon DEF Dispatch
  <2>2. Popped(n) /\ UNCHANGED <<started, should_exit, popErrors>>
    BY <1>2 DEF Dispatch
  <2> QED
    BY <2>1, <2>2, ForwardGoes DEF Popped, Takes
<1>3. ASSUME Tag(n) PROVE Takes(n)
  BY <1>3, ForwardGoes DEF Tag, Popped, LetGo, Takes
<1>4. ASSUME Count(n) PROVE Takes(n)
  BY <1>4, ForwardGoes DEF Count, Popped, Takes
<1>5. ASSUME Collect(n) PROVE Takes(n)
  BY <1>5, ForwardGoes DEF Collect, Popped, Takes
<1>6. ASSUME LogPacket(n) PROVE Takes(n)
  BY <1>6, ForwardGoes DEF LogPacket, Popped, Takes
<1>7. ASSUME SenderPop(n) PROVE Takes(n)
  BY <1>7 DEF SenderPop, Popped, LetGo, Takes
<1>8. ASSUME SendSucceeds(n) PROVE GoesOn(n)
  BY <1>8 DEF SendSucceeds, GoesOn, FlowInv, ControlTypes
<1> QED
  BY <1>1, <1>2, <1>3, <1>4, <1>5, <1>6, <1>7, <1>8 DEF Process

(* The same for what comes from outside: frames, errors, the flag.         *)
LEMMA EventIsStep ==
  ASSUME NEW n \in Nodes, FlowInv,
         \/ Receive(n) \/ ReceiveFails(n) \/ SendFails(n)
         \/ PopFails(n) \/ LeaveLoop(n)
  PROVE  Takes(n) \/ GoesOn(n)
<1> USE DEF control, bounds, FlowInv, ControlTypes
<1>1. ASSUME Receive(n) PROVE Takes(n)
  BY <1>1, ForwardGoes DEF Receive, Takes
<1>2. ASSUME ReceiveFails(n) PROVE GoesOn(n)
  BY <1>2 DEF ReceiveFails, GoesOn
<1>3. ASSUME SendFails(n) PROVE GoesOn(n)
  BY <1>3 DEF SendFails, GoesOn
<1>4. ASSUME PopFails(n) PROVE GoesOn(n)
  BY <1>4 DEF PopFails, GoesOn
<1>5. ASSUME LeaveLoop(n) PROVE GoesOn(n)
  BY <1>5 DEF LeaveLoop, GoesOn
<1> QED
  BY <1>1, <1>2, <1>3, <1>4, <1>5

(* Starting a node lets it look at the flag; it has taken nothing yet.     *)
LEMMA StartKeeps ==
  ASSUME FlowInv, StartNode
  PROVE  FlowInv'
<1> DEFINE n == Order[started']
<1> USE DEF FlowInv, ControlTypes, Steps
<1>1. /\ started' = started + 1 /\ started' \in 1..Len(Order)
      /\ n \in Nodes /\ pc[n] = "new" /\ Again(n)
      /\ UNCHANGED <<should_exit, popErrors, late>>
  BY OrderLemma DEF StartNode, NotStartedYet, bounds
<1> HIDE DEF n
<1>2. ControlTypes'
  BY <1>1, OrderLemma DEF Goto, Again
<1>3. NotStartedYet'
  <2> SUFFICES ASSUME NEW i \in 1..Len(Order), i > started'
               PROVE  pc'[Order[i]] = "new"
    BY DEF NotStartedYet
  <2>1. Order[i] # n
    BY <1>1, OrderLemma DEF n
  <2>2. pc[Order[i]] = "new"
    BY <1>1 DEF NotStartedYet
  <2> QED
    BY <1>1, <2>1, <2>2, OrderLemma DEF Goto, Again
<1>4. LateFrames'
  BY <1>1 DEF LateFrames, Goto, Again
<1>5. EndedForAReason'
  BY <1>1 DEF EndedForAReason, Goto, Again, Wired
<1> QED
  BY <1>2, <1>3, <1>4, <1>5

(* pipeline_stop and its joins only set the flag.                          *)
LEMMA StopKeeps ==
  ASSUME FlowInv, StopPipeline \/ JoinNode
  PROVE  FlowInv'
<1>1. should_exit' = TRUE /\ UNCHANGED <<started, popErrors, pc, late>>
  BY DEF StopPipeline, JoinNode, bounds
<1> QED
  BY <1>1 DEF FlowInv, ControlTypes, NotStartedYet, LateFrames, EndedForAReason,
              Wired

(* The inductive invariant of should_exit: who may be late, and why        *)
(* threads end.                                                            *)
THEOREM FlowInvariant == Spec => []FlowInv
<1>1. Init => FlowInv
  <2> SUFFICES ASSUME Init PROVE FlowInv
    OBVIOUS
  <2>1. /\ started = 0 /\ should_exit = FALSE /\ popErrors = 0
        /\ pc = [n \in Nodes |-> "new"] /\ late = [n \in Nodes |-> 0]
    BY Zenon DEF Init
  <2>2. ControlTypes
    <3>1. Len(Order) \in Nat
      BY OrderLemma
    <3>2. started \in 0..Len(Order) /\ popErrors \in Nat
      BY <2>1, <3>1
    <3> QED
      BY <2>1, <3>2 DEF ControlTypes, Steps
  <2>3. NotStartedYet /\ LateFrames /\ EndedForAReason
    BY <2>1, OrderLemma DEF NotStartedYet, LateFrames, EndedForAReason
  <2> QED
    BY <2>2, <2>3 DEF FlowInv
<1>2. FlowInv /\ [Next]_vars => FlowInv'
  <2> SUFFICES ASSUME FlowInv, [Next]_vars PROVE FlowInv'
    OBVIOUS
  <2>1. CASE StartNode
    BY <2>1, StartKeeps
  <2>2. CASE StopPipeline \/ JoinNode
    BY <2>2, StopKeeps
  <2>3. ASSUME NEW n \in Nodes, Process(n) PROVE FlowInv'
    BY <2>3, ProcessIsStep, TakesKeeps, GoesOnKeeps
  <2>4. ASSUME NEW n \in Nodes,
               \/ Receive(n) \/ ReceiveFails(n) \/ SendFails(n)
               \/ PopFails(n) \/ LeaveLoop(n)
        PROVE FlowInv'
    BY <2>4, EventIsStep, TakesKeeps, GoesOnKeeps
  <2>5. CASE UNCHANGED vars
    BY <2>5 DEF vars, FlowInv, ControlTypes, NotStartedYet, LateFrames,
                EndedForAReason, Wired
  <2> QED
    BY <2>1, <2>2, <2>3, <2>4, <2>5 DEF Next
<1> QED
  BY <1>1, <1>2, PTL DEF Spec

(* AtMostOneLate: after should_exit is set, no node takes more than one    *)
(* further frame, in any pipeline and at any moment of the stop.           *)
THEOREM AtMostOneLateHolds == Spec => []AtMostOneLate
<1>1. FlowInv => AtMostOneLate
  BY DEF FlowInv, LateFrames, AtMostOneLate
<1> QED
  BY <1>1, FlowInvariant, PTL

(* EndedMeansStopping: in a pipeline in which every node is connected, and *)
(* as long as pthread_cond_wait does not fail, no thread ends before       *)
(* should_exit is set, whatever recvfrom and sendto return.                *)
THEOREM EndedMeansStoppingHolds ==
  ASSUME \A n \in Nodes : Wired(n)
  PROVE  Spec /\ [](popErrors = 0) => []EndedMeansStopping
<1>1. FlowInv /\ popErrors = 0 => EndedMeansStopping
  BY DEF FlowInv, EndedForAReason, EndedMeansStopping
<1> QED
  BY <1>1, FlowInvariant, PTL

-----------------------------------------------------------------------------
(* The frames.                                                             *)

Frames == [id : Nat, size : Nat, tags : Seq(Nat), type : Nat, dst : Nat]
Contexts == [err_counter : 0..MAX_ERR_NUM, next_index : Nat,
             packets_sent : Nat, packet_count : Nat,
             total_packets : Nat, total_bytes : Nat,
             vlan_packets : Nat, non_vlan_packets : Nat]

(* The nodes up to the taggers, and those that pass on what they got raw.  *)
RawNodes == CHOOSE Raw \in SUBSET Nodes : TaggedOnce(Raw)
PassesRaw(n) == n \in RawNodes /\ Kind[n] # "tagger"

FrameTypes ==
  /\ hand \in [Nodes -> Frames \cup {NoFrame}]
  /\ todo \in [Nodes -> Seq(Nodes)]
  /\ queue \in [Nodes -> Seq(Frames)]
  /\ captured \in Seq(Frames)
  /\ sent \in Seq(Frames)

(* What a node is at says what it holds, and that it is connected.         *)
Phase(n) ==
  /\ hand[n] # NoFrame <=> pc[n] \in {"send", "sendto"}
  /\ todo[n] # <<>> <=> pc[n] = "send"
  /\ pc[n] = "sendto" => Kind[n] = "sender"
  /\ pc[n] = "recv" => IsSource(n)
  /\ pc[n] = "pop" => ~IsSource(n)
  /\ pc[n] \in {"recv", "pop"} => Wired(n)
Phases == \A n \in Nodes : Phase(n)

(* The captured frames, in the order they came.                            *)
CapturedInOrder ==
  \A i \in 1..Len(captured) :
    /\ captured[i].id = i
    /\ captured[i].size \in 1..MAX_PKG_SIZE

(* A frame as it was captured, and one with its rule's VLAN header.        *)
Original(f, frames) == f.id \in 1..Len(frames) /\ f = frames[f.id]
TaggedByRule(f, c) ==
  /\ c.size >= ETH_HLEN + IP_HEADER_MIN_LEN
  /\ c.tags = <<>>
  /\ c.type = ETH_P_IP
  /\ \E k \in 1..Len(tag_rules) :
       /\ Covers(tag_rules[k], c.dst)
       /\ f = [c EXCEPT !.tags = <<tag_rules[k].tag>>, !.size = @ + 4]
Tagged(f, frames) == f.id \in 1..Len(frames) /\ TaggedByRule(f, frames[f.id])
Origin(f, frames, raw) == IF raw THEN Original(f, frames) ELSE Tagged(f, frames)

InHands ==
  \A n \in Nodes : hand[n] # NoFrame => Origin(hand[n], captured, PassesRaw(n))
InQueues ==
  \A n \in Nodes : \A i \in 1..Len(queue[n]) :
     Origin(queue[n][i], captured, n \in RawNodes)
OnWire == \A i \in 1..Len(sent) : Tagged(sent[i], captured)

(* A frame that was let go was captured, and what is to be pushed is to be *)
(* pushed to the right side of the taggers.                                *)
LostAreCaptured == \A l \in lost : l.id \in Ids
TodoOnSide ==
  \A n \in Nodes : \A i \in 1..Len(todo[n]) : todo[n][i] \in RawNodes <=> PassesRaw(n)

CountersOK ==
  /\ ctx \in [Nodes -> Contexts]
  /\ stopping \in 0..(Len(Order) + 1)

FrameInv ==
  /\ CountersOK /\ FrameTypes /\ Phases /\ CapturedInOrder
  /\ InHands /\ InQueues /\ OnWire /\ LostAreCaptured /\ TodoOnSide
  /\ \A n \in Nodes : Len(queue[n]) <= Q_SIZE
-----------------------------------------------------------------------------
(* What the constants are.                                                 *)
LEMMA FlowConstants ==
  /\ Kind \in [Nodes -> Kinds] /\ Outputs \in [Nodes -> Seq(Nodes)]
  /\ Q_SIZE \in Nat \ {0} /\ MAX_PKG_SIZE \in Nat \ {0} /\ MAX_ERR_NUM \in Nat
  /\ tag_rules \in Seq(Rule) /\ validate_rules(tag_rules) = 0
  /\ TagsInRange(tag_rules)
  /\ Wire \in Seq(SUBSET WireFrames) /\ NoFrame \notin Frames
BY FlowAssumption, ValidMeans DEF FlowAssumption, Frames

(* The wiring is as the assumption says.                                   *)
LEMMA RawWiring == RawNodes \in SUBSET Nodes /\ TaggedOnce(RawNodes)
BY WiringAssumption DEF WiringAssumption, RawNodes

(* An output is one of the nodes.                                          *)
LEMMA OutputsAreNodes ==
  ASSUME NEW n \in Nodes
  PROVE  /\ Outputs[n] \in Seq(Nodes) /\ Len(Outputs[n]) \in Nat
         /\ \A i \in 1..Len(Outputs[n]) : Outputs[n][i] \in Nodes
BY FlowConstants, LenProperties, ElementOfSeq
-----------------------------------------------------------------------------
(* The steps, as far as frames are concerned.                              *)

history == <<captured, sent, tagged, lost>>

Rests == UNCHANGED <<hand, todo, queue, history>>

(* n passes on what it popped.                                             *)
Targets(n, targets) ==
  \/ /\ Kind[n] \in {"counter", "collector", "logger"}
     /\ targets = Outputs[n]
  \/ /\ Kind[n] = "dispatcher"
     /\ \E i \in 1..Len(Outputs[n]) : targets = <<Outputs[n][i]>>

PassesOn(n) ==
  /\ Popped(n)
  /\ \E targets : Targets(n, targets) /\ Forward(n, Head(queue[n]), targets)
  /\ UNCHANGED history

(* A tagger tags it.                                                       *)
TagOf(f) == tagger_node_get_tag(tagger_node_get_ip(f), tag_rules)

Tags(n) ==
  LET f == Head(queue[n])
  IN /\ Kind[n] = "tagger"
     /\ Popped(n)
     /\ f.size >= ETH_HLEN + IP_HEADER_MIN_LEN
     /\ tagger_node_get_ip(f) # 0 /\ TagOf(f) # 0
     /\ Forward(n, tagger_node_edit_packet(f, TagOf(f)), Outputs[n])
     /\ tagged' = tagged \cup {[id |-> f.id, node |-> n]}
     /\ UNCHANGED <<captured, sent, lost>>

(* A tagger or a sender lets it go.                                        *)
Filters(n, f, why) ==
  \/ /\ Kind[n] = "tagger"
     /\ \/ why = "short" /\ f.size < ETH_HLEN + IP_HEADER_MIN_LEN
        \/ why = "no address" /\ tagger_node_get_ip(f) = 0
        \/ why = "no tag" /\ tagger_node_get_ip(f) # 0 /\ TagOf(f) = 0
  \/ Kind[n] = "sender" /\ why = "too long"

LetsGo(n) ==
  LET f == Head(queue[n])
  IN /\ Popped(n)
     /\ \E why : Filters(n, f, why) /\ LetGo(n, f, why)
     /\ UNCHANGED <<captured, sent, tagged>>

(* A sender is about to send it.                                           *)
Fetches(n) ==
  /\ Kind[n] = "sender"
  /\ Popped(n)
  /\ hand' = [hand EXCEPT ![n] = Head(queue[n])]
  /\ Goto(n, "sendto")
  /\ UNCHANGED <<todo, history>>

(* Each step of a node is one of these.                                    *)
LEMMA ProcessShape ==
  ASSUME NEW n \in Nodes, FrameInv, Process(n)
  PROVE  \/ PassesOn(n) \/ Tags(n) \/ LetsGo(n) \/ Fetches(n)
         \/ SendToOutput(n) \/ SendSucceeds(n)
<1> USE DEF history
<1>1. ASSUME Dispatch(n) PROVE PassesOn(n)
  <2>1. /\ Kind[n] = "dispatcher" /\ Popped(n)
        /\ UNCHANGED <<captured, sent, tagged, lost>>
    BY <1>1, Zenon DEF Dispatch
  <2>2. Outputs[n] # <<>> /\ ctx[n].next_index \in Nat
    BY <2>1 DEF Popped, FrameInv, Phases, Phase, Wired, CountersOK, Contexts
  <2>3. Len(Outputs[n]) \in Nat \ {0}
    BY <2>2, OutputsAreNodes, EmptySeq
  <2>4. 1 + (ctx[n].next_index % Len(Outputs[n])) \in 1..Len(Outputs[n])
    BY <2>2, <2>3
  <2>5. \E i \in 1..Len(Outputs[n]) : Forward(n, Head(queue[n]), <<Outputs[n][i]>>)
    BY <1>1, <2>4, Zenon DEF Dispatch
  <2> QED
    BY <2>1, <2>5 DEF PassesOn, Targets
<1>2. ASSUME Tag(n) PROVE Tags(n) \/ LetsGo(n)
  BY <1>2 DEF Tag, Tags, TagOf, LetsGo, Filters
<1>3. ASSUME Count(n) PROVE PassesOn(n)
  <2>1. Kind[n] = "counter" /\ Popped(n) /\ UNCHANGED <<captured, sent, tagged, lost>>
    BY <1>3 DEF Count
  <2>2. Forward(n, Head(queue[n]), Outputs[n])
    BY <1>3, Zenon DEF Count
  <2> QED
    BY <2>1, <2>2 DEF PassesOn, Targets
<1>4. ASSUME Collect(n) PROVE PassesOn(n)
  BY <1>4 DEF Collect, PassesOn, Targets
<1>5. ASSUME LogPacket(n) PROVE PassesOn(n)
  BY <1>5 DEF LogPacket, PassesOn, Targets
<1>6. ASSUME SenderPop(n) PROVE LetsGo(n) \/ Fetches(n)
  BY <1>6 DEF SenderPop, LetsGo, Filters, Fetches
<1> QED
  BY <1>1, <1>2, <1>3, <1>4, <1>5, <1>6 DEF Process

(* The main thread and the failures leave the frames where they are.       *)
LEMMA OthersRest ==
  ASSUME \/ StartNode \/ StopPipeline \/ JoinNode
         \/ \E n \in Nodes : ReceiveFails(n) \/ PopFails(n) \/ LeaveLoop(n)
  PROVE  Rests
BY DEF StartNode, StopPipeline, JoinNode, ReceiveFails, PopFails, LeaveLoop,
       Rests, history

-----------------------------------------------------------------------------
(* Where a node goes, and what it holds there.                             *)

(* The end of an iteration leads to the next one, or to the end.           *)
LEMMA AgainGoes ==
  ASSUME NEW n \in Nodes, pc \in [Nodes -> Steps], Again(n)
  PROVE  /\ pc' \in [Nodes -> Steps]
         /\ pc'[n] \in {"recv", "pop", "done"}
         /\ pc'[n] = "recv" => IsSource(n)
         /\ pc'[n] = "pop" => ~IsSource(n)
         /\ pc'[n] \in {"recv", "pop"} => Wired(n)
         /\ \A m \in Nodes : m # n => pc'[m] = pc[m]
BY DEF Again, Goto, Steps

(* A step of n leaves the other nodes where they are.                      *)
LEMMA OneNodeMoves ==
  ASSUME NEW n \in Nodes, Phases, Phase(n)',
         \A m \in Nodes : m # n =>
           pc'[m] = pc[m] /\ hand'[m] = hand[m] /\ todo'[m] = todo[m]
  PROVE  Phases'
<1> SUFFICES ASSUME NEW m \in Nodes PROVE Phase(m)'
  BY DEF Phases
<1>1. CASE m = n
  BY <1>1
<1>2. CASE m # n
  <2>1. Phase(m)
    BY DEF Phases
  <2> QED
    BY <1>2, <2>1 DEF Phase, Wired
<1> QED
  BY <1>1, <1>2

(* Forwarding to targets: n is busy as long as some are left.              *)
LEMMA ForwardKeeps ==
  ASSUME FlowInv, FrameInv, NEW n \in Nodes, NEW f \in Frames,
         NEW targets \in Seq(Nodes), Forward(n, f, targets)
  PROVE  /\ hand' \in [Nodes -> Frames \cup {NoFrame}]
         /\ todo' \in [Nodes -> Seq(Nodes)]
         /\ hand'[n] = IF targets = <<>> THEN NoFrame ELSE f
         /\ todo'[n] = targets
         /\ \A m \in Nodes : m # n => hand'[m] = hand[m] /\ todo'[m] = todo[m]
         /\ Phases'
<1>1. /\ hand \in [Nodes -> Frames \cup {NoFrame}] /\ todo \in [Nodes -> Seq(Nodes)]
      /\ pc \in [Nodes -> Steps]
  BY DEF FlowInv, ControlTypes, FrameInv, FrameTypes
<1>2. /\ hand' = [hand EXCEPT ![n] = IF targets = <<>> THEN NoFrame ELSE f]
      /\ todo' = [todo EXCEPT ![n] = targets]
  BY DEF Forward
<1>3. /\ hand' \in [Nodes -> Frames \cup {NoFrame}]
      /\ todo' \in [Nodes -> Seq(Nodes)]
      /\ hand'[n] = IF targets = <<>> THEN NoFrame ELSE f
      /\ todo'[n] = targets
      /\ \A m \in Nodes : m # n => hand'[m] = hand[m] /\ todo'[m] = todo[m]
  BY <1>1, <1>2
<1>4. Phase(n)' /\ \A m \in Nodes : m # n => pc'[m] = pc[m]
  <2>1. f # NoFrame
    BY FlowConstants
  <2>2. CASE targets = <<>>
    <3>1. Again(n)
      BY <2>2 DEF Forward
    <3> QED
      BY <1>1, <1>3, <2>2, <3>1, AgainGoes DEF Phase, Wired
  <2>3. CASE targets # <<>>
    <3>1. pc' = [pc EXCEPT ![n] = "send"]
      BY <2>3 DEF Forward, Goto
    <3> QED
      BY <1>1, <1>3, <2>1, <2>3, <3>1 DEF Phase
  <2> QED
    BY <2>2, <2>3
<1> QED
  BY <1>3, <1>4, OneNodeMoves DEF FrameInv

(* A node that has nothing in its buffer may go anywhere in its loop.      *)
LEMMA AgainKeeps ==
  ASSUME FlowInv, FrameInv, NEW n \in Nodes,
         Again(n) \/ Goto(n, "done"),
         UNCHANGED <<hand, todo>>, hand[n] = NoFrame, todo[n] = <<>>
  PROVE  Phases'
<1>1. pc \in [Nodes -> Steps]
  BY DEF FlowInv, ControlTypes
<1>2. /\ pc'[n] \in {"recv", "pop", "done"}
      /\ pc'[n] = "recv" => IsSource(n)
      /\ pc'[n] = "pop" => ~IsSource(n)
      /\ pc'[n] \in {"recv", "pop"} => Wired(n)
      /\ \A m \in Nodes : m # n => pc'[m] = pc[m]
  BY <1>1, AgainGoes DEF Goto
<1>3. Phase(n)'
  BY <1>2 DEF Phase, Wired
<1> QED
  BY <1>2, <1>3, OneNodeMoves DEF FrameInv

(* A sender that has sent its frame, or has failed to, has none.           *)
LEMMA SenderKeeps ==
  ASSUME FlowInv, FrameInv, NEW n \in Nodes, pc[n] = "sendto",
         Again(n) \/ Goto(n, "done"),
         hand' = [hand EXCEPT ![n] = NoFrame], UNCHANGED todo
  PROVE  /\ Phases' /\ hand' \in [Nodes -> Frames \cup {NoFrame}]
         /\ hand'[n] = NoFrame /\ \A m \in Nodes : m # n => hand'[m] = hand[m]
<1>1. pc \in [Nodes -> Steps] /\ hand \in [Nodes -> Frames \cup {NoFrame}]
  BY DEF FlowInv, ControlTypes, FrameInv, FrameTypes
<1>2. /\ pc'[n] \in {"recv", "pop", "done"}
      /\ pc'[n] = "recv" => IsSource(n)
      /\ pc'[n] = "pop" => ~IsSource(n)
      /\ pc'[n] \in {"recv", "pop"} => Wired(n)
      /\ \A m \in Nodes : m # n => pc'[m] = pc[m]
  BY <1>1, AgainGoes DEF Goto
<1>3. /\ hand' \in [Nodes -> Frames \cup {NoFrame}] /\ hand'[n] = NoFrame
      /\ \A m \in Nodes : m # n => hand'[m] = hand[m]
  BY <1>1
<1>4. todo[n] = <<>>
  BY DEF FrameInv, Phases, Phase
<1>5. Phase(n)'
  BY <1>2, <1>3, <1>4 DEF Phase, Wired
<1> QED
  BY <1>2, <1>3, <1>5, OneNodeMoves DEF FrameInv

(* The steps that leave the frames alone.                                  *)
LEMMA RestKeepsPhases ==
  ASSUME FlowInv, FrameInv,
         \/ StartNode \/ StopPipeline \/ JoinNode
         \/ \E n \in Nodes : ReceiveFails(n) \/ PopFails(n) \/ LeaveLoop(n)
  PROVE  Phases'
<1>1. UNCHANGED <<hand, todo>>
  BY OthersRest DEF Rests
<1>2. CASE StopPipeline \/ JoinNode
  BY <1>1, <1>2 DEF StopPipeline, JoinNode, FrameInv, Phases, Phase, Wired
<1>3. CASE StartNode
  <2> DEFINE n == Order[started + 1]
  <2>1. n \in Nodes /\ pc[n] = "new" /\ Again(n)
    BY <1>3, OrderLemma DEF StartNode, FlowInv, ControlTypes, NotStartedYet
  <2> HIDE DEF n
  <2> QED
    BY <1>1, <2>1, AgainKeeps DEF FrameInv, Phases, Phase
<1>4. ASSUME NEW n \in Nodes, ReceiveFails(n) \/ PopFails(n) \/ LeaveLoop(n)
      PROVE  Phases'
  <2>1. pc[n] \in {"recv", "pop"} /\ (Again(n) \/ Goto(n, "done"))
    BY <1>4 DEF ReceiveFails, PopFails, LeaveLoop
  <2> QED
    BY <1>1, <2>1, AgainKeeps DEF FrameInv, Phases, Phase
<1> QED
  BY <1>2, <1>3, <1>4

-----------------------------------------------------------------------------
(* Queues, and the frames captured so far.                                 *)

(* Taking a frame out of a queue.                                          *)
LEMMA PopKeeps ==
  ASSUME FrameInv, NEW n \in Nodes, Popped(n)
  PROVE  /\ queue[n] \in Seq(Frames) /\ Len(queue[n]) \in Nat
         /\ 1 \in 1..Len(queue[n])
         /\ Head(queue[n]) = queue[n][1] /\ Head(queue[n]) \in Frames
         /\ queue' \in [Nodes -> Seq(Frames)]
         /\ Len(queue'[n]) = Len(queue[n]) - 1
         /\ \A i \in 1..Len(queue'[n]) :
              i + 1 \in 1..Len(queue[n]) /\ queue'[n][i] = queue[n][i + 1]
         /\ \A m \in Nodes : m # n => queue'[m] = queue[m]
<1>1. queue \in [Nodes -> Seq(Frames)] /\ queue[n] # <<>>
  BY DEF FrameInv, FrameTypes, Popped
<1>2. queue[n] \in Seq(Frames)
  BY <1>1
<1>3. /\ Len(queue[n]) \in Nat \ {0}
      /\ Head(queue[n]) = queue[n][1] /\ Head(queue[n]) \in Frames
      /\ Tail(queue[n]) \in Seq(Frames) /\ Len(Tail(queue[n])) = Len(queue[n]) - 1
      /\ \A i \in 1..Len(Tail(queue[n])) : Tail(queue[n])[i] = queue[n][i + 1]
  BY <1>1, <1>2, HeadTailProperties, LenProperties, EmptySeq
<1>4. queue' = [queue EXCEPT ![n] = Tail(queue[n])]
  BY DEF Popped
<1>5. queue'[n] = Tail(queue[n]) /\ queue' \in [Nodes -> Seq(Frames)]
      /\ \A m \in Nodes : m # n => queue'[m] = queue[m]
  BY <1>1, <1>3, <1>4
<1> QED
  BY <1>2, <1>3, <1>5

(* Putting one into it.                                                    *)
LEMMA PushKeeps ==
  ASSUME FrameInv, NEW m \in Nodes, NEW f \in Frames,
         queue' = [queue EXCEPT ![m] = Append(@, f)]
  PROVE  /\ queue[m] \in Seq(Frames) /\ Len(queue[m]) \in Nat
         /\ queue' \in [Nodes -> Seq(Frames)]
         /\ Len(queue'[m]) = Len(queue[m]) + 1
         /\ \A i \in 1..Len(queue[m]) : queue'[m][i] = queue[m][i]
         /\ queue'[m][Len(queue'[m])] = f
         /\ \A n \in Nodes : n # m => queue'[n] = queue[n]
<1>1. queue \in [Nodes -> Seq(Frames)]
  BY DEF FrameInv, FrameTypes
<1>2. queue[m] \in Seq(Frames) /\ Len(queue[m]) \in Nat
  BY <1>1, LenProperties
<1>3. /\ Append(queue[m], f) \in Seq(Frames)
      /\ Len(Append(queue[m], f)) = Len(queue[m]) + 1
      /\ \A i \in 1..Len(queue[m]) : Append(queue[m], f)[i] = queue[m][i]
      /\ Append(queue[m], f)[Len(queue[m]) + 1] = f
  BY <1>2, AppendProperties
<1>4. queue'[m] = Append(queue[m], f) /\ queue' \in [Nodes -> Seq(Frames)]
      /\ \A n \in Nodes : n # m => queue'[n] = queue[n]
  BY <1>1, <1>3
<1> QED
  BY <1>2, <1>3, <1>4

(* Capturing another frame changes nothing of those there are.             *)
LEMMA CaptureKeepsOrigin ==
  ASSUME NEW frames \in Seq(Frames), NEW g \in Frames,
         NEW f, NEW raw \in BOOLEAN, Origin(f, frames, raw)
  PROVE  Origin(f, Append(frames, g), raw)
<1>1. /\ Len(frames) \in Nat /\ Len(Append(frames, g)) = Len(frames) + 1
      /\ \A i \in 1..Len(frames) : Append(frames, g)[i] = frames[i]
  BY AppendProperties, LenProperties
<1>2. f.id \in 1..Len(frames)
  BY DEF Origin, Original, Tagged
<1>3. f.id \in 1..Len(Append(frames, g)) /\ Append(frames, g)[f.id] = frames[f.id]
  BY <1>1, <1>2
<1> QED
  BY <1>3 DEF Origin, Original, Tagged

(* The tag of a frame is one of the rules', for the frame's address.       *)
LEMMA TagIsOfRule ==
  ASSUME NEW addr \in Nat, tagger_node_get_tag(addr, tag_rules) # 0
  PROVE  \E k \in 1..Len(tag_rules) :
           /\ Covers(tag_rules[k], addr)
           /\ tagger_node_get_tag(addr, tag_rules) = tag_rules[k].tag
<1>1. PICK k \in 1..Len(tag_rules) : Covers(tag_rules[k], addr)
  BY DEF tagger_node_get_tag
<1> QED
  BY <1>1, FirstMatchIsOnlyMatch, FlowConstants

(* A frame whose headers and length have changed.                          *)
Edited(f, t, s) == [f EXCEPT !.tags = t, !.size = s]

(* The edit changes neither who a frame is nor that it is one.             *)
LEMMA EditedFrame ==
  ASSUME NEW f \in Frames, NEW t \in Seq(Nat), NEW s \in Nat
  PROVE  Edited(f, t, s) \in Frames /\ Edited(f, t, s).id = f.id
BY DEF Frames, Edited

(* The header a tagger writes: a tag fits the field it is written to.      *)
VlanIds == MIN_VLAN_ID..MAX_VLAN_ID
Header(tag) == <<tag % 4096>>

(* Four bits beside the VLAN ID: every valid ID survives in the header.    *)
LEMMA HeaderOfTag ==
  ASSUME NEW tag \in VlanIds
  PROVE  /\ Header(tag) = <<tag>> /\ Header(tag) \in Seq(Nat)
         /\ Header(tag) \o <<>> = Header(tag)
<1>1. tag % 4096 = tag /\ tag \in Nat
  BY DEF VlanIds, MIN_VLAN_ID, MAX_VLAN_ID
<1>2. Header(tag) = <<tag>>
  BY <1>1 DEF Header
<1>3. <<tag>> \in Seq(Nat) /\ <<tag>> \o <<>> = <<tag>>
  BY <1>1, ConcatEmptySeq
<1> QED
  BY <1>2, <1>3

(* The tagger puts the header in front of those there are: of none.        *)
LEMMA HeaderAdded ==
  ASSUME NEW f \in Frames, f.tags = <<>>, NEW tag \in VlanIds
  PROVE  /\ tagger_node_edit_packet(f, tag) \in Frames
         /\ tagger_node_edit_packet(f, tag).id = f.id
         /\ tagger_node_edit_packet(f, tag) = Edited(f, Header(tag), f.size + 4)
<1>1. f.size + 4 \in Nat
  BY DEF Frames
<1>2. tagger_node_edit_packet(f, tag) = Edited(f, Header(tag) \o f.tags, f.size + 4)
  BY DEF tagger_node_edit_packet, VLAN_HLEN, Edited, Header
<1>3. tagger_node_edit_packet(f, tag) = Edited(f, Header(tag), f.size + 4)
  BY <1>2, HeaderOfTag
<1>4. Header(tag) \in Seq(Nat)
  BY HeaderOfTag
<1>5. /\ Edited(f, Header(tag), f.size + 4) \in Frames
      /\ Edited(f, Header(tag), f.size + 4).id = f.id
  BY <1>1, <1>4, EditedFrame, Zenon
<1> QED
  BY <1>3, <1>5

(* A tagger adds its rule's VLAN header, to a frame that had none.         *)
LEMMA TaggingKeepsOrigin ==
  ASSUME FrameInv, NEW f \in Frames, Original(f, captured),
         f.size >= ETH_HLEN + IP_HEADER_MIN_LEN,
         tagger_node_get_ip(f) # 0, TagOf(f) # 0
  PROVE  /\ tagger_node_edit_packet(f, TagOf(f)) \in Frames
         /\ tagger_node_edit_packet(f, TagOf(f)).id = f.id
         /\ Tagged(tagger_node_edit_packet(f, TagOf(f)), captured)
<1>1. f.tags = <<>> /\ f.type = ETH_P_IP /\ tagger_node_get_ip(f) = f.dst
  BY DEF tagger_node_get_ip, ether_type, ETH_P_IP, ETH_P_8021Q
<1>2. PICK k \in 1..Len(tag_rules) : /\ Covers(tag_rules[k], f.dst)
                                     /\ TagOf(f) = tag_rules[k].tag
  BY <1>1, TagIsOfRule DEF Frames, TagOf
<1> DEFINE tag == TagOf(f)
           g == tagger_node_edit_packet(f, tag)
<1>3. tag = tag_rules[k].tag
  BY <1>2
<1>4. tag \in VlanIds
  <2>1. TagsInRange(tag_rules)
    BY FlowConstants
  <2>2. tag_rules[k].tag \in VlanIds
    BY <2>1 DEF TagsInRange, VlanIds
  <2> QED
    BY <1>3, <2>2, Zenon
<1>5. SUFFICES g \in Frames /\ g.id = f.id /\ Tagged(g, captured)
  OBVIOUS
<1> HIDE DEF tag
<1>6. g \in Frames /\ g.id = f.id /\ g = Edited(f, Header(tag), f.size + 4)
  BY <1>1, <1>4, HeaderAdded, Zenon
<1>7. Header(tag) = <<tag_rules[k].tag>>
  BY <1>3, <1>4, HeaderOfTag, Zenon
<1>8. TaggedByRule(g, f)
  BY <1>1, <1>2, <1>6, <1>7 DEF TaggedByRule, Edited
<1> HIDE DEF g
<1> QED
  BY <1>6, <1>8 DEF Original, Tagged

-----------------------------------------------------------------------------
(* The counters of the nodes, and how far pipeline_stop is.                *)

(* A node changes its own counters, one after the other.                   *)
SetsCounter(c, d) ==
  \/ d = c
  \/ \E v \in 0..MAX_ERR_NUM : d = [c EXCEPT !.err_counter = v]
  \/ \E v \in Nat : d = [c EXCEPT !.next_index = v]
  \/ \E v \in Nat : d = [c EXCEPT !.packets_sent = v]
  \/ \E v \in Nat : d = [c EXCEPT !.packet_count = v]

(* A step that sets one counter of one node.                               *)
LEMMA CounterSet ==
  ASSUME NEW n \in Nodes, CountersOK, NEW d, SetsCounter(ctx[n], d),
         ctx' = [ctx EXCEPT ![n] = d], UNCHANGED stopping
  PROVE  CountersOK'
<1>1. ctx[n] \in Contexts
  BY DEF CountersOK
<1>2. d \in Contexts
  BY <1>1 DEF SetsCounter, Contexts
<1> QED
  BY <1>2 DEF CountersOK

(* Counting a packet.                                                      *)
LEMMA CountedIsContext ==
  ASSUME NEW c \in Contexts, NEW f \in Frames
  PROVE  Counted(c, f) \in Contexts
<1>1. PICK vlan \in {0, 1} : vlan = IF is_vlan_packet(f) THEN 1 ELSE 0
  OBVIOUS
<1> DEFINE d == [c EXCEPT !.total_packets = @ + 1, !.total_bytes = @ + f.size,
                          !.vlan_packets = @ + vlan,
                          !.non_vlan_packets = @ + 1 - vlan]
<1>2. /\ c.total_packets + 1 \in Nat /\ c.total_bytes + f.size \in Nat
      /\ c.vlan_packets + vlan \in Nat /\ c.non_vlan_packets + 1 - vlan \in Nat
  <2>1. /\ c.total_packets \in Nat /\ c.total_bytes \in Nat
        /\ c.vlan_packets \in Nat /\ c.non_vlan_packets \in Nat
    BY DEF Contexts
  <2>2. f.size \in Nat
    BY DEF Frames
  <2> QED
    BY <1>1, <2>1, <2>2
<1>3. d \in Contexts
  <2>1. ASSUME NEW v1 \in Nat, NEW v2 \in Nat, NEW v3 \in Nat, NEW v4 \in Nat
        PROVE  [c EXCEPT !.total_packets = v1, !.total_bytes = v2,
                         !.vlan_packets = v3, !.non_vlan_packets = v4] \in Contexts
    BY DEF Contexts
  <2> QED
    BY <1>2, <2>1, Zenon
<1>4. Counted(c, f) = d
  BY <1>1, Zenon DEF Counted
<1> QED
  BY <1>3, <1>4, Zenon

(* The packet counter's part of a step.                                    *)
LEMMA CountKeepsCounters ==
  ASSUME FrameInv, NEW n \in Nodes, Count(n)
  PROVE  CountersOK'
<1>1. /\ ctx' = [ctx EXCEPT ![n] = Counted(ctx[n], Head(queue[n]))]
      /\ Popped(n) /\ UNCHANGED stopping
  BY DEF Count, control
<1>2. Counted(ctx[n], Head(queue[n])) \in Contexts
  BY <1>1, PopKeeps, CountedIsContext DEF FrameInv, CountersOK
<1> QED
  BY <1>1, <1>2 DEF CountersOK, FrameInv

(* No step of a node takes a counter out of its range.                     *)
LEMMA ProcessKeepsCounters ==
  ASSUME FrameInv, NEW n \in Nodes, Process(n)
  PROVE  CountersOK'
<1> USE DEF control
<1>1. CountersOK /\ ctx \in [Nodes -> Contexts] /\ ctx[n] \in Contexts
  BY DEF FrameInv, CountersOK
<1>2. ASSUME SendToOutput(n) PROVE CountersOK'
  <2> DEFINE m == Head(todo[n])
             v == IF Kind[n] = "dispatcher" THEN ctx[n].packets_sent + 1
                  ELSE ctx[n].packets_sent
  <2>1. UNCHANGED stopping
    BY <1>2 DEF SendToOutput
  <2>2. \/ ctx' = [ctx EXCEPT ![n] = [ctx[n] EXCEPT !.packets_sent = v]]
        \/ UNCHANGED ctx
    BY <1>1, <1>2 DEF SendToOutput
  <2>3. v \in Nat
    BY <1>1 DEF Contexts
  <2> QED
    BY <1>1, <2>1, <2>2, <2>3, CounterSet DEF SetsCounter, CountersOK
<1>3. ASSUME Dispatch(n) PROVE CountersOK'
  <2> DEFINE v == (ctx[n].next_index + 1) % Len(Outputs[n])
  <2>1. UNCHANGED stopping /\ Popped(n) /\ Kind[n] = "dispatcher"
    BY <1>3 DEF Dispatch
  <2>2. ctx' = [ctx EXCEPT ![n] = [ctx[n] EXCEPT !.next_index = v]] \/ UNCHANGED ctx
    BY <1>1, <1>3 DEF Dispatch
  <2>3. Outputs[n] # <<>>
    BY <2>1 DEF Popped, FrameInv, Phases, Phase, Wired
  <2>4. Len(Outputs[n]) \in Nat \ {0} /\ ctx[n].next_index \in Nat
    BY <1>1, <2>3, OutputsAreNodes, EmptySeq DEF Contexts
  <2>5. v \in Nat
    BY <2>4
  <2> QED
    BY <1>1, <2>1, <2>2, <2>5, CounterSet DEF SetsCounter, CountersOK
<1>4. ASSUME Tag(n) \/ Collect(n) \/ SenderPop(n) PROVE CountersOK'
  <2>1. UNCHANGED <<ctx, stopping>>
    BY <1>4 DEF Tag, Collect, SenderPop
  <2> QED
    BY <1>1, <2>1 DEF CountersOK
<1>5. ASSUME LogPacket(n) PROVE CountersOK'
  <2>1. /\ ctx' = [ctx EXCEPT ![n] = [ctx[n] EXCEPT !.packet_count = @ + 1]]
        /\ UNCHANGED stopping
    BY <1>1, <1>5 DEF LogPacket
  <2>2. ctx[n].packet_count + 1 \in Nat
    BY <1>1 DEF Contexts
  <2> QED
    BY <1>1, <2>1, <2>2, CounterSet DEF SetsCounter
<1>6. ASSUME SendSucceeds(n) PROVE CountersOK'
  <2>1. /\ ctx' = [ctx EXCEPT ![n] = [ctx[n] EXCEPT !.err_counter = 0]]
        /\ UNCHANGED stopping
    BY <1>1, <1>6 DEF SendSucceeds
  <2>2. 0 \in 0..MAX_ERR_NUM
    BY FlowConstants
  <2> QED
    BY <1>1, <2>1, <2>2, CounterSet DEF SetsCounter
<1> QED
  BY <1>2, <1>3, <1>4, <1>5, <1>6, CountKeepsCounters DEF Process

(* An error counter ends at MAX_ERR_NUM, with the pipeline.                *)
LEMMA EventKeepsCounters ==
  ASSUME FrameInv, NEW n \in Nodes,
         \/ Receive(n) \/ ReceiveFails(n) \/ SendFails(n)
         \/ PopFails(n) \/ LeaveLoop(n)
  PROVE  CountersOK'
<1> USE DEF control
<1>1. CountersOK /\ ctx \in [Nodes -> Contexts] /\ ctx[n] \in Contexts
  BY DEF FrameInv, CountersOK
<1>2. UNCHANGED stopping
  BY DEF Receive, ReceiveFails, SendFails, PopFails, LeaveLoop
<1>3. CASE UNCHANGED ctx
  BY <1>1, <1>2, <1>3 DEF CountersOK
<1>4. ASSUME Receive(n) PROVE CountersOK'
  <2>1. ctx' = [ctx EXCEPT ![n] = [ctx[n] EXCEPT !.err_counter = 0]]
    BY <1>1, <1>4 DEF Receive
  <2>2. 0 \in 0..MAX_ERR_NUM
    BY FlowConstants
  <2> QED
    BY <1>1, <1>2, <2>1, <2>2, CounterSet DEF SetsCounter
<1>5. ASSUME ReceiveFails(n) \/ SendFails(n), ctx' # ctx PROVE CountersOK'
  <2>1. MAX_ERR_NUM \in Nat /\ ctx[n].err_counter \in 0..MAX_ERR_NUM
    BY <1>1, FlowConstants DEF Contexts
  <2>2. /\ ctx' = [ctx EXCEPT ![n].err_counter = @ + 1]
        /\ ctx[n].err_counter # MAX_ERR_NUM
    BY <1>5, <2>1 DEF ReceiveFails, SendFails
  <2>3. ctx' = [ctx EXCEPT ![n] = [ctx[n] EXCEPT !.err_counter = @ + 1]]
    BY <1>1, <2>2
  <2>4. ctx[n].err_counter + 1 \in 0..MAX_ERR_NUM
    BY <2>1, <2>2
  <2> QED
    BY <1>1, <1>2, <2>3, <2>4, CounterSet DEF SetsCounter
<1> QED
  BY <1>3, <1>4, <1>5 DEF PopFails, LeaveLoop

(* The main thread touches none of them.                                   *)
LEMMA MainKeepsCounters ==
  ASSUME FrameInv, StartNode \/ StopPipeline \/ JoinNode
  PROVE  CountersOK'
<1>1. UNCHANGED ctx
  BY DEF StartNode, StopPipeline, JoinNode
<1>2. stopping' \in 0..(Len(Order) + 1)
  BY OrderLemma DEF StartNode, StopPipeline, JoinNode, FrameInv, CountersOK
<1> QED
  BY <1>1, <1>2 DEF FrameInv, CountersOK

-----------------------------------------------------------------------------
(* What the steps do to the frames in buffers, in queues and on the wire.  *)

(* What was captured stays, so a frame's origin does.                      *)
Grows ==
  /\ captured' \in Seq(Frames)
  /\ Len(captured') >= Len(captured)
  /\ \A f : \A raw \in BOOLEAN :
       Origin(f, captured, raw) => Origin(f, captured', raw)

(* Steps that capture nothing.                                             *)
LEMMA UnchangedGrows ==
  ASSUME FrameInv, UNCHANGED captured
  PROVE  Grows
<1>1. captured \in Seq(Frames) /\ Len(captured) \in Nat
  BY LenProperties DEF FrameInv, FrameTypes
<1> QED
  BY <1>1 DEF Grows

(* The other buffers hold what they held.                                  *)
LEMMA HandsKept ==
  ASSUME FrameInv, Grows, NEW n \in Nodes,
         \A m \in Nodes : m # n => hand'[m] = hand[m],
         hand'[n] # NoFrame => Origin(hand'[n], captured', PassesRaw(n))
  PROVE  InHands'
<1> SUFFICES ASSUME NEW m \in Nodes, hand'[m] # NoFrame
             PROVE  Origin(hand'[m], captured', PassesRaw(m))
  BY DEF InHands
<1>1. CASE m = n
  BY <1>1
<1>2. CASE m # n
  <2>1. Origin(hand[m], captured, PassesRaw(m))
    BY <1>2 DEF FrameInv, InHands
  <2>2. PassesRaw(m) \in BOOLEAN
    BY DEF PassesRaw
  <2> QED
    BY <1>2, <2>1, <2>2 DEF Grows
<1> QED
  BY <1>1, <1>2

(* The queues hold only frames that were there, or the one just pushed.    *)
LEMMA QueuesKept ==
  ASSUME FrameInv, Grows,
         \A m \in Nodes : \A i \in 1..Len(queue'[m]) :
           \/ Origin(queue'[m][i], captured', m \in RawNodes)
           \/ \E j \in 1..Len(queue[m]) : queue'[m][i] = queue[m][j]
  PROVE  InQueues'
<1> SUFFICES ASSUME NEW m \in Nodes, NEW i \in 1..Len(queue'[m])
             PROVE  Origin(queue'[m][i], captured', m \in RawNodes)
  BY DEF InQueues
<1>1. ASSUME NEW j \in 1..Len(queue[m]), queue'[m][i] = queue[m][j]
      PROVE  Origin(queue'[m][i], captured', m \in RawNodes)
  <2>1. Origin(queue[m][j], captured, m \in RawNodes)
    BY DEF FrameInv, InQueues
  <2>2. (m \in RawNodes) \in BOOLEAN
    OBVIOUS
  <2> QED
    BY <1>1, <2>1, <2>2 DEF Grows
<1> QED
  BY <1>1

(* Steps that leave all queues alone.                                      *)
LEMMA QueuesUnchanged ==
  ASSUME FrameInv, Grows, UNCHANGED queue
  PROVE  InQueues'
<1>1. \A m \in Nodes : \A i \in 1..Len(queue'[m]) :
        \E j \in 1..Len(queue[m]) : queue'[m][i] = queue[m][j]
  OBVIOUS
<1> QED
  BY <1>1, QueuesKept

(* Nothing that was sent is called back.                                   *)
LEMMA WireKept ==
  ASSUME FrameInv, Grows, UNCHANGED sent
  PROVE  OnWire'
<1> SUFFICES ASSUME NEW i \in 1..Len(sent) PROVE Tagged(sent[i], captured')
  BY DEF OnWire
<1>1. Tagged(sent[i], captured)
  BY DEF FrameInv, OnWire
<1>2. Origin(sent[i], captured, FALSE)
  BY <1>1 DEF Origin
<1>3. Origin(sent[i], captured', FALSE)
  BY <1>2 DEF Grows
<1> QED
  BY <1>3 DEF Origin

(* Frames that are let go were captured.                                   *)
LEMMA LostKept ==
  ASSUME FrameInv, Grows,
         \A l \in lost' : l \in lost \/ l.id \in 1..Len(captured')
  PROVE  LostAreCaptured'
<1>1. Len(captured) \in Nat /\ Len(captured') \in Nat
  BY LenProperties DEF FrameInv, FrameTypes, Grows
<1>2. \A l \in lost : l.id \in 1..Len(captured)
  BY DEF FrameInv, LostAreCaptured, Ids
<1> QED
  BY <1>1, <1>2 DEF LostAreCaptured, Ids, Grows

(* A frame that comes from somewhere was captured.                         *)
LEMMA OriginIsCaptured ==
  ASSUME NEW f, NEW frames, NEW raw \in BOOLEAN, Origin(f, frames, raw)
  PROVE  f.id \in 1..Len(frames)
BY DEF Origin, Original, Tagged

(* Forwarding f to targets on the right side.                              *)
LEMMA ForwardKeepsFrames ==
  ASSUME FlowInv, FrameInv, Grows, NEW n \in Nodes, NEW f \in Frames,
         NEW targets \in Seq(Nodes), Forward(n, f, targets),
         Origin(f, captured', PassesRaw(n)),
         \A i \in 1..Len(targets) : targets[i] \in RawNodes <=> PassesRaw(n)
  PROVE  /\ hand' \in [Nodes -> Frames \cup {NoFrame}]
         /\ todo' \in [Nodes -> Seq(Nodes)]
         /\ Phases' /\ InHands' /\ TodoOnSide'
<1>1. /\ hand' \in [Nodes -> Frames \cup {NoFrame}]
      /\ todo' \in [Nodes -> Seq(Nodes)]
      /\ hand'[n] = IF targets = <<>> THEN NoFrame ELSE f
      /\ todo'[n] = targets
      /\ \A m \in Nodes : m # n => hand'[m] = hand[m] /\ todo'[m] = todo[m]
      /\ Phases'
  BY ForwardKeeps
<1>2. InHands'
  BY <1>1, HandsKept
<1>3. TodoOnSide'
  BY <1>1 DEF TodoOnSide, FrameInv
<1> QED
  BY <1>1, <1>2, <1>3

(* Taking the first frame out of a queue.                                  *)
LEMMA PopKeepsFrames ==
  ASSUME FrameInv, NEW n \in Nodes, Popped(n), UNCHANGED captured
  PROVE  /\ Head(queue[n]) \in Frames
         /\ Origin(Head(queue[n]), captured', n \in RawNodes)
         /\ queue' \in [Nodes -> Seq(Frames)] /\ InQueues'
         /\ \A m \in Nodes : Len(queue'[m]) <= Q_SIZE
<1>1. Grows
  BY UnchangedGrows
<1>2. Origin(Head(queue[n]), captured, n \in RawNodes)
  BY PopKeeps DEF FrameInv, InQueues
<1>3. \A m \in Nodes : \A i \in 1..Len(queue'[m]) :
        \E j \in 1..Len(queue[m]) : queue'[m][i] = queue[m][j]
  <2> SUFFICES ASSUME NEW m \in Nodes, NEW i \in 1..Len(queue'[m])
               PROVE  \E j \in 1..Len(queue[m]) : queue'[m][i] = queue[m][j]
    OBVIOUS
  <2>1. CASE m = n
    BY <2>1, PopKeeps
  <2>2. CASE m # n
    BY <2>2, PopKeeps
  <2> QED
    BY <2>1, <2>2
<1>4. InQueues'
  BY <1>1, <1>3, QueuesKept
<1>5. \A m \in Nodes : Len(queue'[m]) <= Q_SIZE
  <2> SUFFICES ASSUME NEW m \in Nodes PROVE Len(queue'[m]) <= Q_SIZE
    OBVIOUS
  <2>1. Len(queue[m]) <= Q_SIZE /\ Q_SIZE \in Nat
    BY FlowConstants DEF FrameInv
  <2> QED
    BY <2>1, PopKeeps
<1> QED
  BY <1>2, <1>4, <1>5, PopKeeps

(* Putting one behind the others, where there is room.                     *)
LEMMA PushKeepsFrames ==
  ASSUME FrameInv, NEW m \in Nodes, NEW f \in Frames, UNCHANGED captured,
         Origin(f, captured, m \in RawNodes),
         Len(queue[m]) < Q_SIZE, queue' = [queue EXCEPT ![m] = Append(@, f)]
  PROVE  /\ queue' \in [Nodes -> Seq(Frames)] /\ InQueues'
         /\ \A n \in Nodes : Len(queue'[n]) <= Q_SIZE
<1>1. Grows
  BY UnchangedGrows
<1>2. \A n \in Nodes : \A i \in 1..Len(queue'[n]) :
        \/ Origin(queue'[n][i], captured', n \in RawNodes)
        \/ \E j \in 1..Len(queue[n]) : queue'[n][i] = queue[n][j]
  <2> SUFFICES ASSUME NEW n \in Nodes, NEW i \in 1..Len(queue'[n])
               PROVE  \/ Origin(queue'[n][i], captured', n \in RawNodes)
                      \/ \E j \in 1..Len(queue[n]) : queue'[n][i] = queue[n][j]
    OBVIOUS
  <2>1. CASE n # m
    BY <2>1, PushKeeps
  <2>2. CASE n = m /\ i = Len(queue'[m])
    <3>1. queue'[n][i] = f
      BY <2>2, PushKeeps
    <3> QED
      BY <2>2, <3>1
  <2>3. CASE n = m /\ i # Len(queue'[m])
    BY <2>3, PushKeeps
  <2> QED
    BY <2>1, <2>2, <2>3
<1>3. InQueues'
  BY <1>1, <1>2, QueuesKept
<1>4. \A n \in Nodes : Len(queue'[n]) <= Q_SIZE
  <2> SUFFICES ASSUME NEW n \in Nodes PROVE Len(queue'[n]) <= Q_SIZE
    OBVIOUS
  <2>1. Len(queue[n]) <= Q_SIZE /\ Q_SIZE \in Nat
    BY FlowConstants DEF FrameInv
  <2> QED
    BY <2>1, PushKeeps
<1> QED
  BY <1>3, <1>4, PushKeeps

(* An output of n is on the side on which n passes frames on.              *)
LEMMA OutputsOnSide ==
  ASSUME NEW n \in Nodes, NEW i \in 1..Len(Outputs[n])
  PROVE  Outputs[n][i] \in RawNodes <=> PassesRaw(n)
BY RawWiring DEF TaggedOnce, PassesRaw
-----------------------------------------------------------------------------
(* Nodes that forward a frame as it came.                                  *)
LEMMA PassesOnKeeps ==
  ASSUME FlowInv, FrameInv, CountersOK', NEW n \in Nodes, PassesOn(n)
  PROVE  FrameInv'
<1> DEFINE f == Head(queue[n])
<1>1. Popped(n) /\ UNCHANGED <<captured, sent, tagged, lost>>
  BY DEF PassesOn, history
<1>2. Grows
  BY <1>1, UnchangedGrows
<1>3. PICK targets : Targets(n, targets) /\ Forward(n, f, targets)
  BY DEF PassesOn
<1>4. /\ targets \in Seq(Nodes) /\ Kind[n] # "tagger"
      /\ \A i \in 1..Len(targets) : targets[i] \in RawNodes <=> PassesRaw(n)
  <2>1. CASE targets = Outputs[n] /\ Kind[n] # "tagger"
    BY <2>1, OutputsAreNodes, OutputsOnSide
  <2>2. ASSUME NEW i \in 1..Len(Outputs[n]), targets = <<Outputs[n][i]>>,
               Kind[n] = "dispatcher"
        PROVE  /\ targets \in Seq(Nodes) /\ Kind[n] # "tagger"
               /\ \A j \in 1..Len(targets) : targets[j] \in RawNodes <=> PassesRaw(n)
    <3> DEFINE m == Outputs[n][i]
    <3>1. m \in Nodes /\ (m \in RawNodes <=> PassesRaw(n))
      BY OutputsAreNodes, OutputsOnSide
    <3> HIDE DEF m
    <3>2. <<m>> \in Seq(Nodes) /\ Len(<<m>>) = 1 /\ <<m>>[1] = m
      BY <3>1
    <3> QED
      BY <2>2, <3>1, <3>2 DEF m
  <2> QED
    BY <1>3, <2>1, <2>2 DEF Targets
<1>5. f \in Frames /\ Origin(f, captured', PassesRaw(n))
  <2>1. PassesRaw(n) = (n \in RawNodes)
    BY <1>4 DEF PassesRaw
  <2> QED
    BY <1>1, <2>1, PopKeepsFrames
<1>6. /\ hand' \in [Nodes -> Frames \cup {NoFrame}]
      /\ todo' \in [Nodes -> Seq(Nodes)]
      /\ Phases' /\ InHands' /\ TodoOnSide'
  <2> HIDE DEF f
  <2> QED
    BY <1>2, <1>3, <1>4, <1>5, ForwardKeepsFrames
<1>7. OnWire' /\ LostAreCaptured'
  BY <1>1, <1>2, WireKept, LostKept
<1>8. CapturedInOrder' /\ captured' \in Seq(Frames) /\ sent' \in Seq(Frames)
  BY <1>1 DEF FrameInv, FrameTypes, CapturedInOrder
<1> QED
  BY <1>1, <1>6, <1>7, <1>8, PopKeepsFrames DEF FrameInv, FrameTypes

(* What comes out of a tagger has its rule's VLAN header.                  *)
LEMMA TagsKeeps ==
  ASSUME FlowInv, FrameInv, CountersOK', NEW n \in Nodes, Tags(n)
  PROVE  FrameInv'
<1> DEFINE f == Head(queue[n])
           g == tagger_node_edit_packet(f, TagOf(f))
<1>1. /\ Kind[n] = "tagger" /\ Popped(n) /\ UNCHANGED <<captured, sent, lost>>
      /\ f.size >= ETH_HLEN + IP_HEADER_MIN_LEN
      /\ tagger_node_get_ip(f) # 0 /\ TagOf(f) # 0
      /\ Forward(n, g, Outputs[n])
  BY DEF Tags
<1>2. Grows
  BY <1>1, UnchangedGrows
<1>3. n \in RawNodes /\ PassesRaw(n) = FALSE
  BY <1>1, RawWiring DEF TaggedOnce, PassesRaw
<1>4. f \in Frames /\ Original(f, captured)
  BY <1>1, <1>3, PopKeepsFrames DEF Origin
<1> HIDE DEF f
<1>5. g \in Frames /\ Tagged(g, captured)
  BY <1>1, <1>4, TaggingKeepsOrigin
<1> HIDE DEF g
<1>6. Origin(g, captured', PassesRaw(n))
  BY <1>1, <1>3, <1>5 DEF Origin
<1>7. /\ hand' \in [Nodes -> Frames \cup {NoFrame}]
      /\ todo' \in [Nodes -> Seq(Nodes)]
      /\ Phases' /\ InHands' /\ TodoOnSide'
  BY <1>1, <1>2, <1>5, <1>6, OutputsAreNodes, OutputsOnSide, ForwardKeepsFrames
<1>8. OnWire' /\ LostAreCaptured'
  BY <1>1, <1>2, WireKept, LostKept
<1>9. CapturedInOrder' /\ captured' \in Seq(Frames) /\ sent' \in Seq(Frames)
  BY <1>1 DEF FrameInv, FrameTypes, CapturedInOrder
<1> QED
  BY <1>1, <1>7, <1>8, <1>9, PopKeepsFrames DEF FrameInv, FrameTypes

(* A frame that is let go is gone.                                         *)
LEMMA LetsGoKeeps ==
  ASSUME FlowInv, FrameInv, CountersOK', NEW n \in Nodes, LetsGo(n)
  PROVE  FrameInv'
<1> DEFINE f == Head(queue[n])
<1>1. /\ Popped(n) /\ UNCHANGED <<captured, sent, hand, todo>> /\ Again(n)
      /\ \E why : lost' = lost \cup {[id |-> f.id, node |-> n, why |-> why]}
  BY DEF LetsGo, LetGo
<1>2. Grows
  BY <1>1, UnchangedGrows
<1>3. f.id \in 1..Len(captured')
  <2>1. Origin(f, captured', n \in RawNodes) /\ (n \in RawNodes) \in BOOLEAN
    BY <1>1, PopKeepsFrames
  <2> QED
    BY <2>1, OriginIsCaptured
<1>4. hand[n] = NoFrame /\ todo[n] = <<>>
  BY <1>1 DEF Popped, FrameInv, Phases, Phase
<1>5. Phases'
  BY <1>1, <1>4, AgainKeeps
<1>6. InHands' /\ TodoOnSide'
  BY <1>1 DEF FrameInv, InHands, TodoOnSide
<1>7. LostAreCaptured'
  <2>1. \A l \in lost' : l \in lost \/ l.id \in 1..Len(captured')
    BY <1>1, <1>3
  <2> QED
    BY <1>2, <2>1, LostKept
<1>8. CapturedInOrder' /\ captured' \in Seq(Frames) /\ sent' \in Seq(Frames)
  BY <1>1 DEF FrameInv, FrameTypes, CapturedInOrder
<1>9. /\ hand' \in [Nodes -> Frames \cup {NoFrame}]
      /\ todo' \in [Nodes -> Seq(Nodes)] /\ OnWire'
  BY <1>1, <1>2, WireKept DEF FrameInv, FrameTypes
<1> QED
  BY <1>1, <1>5, <1>6, <1>7, <1>8, <1>9, PopKeepsFrames DEF FrameInv, FrameTypes

(* A sender gets its frames from behind the taggers.                       *)
LEMMA FetchesKeeps ==
  ASSUME FlowInv, FrameInv, CountersOK', NEW n \in Nodes, Fetches(n)
  PROVE  FrameInv'
<1> DEFINE f == Head(queue[n])
<1>1. /\ Kind[n] = "sender" /\ Popped(n)
      /\ UNCHANGED <<captured, sent, lost, todo>>
      /\ hand' = [hand EXCEPT ![n] = f] /\ Goto(n, "sendto")
  BY DEF Fetches, history
<1>2. Grows
  BY <1>1, UnchangedGrows
<1>3. PassesRaw(n) = (n \in RawNodes)
  BY <1>1, RawWiring DEF TaggedOnce, PassesRaw
<1>4. f \in Frames /\ Origin(f, captured', PassesRaw(n)) /\ f # NoFrame
  BY <1>1, <1>3, PopKeepsFrames, FlowConstants
<1> HIDE DEF f
<1>5. /\ hand \in [Nodes -> Frames \cup {NoFrame}] /\ pc \in [Nodes -> Steps]
      /\ todo[n] = <<>>
  BY <1>1 DEF FlowInv, ControlTypes, FrameInv, FrameTypes, Popped, Phases, Phase
<1>6. /\ hand' \in [Nodes -> Frames \cup {NoFrame}] /\ hand'[n] = f
      /\ pc'[n] = "sendto"
      /\ \A m \in Nodes : m # n => hand'[m] = hand[m] /\ pc'[m] = pc[m]
  BY <1>1, <1>4, <1>5 DEF Goto
<1>7. Phases'
  <2>1. Phase(n)'
    BY <1>1, <1>4, <1>5, <1>6 DEF Phase
  <2> QED
    BY <1>1, <1>6, <2>1, OneNodeMoves DEF FrameInv
<1>8. InHands'
  BY <1>2, <1>4, <1>6, HandsKept
<1>9. OnWire' /\ LostAreCaptured' /\ TodoOnSide'
  BY <1>1, <1>2, WireKept, LostKept DEF FrameInv, TodoOnSide
<1>10. /\ CapturedInOrder' /\ captured' \in Seq(Frames) /\ sent' \in Seq(Frames)
       /\ todo' \in [Nodes -> Seq(Nodes)]
  BY <1>1 DEF FrameInv, FrameTypes, CapturedInOrder
<1> QED
  BY <1>1, <1>6, <1>7, <1>8, <1>9, <1>10, PopKeepsFrames DEF FrameInv, FrameTypes

(* One push: the next node has the frame, or its queue was full.           *)
LEMMA SendToOutputKeeps ==
  ASSUME FlowInv, FrameInv, CountersOK', NEW n \in Nodes, SendToOutput(n)
  PROVE  FrameInv'
<1> DEFINE f == hand[n]
           m == Head(todo[n])
           rest == Tail(todo[n])
<1>1. /\ pc[n] = "send" /\ UNCHANGED <<captured, sent>>
      /\ Forward(n, f, rest)
      /\ \/ /\ Accepts(m, f)
            /\ queue' = [queue EXCEPT ![m] = Append(@, f)]
            /\ UNCHANGED lost
         \/ /\ lost' = lost \cup {[id |-> f.id, node |-> m, why |-> "push failed"]}
            /\ UNCHANGED queue
  BY Zenon DEF SendToOutput
<1>2. Grows
  BY <1>1, UnchangedGrows
<1>3. /\ f \in Frames /\ Origin(f, captured, PassesRaw(n))
      /\ todo[n] \in Seq(Nodes) /\ todo[n] # <<>>
  BY <1>1 DEF FrameInv, FrameTypes, Phases, Phase, InHands
<1>4. f.id \in 1..Len(captured')
  <2>1. PassesRaw(n) \in BOOLEAN
    BY DEF PassesRaw
  <2> QED
    BY <1>1, <1>3, <2>1, OriginIsCaptured
<1>5. /\ m = todo[n][1] /\ 1 \in 1..Len(todo[n]) /\ rest \in Seq(Nodes)
      /\ Len(rest) = Len(todo[n]) - 1 /\ Len(todo[n]) \in Nat
      /\ \A i \in 1..Len(rest) : rest[i] = todo[n][i + 1]
  BY <1>3, HeadTailProperties, LenProperties, EmptySeq
<1>6. /\ m \in Nodes /\ (m \in RawNodes) = PassesRaw(n)
      /\ \A i \in 1..Len(rest) : rest[i] \in RawNodes <=> PassesRaw(n)
  <2>1. \A i \in 1..Len(todo[n]) :
          todo[n][i] \in Nodes /\ (todo[n][i] \in RawNodes <=> PassesRaw(n))
    BY <1>3, ElementOfSeq DEF FrameInv, TodoOnSide
  <2>2. PassesRaw(n) \in BOOLEAN
    BY DEF PassesRaw
  <2> QED
    BY <1>5, <2>1, <2>2
<1> HIDE DEF f, m, rest
<1>7. /\ hand' \in [Nodes -> Frames \cup {NoFrame}]
      /\ todo' \in [Nodes -> Seq(Nodes)]
      /\ Phases' /\ InHands' /\ TodoOnSide'
  BY <1>1, <1>2, <1>3, <1>5, <1>6, ForwardKeepsFrames
<1>8. /\ queue' \in [Nodes -> Seq(Frames)] /\ InQueues'
      /\ \A k \in Nodes : Len(queue'[k]) <= Q_SIZE
  <2>1. CASE UNCHANGED queue
    BY <1>2, <2>1, QueuesUnchanged DEF FrameInv, FrameTypes
  <2>2. CASE /\ Accepts(m, f)
             /\ queue' = [queue EXCEPT ![m] = Append(@, f)]
    BY <1>1, <1>3, <1>6, <2>2, PushKeepsFrames DEF Accepts
  <2> QED
    BY <1>1, <2>1, <2>2
<1>9. LostAreCaptured'
  <2> DEFINE gone == [id |-> f.id, node |-> m, why |-> "push failed"]
  <2>1. gone.id = f.id
    OBVIOUS
  <2>2. lost' = lost \/ lost' = lost \cup {gone}
    BY <1>1
  <2> HIDE DEF gone
  <2>3. \A l \in lost' : l \in lost \/ l.id \in 1..Len(captured')
    BY <1>4, <2>1, <2>2
  <2> QED
    BY <1>2, <2>3, LostKept
<1>10. /\ CapturedInOrder' /\ captured' \in Seq(Frames) /\ sent' \in Seq(Frames)
       /\ OnWire'
  BY <1>1, <1>2, WireKept DEF FrameInv, FrameTypes, CapturedInOrder
<1> QED
  BY <1>7, <1>8, <1>9, <1>10 DEF FrameInv, FrameTypes

(* A sender holds only tagged frames.                                      *)
LEMMA SenderHoldsTagged ==
  ASSUME FrameInv, NEW n \in Nodes, pc[n] = "sendto"
  PROVE  hand[n] \in Frames /\ Tagged(hand[n], captured)
<1>1. Kind[n] = "sender" /\ hand[n] # NoFrame
  BY DEF FrameInv, Phases, Phase
<1>2. PassesRaw(n) = FALSE
  BY <1>1, RawWiring DEF TaggedOnce, PassesRaw
<1> QED
  BY <1>1, <1>2 DEF FrameInv, FrameTypes, InHands, Origin

(* A frame that leaves is on the wire.                                     *)
LEMMA SendSucceedsKeeps ==
  ASSUME FlowInv, FrameInv, CountersOK', NEW n \in Nodes, SendSucceeds(n)
  PROVE  FrameInv'
<1>1. /\ pc[n] = "sendto" /\ sent' = Append(sent, hand[n])
      /\ hand' = [hand EXCEPT ![n] = NoFrame] /\ Again(n)
      /\ UNCHANGED <<todo, queue, captured, lost>>
  BY DEF SendSucceeds
<1>2. Grows
  BY <1>1, UnchangedGrows
<1>3. hand[n] \in Frames /\ Tagged(hand[n], captured)
  BY <1>1, SenderHoldsTagged
<1>4. /\ Phases' /\ hand' \in [Nodes -> Frames \cup {NoFrame}] /\ hand'[n] = NoFrame
      /\ \A m \in Nodes : m # n => hand'[m] = hand[m]
  BY <1>1, SenderKeeps
<1>5. InHands' /\ InQueues' /\ LostAreCaptured'
  BY <1>1, <1>2, <1>4, HandsKept, QueuesUnchanged, LostKept
<1>6. sent' \in Seq(Frames) /\ OnWire'
  <2>1. sent \in Seq(Frames) /\ Len(sent) \in Nat
    BY LenProperties DEF FrameInv, FrameTypes
  <2>2. /\ sent' \in Seq(Frames) /\ Len(sent') = Len(sent) + 1
        /\ \A i \in 1..Len(sent) : sent'[i] = sent[i]
        /\ sent'[Len(sent) + 1] = hand[n]
    BY <1>1, <1>3, <2>1, AppendProperties
  <2>3. ASSUME NEW i \in 1..Len(sent') PROVE Tagged(sent'[i], captured')
    <3>1. CASE i = Len(sent) + 1
      BY <1>1, <1>3, <2>2, <3>1
    <3>2. CASE i # Len(sent) + 1
      BY <1>1, <2>1, <2>2, <3>2 DEF FrameInv, OnWire
    <3> QED
      BY <3>1, <3>2
  <2> QED
    BY <2>2, <2>3 DEF OnWire
<1> QED
  BY <1>1, <1>4, <1>5, <1>6 DEF FrameInv, FrameTypes, CapturedInOrder, TodoOnSide

(* A frame whose sendto fails is gone.                                     *)
LEMMA SendFailsKeeps ==
  ASSUME FlowInv, FrameInv, CountersOK', NEW n \in Nodes, SendFails(n)
  PROVE  FrameInv'
<1>1. /\ pc[n] = "sendto" /\ hand' = [hand EXCEPT ![n] = NoFrame]
      /\ Again(n) \/ Goto(n, "done")
      /\ lost' = lost \cup {[id |-> hand[n].id, node |-> n, why |-> "sendto"]}
      /\ UNCHANGED <<todo, queue, captured, sent>>
  BY DEF SendFails
<1>2. Grows
  BY <1>1, UnchangedGrows
<1>3. hand[n].id \in 1..Len(captured')
  BY <1>1, SenderHoldsTagged DEF Tagged
<1>4. /\ Phases' /\ hand' \in [Nodes -> Frames \cup {NoFrame}] /\ hand'[n] = NoFrame
      /\ \A m \in Nodes : m # n => hand'[m] = hand[m]
  BY <1>1, SenderKeeps
<1>5. InHands' /\ InQueues' /\ OnWire'
  BY <1>1, <1>2, <1>4, HandsKept, QueuesUnchanged, WireKept
<1>6. LostAreCaptured'
  <2>1. \A l \in lost' : l \in lost \/ l.id \in 1..Len(captured')
    BY <1>1, <1>3
  <2> QED
    BY <1>2, <2>1, LostKept
<1> QED
  BY <1>1, <1>4, <1>5, <1>6 DEF FrameInv, FrameTypes, CapturedInOrder, TodoOnSide

(* A frame that arrives has the next id and is passed on as it is.         *)
LEMMA ReceiveKeeps ==
  ASSUME FlowInv, FrameInv, CountersOK', NEW n \in Nodes, Receive(n)
  PROVE  FrameInv'
<1>1. PICK w \in Wire[Len(captured) + 1] :
        LET f == [id |-> Len(captured) + 1, size |-> w.size, tags |-> w.tags,
                  type |-> w.type, dst |-> w.dst]
        IN captured' = Append(captured, f) /\ Forward(n, f, Outputs[n])
  BY DEF Receive
<1> DEFINE f == [id |-> Len(captured) + 1, size |-> w.size, tags |-> w.tags,
                 type |-> w.type, dst |-> w.dst]
<1>2. /\ pc[n] = "recv" /\ Len(captured) < Len(Wire)
      /\ captured' = Append(captured, f) /\ Forward(n, f, Outputs[n])
      /\ UNCHANGED <<queue, sent, lost>>
  BY <1>1 DEF Receive, MaxFrames
<1>3. captured \in Seq(Frames) /\ Len(captured) \in Nat
  BY LenProperties DEF FrameInv, FrameTypes
<1>4. w \in WireFrames
  <2>1. Wire \in Seq(SUBSET WireFrames) /\ Len(captured) + 1 \in 1..Len(Wire)
    BY <1>2, <1>3, FlowConstants, LenProperties
  <2>2. Wire[Len(captured) + 1] \in SUBSET WireFrames
    BY <2>1, ElementOfSeq
  <2> QED
    BY <1>1, <2>2
<1>5. /\ f \in Frames /\ f.id = Len(captured) + 1
      /\ f.size \in 1..MAX_PKG_SIZE
  BY <1>3, <1>4, FlowConstants DEF WireFrames, Frames
<1> HIDE DEF f
<1>6. /\ captured' \in Seq(Frames) /\ Len(captured') = Len(captured) + 1
      /\ \A i \in 1..Len(captured) : captured'[i] = captured[i]
      /\ captured'[Len(captured) + 1] = f
  BY <1>2, <1>3, <1>5, AppendProperties
<1>7. Grows
  BY <1>2, <1>3, <1>5, <1>6, CaptureKeepsOrigin DEF Grows
<1>8. Kind[n] = "sniffer" /\ PassesRaw(n) = TRUE
  BY <1>2, RawWiring DEF FrameInv, Phases, Phase, IsSource, TaggedOnce, PassesRaw
<1>9. Origin(f, captured', PassesRaw(n))
  BY <1>3, <1>5, <1>6, <1>8 DEF Origin, Original
<1>10. /\ hand' \in [Nodes -> Frames \cup {NoFrame}]
       /\ todo' \in [Nodes -> Seq(Nodes)]
       /\ Phases' /\ InHands' /\ TodoOnSide'
  BY <1>2, <1>5, <1>7, <1>9, OutputsAreNodes, OutputsOnSide, ForwardKeepsFrames
<1>11. InQueues' /\ OnWire' /\ LostAreCaptured'
  BY <1>2, <1>7, QueuesUnchanged, WireKept, LostKept
<1>12. CapturedInOrder'
  BY <1>3, <1>5, <1>6 DEF FrameInv, CapturedInOrder
<1> QED
  BY <1>2, <1>6, <1>10, <1>11, <1>12 DEF FrameInv, FrameTypes

(* The steps that leave the frames where they are.                         *)
LEMMA RestKeeps ==
  ASSUME FlowInv, FrameInv, CountersOK', Rests, Phases'
  PROVE  FrameInv'
BY DEF Rests, history, FrameInv, FrameTypes, CapturedInOrder, InHands, InQueues,
       OnWire, LostAreCaptured, Ids, TodoOnSide

(* Nothing has been captured yet.                                          *)
LEMMA InitFrames ==
  ASSUME Init
  PROVE  FrameInv
<1>1. /\ hand = [n \in Nodes |-> NoFrame] /\ todo = [n \in Nodes |-> <<>>]
      /\ queue = [n \in Nodes |-> <<>>] /\ pc = [n \in Nodes |-> "new"]
      /\ captured = <<>> /\ sent = <<>> /\ lost = {} /\ stopping = 0
  BY DEF Init
<1>2. CountersOK
  <2> DEFINE c == [err_counter |-> 0, next_index |-> 0,
                   packets_sent |-> 0, packet_count |-> 0,
                   total_packets |-> 0, total_bytes |-> 0,
                   vlan_packets |-> 0, non_vlan_packets |-> 0]
  <2>1. c \in Contexts
    BY FlowConstants DEF Contexts
  <2>2. ctx = [n \in Nodes |-> c]
    BY DEF Init
  <2>3. stopping \in 0..(Len(Order) + 1)
    BY <1>1, OrderLemma
  <2> HIDE DEF c
  <2> QED
    BY <2>1, <2>2, <2>3 DEF CountersOK
<1>3. /\ <<>> \in Seq(Frames) /\ <<>> \in Seq(Nodes)
      /\ Len(<<>>) = 0 /\ 0 <= Q_SIZE
  BY FlowConstants
<1>4. FrameTypes /\ Phases
  BY <1>1, <1>3 DEF FrameTypes, Phases, Phase
<1>5. /\ CapturedInOrder /\ InHands /\ InQueues /\ OnWire /\ LostAreCaptured
      /\ TodoOnSide /\ \A n \in Nodes : Len(queue[n]) <= Q_SIZE
  BY <1>1, <1>3 DEF CapturedInOrder, InHands, InQueues, OnWire, LostAreCaptured,
                    TodoOnSide
<1> QED
  BY <1>2, <1>4, <1>5 DEF FrameInv

(* The inductive invariant of the frames: on either side of the taggers, a *)
(* frame is what was captured, or that with its rule's VLAN header.        *)
LEMMA NextKeepsFrames ==
  ASSUME FlowInv, FrameInv, [Next]_vars
  PROVE  FrameInv'
<1>1. CASE StartNode \/ StopPipeline \/ JoinNode
  BY <1>1, MainKeepsCounters, OthersRest, RestKeepsPhases, RestKeeps
<1>2. ASSUME NEW n \in Nodes, Process(n) PROVE FrameInv'
  <2>1. CountersOK'
    BY <1>2, ProcessKeepsCounters
  <2> QED
    BY <1>2, <2>1, ProcessShape, PassesOnKeeps, TagsKeeps, LetsGoKeeps,
       FetchesKeeps, SendToOutputKeeps, SendSucceedsKeeps
<1>3. ASSUME NEW n \in Nodes, Receive(n) \/ SendFails(n) PROVE FrameInv'
  BY <1>3, EventKeepsCounters, ReceiveKeeps, SendFailsKeeps
<1>4. ASSUME NEW n \in Nodes, ReceiveFails(n) \/ PopFails(n) \/ LeaveLoop(n)
      PROVE  FrameInv'
  BY <1>4, EventKeepsCounters, OthersRest, RestKeepsPhases, RestKeeps
<1>5. CASE UNCHANGED vars
  <2>1. UNCHANGED <<pc, hand, todo, queue, ctx, stopping, captured, sent, tagged, lost>>
    BY <1>5 DEF vars, control
  <2>2. Rests /\ CountersOK' /\ Phases'
    BY <2>1 DEF Rests, history, FrameInv, CountersOK, Phases, Phase, Wired
  <2> QED
    BY <2>2, RestKeeps
<1> QED
  BY <1>1, <1>2, <1>3, <1>4, <1>5 DEF Next

(* The invariant on frames holds in every wiring, whatever is captured,    *)
(* lost or fails: every frame anywhere stems from a captured one, and is as*)
(* its rule says where only tagged frames come.                            *)
THEOREM FrameInvariant == Spec => []FrameInv
<1>1. Init => FrameInv
  BY InitFrames
<1>2. FlowInv /\ FrameInv /\ [Next]_vars => FrameInv'
  BY NextKeepsFrames
<1> QED
  BY <1>1, <1>2, FlowInvariant, PTL DEF Spec

-----------------------------------------------------------------------------
(* What follows from the invariant.                                        *)

(* push() lets no frame into a queue that is too long for its slots.       *)
SlotsFit ==
  \A n \in Nodes : \A i \in 1..Len(queue[n]) : queue[n][i].size <= MAX_PKG_SIZE

(* Only pop() and push() change a queue.                                   *)
LEMMA QueueSteps ==
  ASSUME [Next]_vars
  PROVE  queue' = queue \/ \E n \in Nodes : Popped(n) \/ SendToOutput(n)
<1>1. CASE StartNode \/ StopPipeline \/ JoinNode
  BY <1>1 DEF StartNode, StopPipeline, JoinNode
<1>2. ASSUME NEW n \in Nodes, Process(n)
      PROVE  queue' = queue \/ Popped(n) \/ SendToOutput(n)
  BY <1>2, Zenon DEF Process, Dispatch, Tag, Count, Collect, LogPacket, SenderPop,
                     SendSucceeds
<1>3. ASSUME NEW n \in Nodes,
             \/ Receive(n) \/ ReceiveFails(n) \/ SendFails(n)
             \/ PopFails(n) \/ LeaveLoop(n)
      PROVE  queue' = queue
  BY <1>3, Zenon DEF Receive, ReceiveFails, SendFails, PopFails, LeaveLoop
<1>4. CASE UNCHANGED vars
  BY <1>4 DEF vars
<1> QED
  BY <1>1, <1>2, <1>3, <1>4 DEF Next

LEMMA SlotsFitKept ==
  ASSUME FrameInv, SlotsFit, [Next]_vars
  PROVE  SlotsFit'
<1>1. CASE queue' = queue
  BY <1>1 DEF SlotsFit
<1>2. ASSUME NEW n \in Nodes, Popped(n) PROVE SlotsFit'
  <2> SUFFICES ASSUME NEW m \in Nodes, NEW i \in 1..Len(queue'[m])
               PROVE  queue'[m][i].size <= MAX_PKG_SIZE
    BY DEF SlotsFit
  <2>1. CASE m = n
    BY <1>2, <2>1, PopKeeps DEF SlotsFit
  <2>2. CASE m # n
    BY <1>2, <2>2, PopKeeps DEF SlotsFit
  <2> QED
    BY <2>1, <2>2
<1>3. ASSUME NEW n \in Nodes, SendToOutput(n), queue' # queue PROVE SlotsFit'
  <2>1. PICK m, f : /\ m = Head(todo[n]) /\ f = hand[n] /\ Accepts(m, f)
                    /\ queue' = [queue EXCEPT ![m] = Append(@, f)]
    BY <1>3, Zenon DEF SendToOutput
  <2>2. f \in Frames /\ todo[n] \in Seq(Nodes) /\ todo[n] # <<>>
    BY <1>3, <2>1 DEF SendToOutput, FrameInv, FrameTypes, Phases, Phase
  <2>3. m \in Nodes
    BY <2>1, <2>2, HeadTailProperties
  <2> SUFFICES ASSUME NEW k \in Nodes, NEW i \in 1..Len(queue'[k])
               PROVE  queue'[k][i].size <= MAX_PKG_SIZE
    BY DEF SlotsFit
  <2>4. CASE k = m /\ i = Len(queue'[m])
    <3>1. queue'[m][Len(queue'[m])] = f
      BY <2>1, <2>2, <2>3, PushKeeps
    <3> QED
      BY <2>1, <2>4, <3>1 DEF Accepts
  <2>5. CASE k = m /\ i # Len(queue'[m])
    <3>1. i \in 1..Len(queue[m]) /\ queue'[m][i] = queue[m][i]
      BY <2>1, <2>2, <2>3, <2>5, PushKeeps
    <3> QED
      BY <2>5, <3>1 DEF SlotsFit
  <2>6. CASE k # m
    BY <2>1, <2>2, <2>3, <2>6, PushKeeps DEF SlotsFit
  <2> QED
    BY <2>4, <2>5, <2>6
<1> QED
  BY <1>1, <1>2, <1>3, QueueSteps

(* What a node has comes from recvfrom or from its queue, unless it is a   *)
(* tagger.                                                                 *)
LEMMA FitsBufferKept ==
  ASSUME FrameInv, SlotsFit, FitsBuffer, [Next]_vars
  PROVE  FitsBuffer'
<1>1. ASSUME UNCHANGED hand PROVE FitsBuffer'
  BY <1>1 DEF FitsBuffer
<1>2. ASSUME NEW n \in Nodes, NEW f,
             Kind[n] = "tagger" \/ f = NoFrame \/ f.size <= MAX_PKG_SIZE,
             hand' = [hand EXCEPT ![n] = f]
      PROVE  FitsBuffer'
  <2>1. hand \in [Nodes -> Frames \cup {NoFrame}]
    BY DEF FrameInv, FrameTypes
  <2> QED
    BY <1>2, <2>1 DEF FitsBuffer
<1>3. ASSUME NEW n \in Nodes, Popped(n) PROVE Head(queue[n]).size <= MAX_PKG_SIZE
  BY <1>3, PopKeeps DEF SlotsFit
<1>4. ASSUME NEW n \in Nodes, Process(n) PROVE FitsBuffer'
  <2>1. CASE PassesOn(n)
    <3>1. PICK targets : Forward(n, Head(queue[n]), targets)
      BY <2>1 DEF PassesOn
    <3> QED
      BY <1>2, <1>3, <2>1, <3>1 DEF PassesOn, Forward
  <2>2. CASE Tags(n)
    BY <1>2, <2>2 DEF Tags, Forward
  <2>3. CASE LetsGo(n)
    BY <1>1, <2>3 DEF LetsGo, LetGo
  <2>4. CASE Fetches(n)
    BY <1>2, <1>3, <2>4 DEF Fetches
  <2>5. CASE SendToOutput(n)
    <3>1. Forward(n, hand[n], Tail(todo[n]))
      BY <2>5, Zenon DEF SendToOutput
    <3> QED
      BY <1>2, <3>1 DEF Forward, FitsBuffer
  <2>6. CASE SendSucceeds(n)
    BY <1>1, <1>2, <2>6 DEF SendSucceeds
  <2> QED
    BY <1>4, <2>1, <2>2, <2>3, <2>4, <2>5, <2>6, ProcessShape
<1>5. ASSUME NEW n \in Nodes, Receive(n) PROVE FitsBuffer'
  <2>1. PICK w \in Wire[Len(captured) + 1] :
          Forward(n, [id |-> Len(captured) + 1, size |-> w.size, tags |-> w.tags,
                      type |-> w.type, dst |-> w.dst], Outputs[n])
    BY <1>5 DEF Receive
  <2>2. Len(captured) + 1 \in 1..Len(Wire)
    BY <1>5, LenProperties DEF Receive, MaxFrames, FrameInv, FrameTypes
  <2>3. w.size <= MAX_PKG_SIZE
    BY <2>2, FlowConstants, FlowAssumption DEF FlowAssumption, WireFrames
  <2> QED
    BY <1>2, <2>1, <2>3 DEF Forward
<1>6. ASSUME NEW n \in Nodes, SendFails(n) PROVE FitsBuffer'
  BY <1>1, <1>2, <1>6 DEF SendFails
<1>7. ASSUME \/ StartNode \/ StopPipeline \/ JoinNode
             \/ \E n \in Nodes : ReceiveFails(n) \/ PopFails(n) \/ LeaveLoop(n)
      PROVE  FitsBuffer'
  BY <1>1, <1>7, OthersRest DEF Rests
<1>8. ASSUME UNCHANGED vars PROVE FitsBuffer'
  BY <1>1, <1>8 DEF vars
<1> QED
  BY <1>4, <1>5, <1>6, <1>7, <1>8 DEF Next

(* A frame has the length that was captured, or four bytes more.           *)
LEMMA OriginFits ==
  ASSUME FrameInv, NEW f \in Frames, NEW raw \in BOOLEAN, Origin(f, captured, raw)
  PROVE  Frame(f, MAX_PKG_SIZE + VLAN_HLEN)
<1> DEFINE c == captured[f.id]
<1>1. f.id \in 1..Len(captured)
  BY OriginIsCaptured
<1>2. c \in Frames /\ c.size \in 1..MAX_PKG_SIZE
  BY <1>1 DEF FrameInv, FrameTypes, CapturedInOrder
<1>3. f.size = c.size \/ f.size = c.size + 4
  <2>1. CASE f = c
    BY <2>1
  <2>2. CASE TaggedByRule(f, c)
    BY <1>2, <2>2 DEF TaggedByRule, Frames
  <2> QED
    BY <2>1, <2>2 DEF Origin, Original, Tagged
<1>4. f.size \in 1..(MAX_PKG_SIZE + VLAN_HLEN)
  BY <1>2, <1>3, FlowConstants DEF VLAN_HLEN
<1>5. DOMAIN f = {"id", "size", "tags", "type", "dst"}
  BY DEF Frames
<1> QED
  BY <1>1, <1>4, <1>5 DEF Frame, Ids

(* TypeOK: in every pipeline in which a frame meets one tagger, whatever   *)
(* recvfrom delivers, up to the length of its buffer, queues stay within   *)
(* their capacity and what they hold fits a slot, a node holds a frame     *)
(* exactly while it passes it on, with no more than one tag's bytes beyond *)
(* its buffer, and no error counter passes MAX_ERR_NUM.                    *)
THEOREM TypeOKHolds == Spec => []TypeOK
<1>1. ASSUME FlowInv, FrameInv, SlotsFit PROVE TypeOK
  <2>1. /\ started \in 0..Len(Order) /\ should_exit \in BOOLEAN
        /\ stopping \in 0..(Len(Order) + 1)
        /\ pc \in [Nodes -> {"new", "recv", "pop", "send", "sendto", "done"}]
    BY <1>1 DEF FlowInv, ControlTypes, Steps, FrameInv, CountersOK
  <2>2. ASSUME NEW n \in Nodes
        PROVE  /\ hand[n] = NoFrame \/ Frame(hand[n], MAX_PKG_SIZE + VLAN_HLEN)
               /\ hand[n] # NoFrame <=> pc[n] \in {"send", "sendto"}
               /\ todo[n] # <<>> <=> pc[n] = "send"
               /\ Len(queue[n]) <= Q_SIZE
               /\ \A i \in 1..Len(queue[n]) : Frame(queue[n][i], MAX_PKG_SIZE)
               /\ ctx[n].err_counter \in 0..MAX_ERR_NUM
    <3>1. hand[n] = NoFrame \/ Frame(hand[n], MAX_PKG_SIZE + VLAN_HLEN)
      <4>1. CASE hand[n] # NoFrame
        <5>1. hand[n] \in Frames /\ Origin(hand[n], captured, PassesRaw(n))
          BY <1>1, <4>1 DEF FrameInv, FrameTypes, InHands
        <5>2. PassesRaw(n) \in BOOLEAN
          BY DEF PassesRaw
        <5> QED
          BY <1>1, <5>1, <5>2, OriginFits
      <4> QED
        BY <4>1
    <3>2. ASSUME NEW i \in 1..Len(queue[n]) PROVE Frame(queue[n][i], MAX_PKG_SIZE)
      <4>1. queue[n] \in Seq(Frames)
        BY <1>1 DEF FrameInv, FrameTypes
      <4>2. queue[n][i] \in Frames
        BY <4>1, ElementOfSeq
      <4>3. Origin(queue[n][i], captured, n \in RawNodes)
        BY <1>1 DEF FrameInv, InQueues
      <4>4. (n \in RawNodes) \in BOOLEAN
        OBVIOUS
      <4>5. Frame(queue[n][i], MAX_PKG_SIZE + VLAN_HLEN)
        BY <1>1, <4>2, <4>3, <4>4, OriginFits
      <4>6. queue[n][i].size <= MAX_PKG_SIZE
        BY <1>1 DEF SlotsFit
      <4> QED
        BY <4>5, <4>6, FlowConstants DEF Frame, VLAN_HLEN
    <3>3. /\ hand[n] # NoFrame <=> pc[n] \in {"send", "sendto"}
          /\ todo[n] # <<>> <=> pc[n] = "send"
      BY <1>1 DEF FrameInv, Phases, Phase
    <3>4. Len(queue[n]) <= Q_SIZE /\ ctx[n].err_counter \in 0..MAX_ERR_NUM
      BY <1>1 DEF FrameInv, CountersOK, Contexts
    <3> QED
      BY <3>1, <3>2, <3>3, <3>4
  <2> QED
    BY <2>1, <2>2 DEF TypeOK
<1>2. Init => SlotsFit
  BY DEF Init, SlotsFit
<1>3. FrameInv /\ SlotsFit /\ [Next]_vars => SlotsFit'
  BY SlotsFitKept
<1> QED
  BY <1>1, <1>2, <1>3, FlowInvariant, FrameInvariant, PTL DEF Spec

(* FitsBuffer: no node but a tagger ever holds a frame longer than its     *)
(* buffer, in every such pipeline, whatever recvfrom delivers.             *)
THEOREM FitsBufferHolds == Spec => []FitsBuffer
<1>1. Init => SlotsFit /\ FitsBuffer
  BY DEF Init, SlotsFit, FitsBuffer
<1>2. FrameInv /\ SlotsFit /\ FitsBuffer /\ [Next]_vars => (SlotsFit /\ FitsBuffer)'
  BY SlotsFitKept, FitsBufferKept
<1> QED
  BY <1>1, <1>2, FrameInvariant, PTL DEF Spec

(* SentAsTheRuleSays: in every pipeline in which a frame meets one tagger, *)
(* and for every table of valid rules, what leaves is a frame that came in *)
(* as plain IPv4, unchanged but for the VLAN header of a rule that covers  *)
(* its address.                                                            *)
THEOREM SentAsTheRuleSaysHolds == Spec => []SentAsTheRuleSays
<1>1. FrameInv => SentAsTheRuleSays
  BY DEF FrameInv, OnWire, Tagged, TaggedByRule, SentAsTheRuleSays
<1> QED
  BY <1>1, FrameInvariant, PTL

-----------------------------------------------------------------------------
(* What the taggers filter out.                                            *)

FilterReasons == {"short", "no address", "no tag"}

(* A frame it filters out is one no rule is for, as far as the tagger can  *)
(* tell: a rule's tag 0 and the address 0.0.0.0 stand for "none".          *)
LEMMA FilteredIsNotEligible ==
  ASSUME NEW f \in Frames, NEW n \in Nodes, NEW why \in FilterReasons,
         Filters(n, f, why)
  PROVE  ~Eligible(f)
<1> SUFFICES ASSUME Eligible(f) PROVE FALSE
  OBVIOUS
<1>1. PICK k \in 1..Len(tag_rules) :
        Covers(tag_rules[k], f.dst) /\ tag_rules[k].tag # 0
  BY DEF Eligible
<1>2. tagger_node_get_ip(f) = f.dst /\ f.dst \in Nat /\ f.dst # 0
  BY DEF Eligible, tagger_node_get_ip, ether_type, Frames
<1>3. TagOf(f) = tag_rules[k].tag
  BY <1>1, <1>2, FlowConstants, FirstMatchIsOnlyMatch DEF TagOf
<1>4. TagOf(f) # 0
  BY <1>1, <1>3
<1>5. ~(f.size < ETH_HLEN + IP_HEADER_MIN_LEN)
  BY DEF Eligible, Frames, ETH_HLEN, IP_HEADER_MIN_LEN
<1>6. why # "too long"
  BY DEF FilterReasons
<1> QED
  BY <1>2, <1>4, <1>5, <1>6 DEF Filters

(* Captured frames stay as they are.                                       *)
LEMMA CapturedStays ==
  ASSUME FrameInv, [Next]_vars
  PROVE  \A i \in 1..Len(captured) : captured'[i] = captured[i]
<1>1. captured \in Seq(Frames)
  BY DEF FrameInv, FrameTypes
<1>2. ASSUME NEW n \in Nodes, Receive(n)
      PROVE  \A i \in 1..Len(captured) : captured'[i] = captured[i]
  <2>1. \E f : captured' = Append(captured, f)
    BY <1>2 DEF Receive
  <2> QED
    BY <1>1, <2>1
<1>3. ASSUME NEW n \in Nodes, Process(n)
      PROVE  UNCHANGED captured
  BY <1>3, ProcessShape DEF PassesOn, Tags, LetsGo, Fetches, SendToOutput,
     SendSucceeds, history
<1>4. ASSUME \/ StartNode \/ StopPipeline \/ JoinNode
             \/ \E n \in Nodes : ReceiveFails(n) \/ PopFails(n) \/ LeaveLoop(n)
      PROVE  UNCHANGED captured
  BY <1>4, OthersRest DEF Rests, history
<1>5. ASSUME NEW n \in Nodes, SendFails(n) PROVE UNCHANGED captured
  BY <1>5 DEF SendFails
<1>6. CASE UNCHANGED vars
  BY <1>6 DEF vars
<1> QED
  BY <1>2, <1>3, <1>4, <1>5, <1>6 DEF Next

(* Only a tagger that filters a frame out gives such a reason.             *)
LEMMA FilteredByTagger ==
  ASSUME FrameInv, [Next]_vars, NEW l \in lost', l \notin lost,
         l.why \in FilterReasons
  PROVE  \E n \in Nodes : \E f \in Frames :
           /\ Filters(n, f, l.why) /\ Original(f, captured) /\ l.id = f.id
<1> USE DEF FilterReasons
<1>1. ASSUME NEW n \in Nodes, LetsGo(n)
      PROVE  \E f \in Frames :
               Filters(n, f, l.why) /\ Original(f, captured) /\ l.id = f.id
  <2> DEFINE f == Head(queue[n])
  <2>1. PICK why : /\ Filters(n, f, why) /\ Popped(n) /\ UNCHANGED captured
                   /\ lost' = lost \cup {[id |-> f.id, node |-> n, why |-> why]}
    BY <1>1 DEF LetsGo, LetGo
  <2>2. l.id = f.id /\ l.why = why
    <3> DEFINE gone == [id |-> f.id, node |-> n, why |-> why]
    <3>1. gone.id = f.id /\ gone.why = why
      OBVIOUS
    <3>2. lost' = lost \cup {gone}
      BY <2>1
    <3> HIDE DEF gone
    <3> QED
      BY <3>1, <3>2
  <2>3. Kind[n] = "tagger"
    BY <2>1, <2>2 DEF Filters
  <2>4. n \in RawNodes
    BY <2>3, RawWiring DEF TaggedOnce
  <2>5. f \in Frames /\ Origin(f, captured', n \in RawNodes)
    BY <2>1, PopKeepsFrames
  <2>6. Original(f, captured)
    BY <2>1, <2>4, <2>5 DEF Origin, Original
  <2> QED
    BY <2>1, <2>2, <2>5, <2>6
<1>2. ASSUME NEW n \in Nodes, SendToOutput(n) PROVE FALSE
  <2>1. PICK id, node : lost' = lost \cup {[id |-> id, node |-> node, why |-> "push failed"]}
    BY <1>2 DEF SendToOutput
  <2> DEFINE gone == [id |-> id, node |-> node, why |-> "push failed"]
  <2>2. lost' = lost \cup {gone} /\ gone.why = "push failed"
    BY <2>1
  <2> HIDE DEF gone
  <2> QED
    BY <2>2
<1>3. ASSUME NEW n \in Nodes, SendFails(n) PROVE FALSE
  <2>1. PICK id, node : lost' = lost \cup {[id |-> id, node |-> node, why |-> "sendto"]}
    BY <1>3 DEF SendFails
  <2> DEFINE gone == [id |-> id, node |-> node, why |-> "sendto"]
  <2>2. lost' = lost \cup {gone} /\ gone.why = "sendto"
    BY <2>1
  <2> HIDE DEF gone
  <2> QED
    BY <2>2
<1>4. ASSUME NEW n \in Nodes,
             PassesOn(n) \/ Tags(n) \/ Fetches(n) \/ SendSucceeds(n) \/ Receive(n)
      PROVE  FALSE
  BY <1>4 DEF PassesOn, Tags, Fetches, SendSucceeds, Receive, history
<1>5. ASSUME \/ StartNode \/ StopPipeline \/ JoinNode
             \/ \E n \in Nodes : ReceiveFails(n) \/ PopFails(n) \/ LeaveLoop(n)
      PROVE  FALSE
  BY <1>5, OthersRest DEF Rests, history
<1>6. CASE UNCHANGED vars
  BY <1>6 DEF vars
<1> QED
  BY <1>1, <1>2, <1>3, <1>4, <1>5, <1>6, ProcessShape DEF Next

(* CoveredNotFiltered: for every valid table, a tagger filters out no      *)
(* frame that a rule covers, unless the rule's tag or the address is 0.    *)
THEOREM CoveredNotFilteredHolds == Spec => []CoveredNotFiltered
<1>1. Init => CoveredNotFiltered
  BY DEF Init, CoveredNotFiltered
<1>2. FrameInv /\ CoveredNotFiltered /\ [Next]_vars => CoveredNotFiltered'
  <2> SUFFICES ASSUME FrameInv, CoveredNotFiltered, [Next]_vars,
                      NEW l \in lost', l.why \in FilterReasons
               PROVE  ~Eligible(captured'[l.id])
    BY DEF CoveredNotFiltered, FilterReasons, Eligible
  <2>1. CASE l \in lost
    <3>1. l.id \in 1..Len(captured) /\ ~Eligible(captured[l.id])
      BY <2>1 DEF FrameInv, LostAreCaptured, Ids, CoveredNotFiltered, FilterReasons
    <3> QED
      BY <3>1, CapturedStays
  <2>2. CASE l \notin lost
    <3>1. PICK n \in Nodes, f \in Frames :
            Filters(n, f, l.why) /\ Original(f, captured) /\ l.id = f.id
      BY <2>2, FilteredByTagger
    <3>2. ~Eligible(f)
      BY <3>1, FilteredIsNotEligible
    <3>3. captured'[l.id] = f
      BY <3>1, CapturedStays DEF Original
    <3> QED
      BY <3>2, <3>3
  <2> QED
    BY <2>1, <2>2
<1> QED
  BY <1>1, <1>2, FrameInvariant, PTL DEF Spec
=============================================================================
