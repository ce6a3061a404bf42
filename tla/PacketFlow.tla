----------------------------- MODULE PacketFlow -----------------------------
(***************************************************************************)
(* A running pipeline: one thread per node, each with one input queue,     *)
(* passing frames from the sniffer to the sender until should_exit is set. *)
(*                                                                         *)
(* The wiring is a constant, so the same module runs vlan_tagger_pattern   *)
(* and detailed_logging_pattern.  A queue is named after the node that     *)
(* reads it: pipeline_connect gives every node one input queue, whatever   *)
(* the number of writers.  push and pop are single steps on a bounded      *)
(* sequence, which is what PacketQueue is proved to implement; for the     *)
(* same reason send_signal_queue does nothing here, since the pop it wakes *)
(* finds the queue as it was and waits again.                              *)
(*                                                                         *)
(* pc[n] is where node n's thread is: "new" before pthread_create, "recv"  *)
(* and "pop" from the end of an iteration to the return of the blocking    *)
(* call, "send" inside node_send_to_outputs, "sendto" inside sendto,       *)
(* "done" when its function has returned.  A thread at "recv" or "pop" may *)
(* not have looked at should_exit yet, or may have looked and be blocked:  *)
(* nothing tells the two apart until the flag is set, and LeaveLoop is the *)
(* thread that had not looked.                                             *)
(***************************************************************************)
EXTENDS Frames, FiniteSets

CONSTANTS Order,          \* pipeline->nodes
          Kind,           \* Kind[n]: which process function node n runs
          Outputs,        \* Outputs[n]: the nodes behind n->output_queues
          Strategy,       \* how dispatchers choose an output
          tag_rules,      \* the rules every tagger has
          Wire,           \* Wire[i]: the frames that may arrive as the i-th, no id
          NoFrame,        \* an empty buffer
          Q_SIZE,         \* capacity of every queue
          MAX_PKG_SIZE,   \* largest packet a queue accepts
          MAX_ERR_NUM,    \* errors in a row that are tolerated (3)
          MaxRecvErrors,  \* bound: failures of recvfrom
          MaxSendErrors,  \* bound: failures of sendto
          MaxPopErrors,   \* bound: failures of pthread_cond_wait in pop
          MaxStops        \* bound: calls of pipeline_stop, 0 or 1

MaxFrames == Len(Wire)  \* bound: frames captured in a behaviour

Nodes == {Order[i] : i \in 1..Len(Order)}
Kinds == {"sniffer", "dispatcher", "tagger", "counter", "collector", "logger",
          "sender"}

(* What recvfrom delivers: it cuts longer frames to its buffer's length.   *)
WireFrames == [size : 1..MAX_PKG_SIZE, tags : Seq(Nat), type : Nat, dst : Nat]

ASSUME FlowAssumption ==
  /\ Order \in Seq(Nodes)
  /\ \A i, j \in 1..Len(Order) : Order[i] = Order[j] => i = j
  /\ Kind \in [Nodes -> Kinds]
  /\ Outputs \in [Nodes -> Seq(Nodes)]
  /\ Strategy \in {"round_robin", "random"}
  /\ tag_rules \in Seq(Rule) \ {<<>>}  \* no node is created without rules
  /\ validate_rules(tag_rules) = 0      \* nor with rules that are not valid
  /\ Q_SIZE \in Nat \ {0}
  /\ MAX_PKG_SIZE \in Nat \ {0}
  /\ Wire \in Seq(SUBSET WireFrames)
  /\ NoFrame \notin [id : Nat, size : Nat, tags : Seq(Nat), type : Nat, dst : Nat]
  /\ {MAX_ERR_NUM, MaxRecvErrors, MaxSendErrors, MaxPopErrors} \subseteq Nat
  /\ MaxStops \in {0, 1}

(* Every way from a sniffer to a sender leads through exactly one tagger,  *)
(* and Raw are the nodes up to it.                                         *)
TaggedOnce(Raw) ==
  \A n \in Nodes :
    /\ Kind[n] \in {"sniffer", "tagger"} => n \in Raw
    /\ Kind[n] = "sender" => n \notin Raw
    /\ \A i \in 1..Len(Outputs[n]) :
         Outputs[n][i] \in Raw <=> n \in Raw /\ Kind[n] # "tagger"

(* Path are the nodes from a sniffer to a sender: a frame that is on it    *)
(* goes on to one node of it, and nothing comes back to it.                *)
MainPath(Path) ==
  \A n \in Nodes :
    LET onPath == {i \in 1..Len(Outputs[n]) : Outputs[n][i] \in Path}
    IN /\ Kind[n] \in {"sniffer", "sender"} => n \in Path
       /\ n \notin Path => onPath = {}
       /\ n \in Path /\ Kind[n] = "dispatcher" => onPath = 1..Len(Outputs[n])
       /\ n \in Path /\ Kind[n] \notin {"dispatcher", "sender"} =>
            \E i \in 1..Len(Outputs[n]) : onPath = {i}

(* L leads along the path from the only sniffer through one tagger, L[p],  *)
(* to a sender.  Up to the tagger no other node writes its queues, and     *)
(* from there on a frame has no other way to go.                           *)
OnLine(L, n) == \E k \in 1..Len(L) : n = L[k]
Lane(Path, L, p) ==
  /\ \A n \in Nodes : Kind[n] = "sniffer" <=> n = L[1]
  /\ \A k \in 1..Len(L) : /\ L[k] \in Path
                          /\ Kind[L[k]] = "tagger" => k = p
                          /\ Kind[L[k]] = "sender" => k = Len(L)
  /\ \A j, k \in 1..Len(L) : L[j] = L[k] => j = k
  /\ \A n \in Nodes : \A i \in 1..Len(Outputs[n]) : \A k \in 1..Len(L) :
       Outputs[n][i] = L[k] /\ (k <= p \/ OnLine(L, n)) => k > 1 /\ n = L[k - 1]
  /\ \A n \in Nodes : \A i \in 1..Len(Outputs[n]) : \A k \in p..Len(L) :
       n = L[k] /\ Outputs[n][i] \in Path => OnLine(L, Outputs[n][i])

(* So it is in both patterns.                                              *)
ASSUME WiringAssumption ==
  /\ \E Raw \in SUBSET Nodes : TaggedOnce(Raw)
  /\ \E Path \in SUBSET Nodes : MainPath(Path)

(* And for every tagger there is such a lane.                              *)
Taggers == {n \in Nodes : Kind[n] = "tagger"}
ASSUME LaneAssumption ==
  \E Path \in SUBSET Nodes :
    /\ MainPath(Path)
    /\ \A t \in Taggers : \E len \in 1..Len(Order) :
         \E L \in [1..len -> Path], p \in 1..len : L[p] = t /\ Lane(Path, L, p)

(* Only n pushes to m, and each frame once; m counts what it takes, or is  *)
(* the only one to send.                                                   *)
FedBy(n, m) ==
  /\ \A k \in Nodes : \A i \in 1..Len(Outputs[k]) : Outputs[k][i] = m => k = n
  /\ \A i, j \in 1..Len(Outputs[n]) :
       Outputs[n][i] = m /\ Outputs[n][j] = m => i = j
Tallied(n, m) ==
  /\ FedBy(n, m)
  /\ \/ Kind[m] \in {"logger", "counter"}
     \/ {s \in Nodes : Kind[s] = "sender"} = {m}

(* What has left Up, or is at one of the exits, does not come back to Up.  *)
Cut(Up, Exits) ==
  \A n \in Nodes : \A i \in 1..Len(Outputs[n]) :
     Outputs[n][i] \in Up => n \in Up \ Exits

(* Each counter has what it is compared with to itself: a dispatcher its   *)
(* taggers, the packet counter before the sender this one, and a node that *)
(* copies frames to several ends these ends.                               *)
Ends == {n \in Nodes : Outputs[n] = <<>>}
EndsOf(n) == {i \in 1..Len(Outputs[n]) : Outputs[n][i] \in Ends}
ASSUME CountAssumption ==
  \E Path \in SUBSET Nodes :
    /\ MainPath(Path)
    /\ \A n \in Nodes : \A i \in 1..Len(Outputs[n]) :
         LET m == Outputs[n][i]
         IN /\ Kind[n] = "dispatcher" =>
                 n \in Path /\ Kind[m] = "tagger" /\ FedBy(n, m)
            /\ Kind[n] = "counter" /\ Len(Outputs[n]) = 1 =>
                 Kind[m] = "sender" /\ Tallied(n, m)
            /\ Kind[n] # "dispatcher" /\ i \in EndsOf(n) /\ EndsOf(n) # {i} =>
                 /\ n \in Path /\ Tallied(n, m)
                 /\ \E Up \in SUBSET Nodes : n \in Up /\ Cut(Up, {n})

VARIABLES started,      \* how many nodes pipeline_start has started
          stopping,     \* the node pipeline_stop is joining, 0 before the call
          should_exit,  \* pipeline->should_exit, read by every node
          pc,
          hand,         \* hand[n]: the frame in n's buffer
          todo,         \* todo[n]: the outputs that are still to get it
          queue,        \* queue[n]: the frames waiting for n
          ctx,          \* ctx[n]: err_counter, next_index and the statistics
          popErrors,    \* how often pop has failed
          recvErrors,   \* how often recvfrom has failed
          sendErrors,   \* how often sendto has failed
          captured,     \* history: the frames received, in order
          sent,         \* history: the frames handed to sendto, in order
          tagged,       \* history: which tagger tagged which frame
          lost,         \* history: who let go of which frame, and why
          late          \* history: frames each node took after should_exit

control == <<started, stopping, should_exit>>
bounds == <<popErrors, recvErrors, sendErrors>>
vars == <<started, stopping, should_exit, pc, hand, todo, queue, ctx,
          popErrors, recvErrors, sendErrors, captured, sent, tagged, lost, late>>

IsSource(n) == Kind[n] = "sniffer"

(* What the loops check of their own wiring: a node that reads has an      *)
(* input queue, because some node writes it, and a dispatcher has outputs. *)
Wired(n) ==
  /\ IsSource(n) \/ \E m \in Nodes : \E i \in 1..Len(Outputs[m]) :
                       Outputs[m][i] = n
  /\ Kind[n] = "dispatcher" => Outputs[n] # <<>>

Goto(n, step) == pc' = [pc EXCEPT ![n] = step]

(* The while condition and the wiring checks at the top of the loop, which *)
(* lead to the next blocking call or to the end of the thread.             *)
Again_IgnoresExit(n) ==
  Goto(n, IF ~Wired(n) THEN "done" ELSE IF IsSource(n) THEN "recv" ELSE "pop")

Again(n) ==
  Goto(n, IF should_exit \/ ~Wired(n) THEN "done"
          ELSE IF IsSource(n) THEN "recv" ELSE "pop")

Init ==
  /\ started = 0
  /\ stopping = 0
  /\ should_exit = FALSE
  /\ pc = [n \in Nodes |-> "new"]
  /\ hand = [n \in Nodes |-> NoFrame]
  /\ todo = [n \in Nodes |-> <<>>]
  /\ queue = [n \in Nodes |-> <<>>]
  /\ ctx = [n \in Nodes |-> [err_counter |-> 0, next_index |-> 0,
                             packets_sent |-> 0, packet_count |-> 0,
                             total_packets |-> 0, total_bytes |-> 0,
                             vlan_packets |-> 0, non_vlan_packets |-> 0]]
  /\ popErrors = 0
  /\ recvErrors = 0
  /\ sendErrors = 0
  /\ captured = <<>>
  /\ sent = <<>>
  /\ tagged = {}
  /\ lost = {}
  /\ late = [n \in Nodes |-> 0]
-----------------------------------------------------------------------------
(* The main thread.                                                        *)

(* pipeline_start(): the nodes' threads are created in pipeline order, so  *)
(* the first ones already run while the last ones do not.                  *)
StartNode ==
  /\ started < Len(Order)
  /\ stopping = 0
  /\ started' = started + 1
  /\ Again(Order[started'])
  /\ UNCHANGED <<stopping, should_exit, hand, todo, queue, ctx, bounds,
                 captured, sent, tagged, lost, late>>

(* pipeline_stop(), called once the pipeline has been started: the flag is *)
(* set, every queue is signalled, and the joins begin.                     *)
StopPipeline ==
  /\ started = Len(Order)
  /\ stopping = 0
  /\ MaxStops = 1
  /\ should_exit' = TRUE
  /\ stopping' = 1
  /\ UNCHANGED <<started, pc, hand, todo, queue, ctx, bounds,
                 captured, sent, tagged, lost, late>>

(* node_stop(): the join returns when the node's thread has ended.         *)
JoinNode ==
  /\ stopping \in 1..Len(Order)
  /\ pc[Order[stopping]] = "done"
  /\ should_exit' = TRUE
  /\ stopping' = stopping + 1
  /\ UNCHANGED <<started, pc, hand, todo, queue, ctx, bounds,
                 captured, sent, tagged, lost, late>>
-----------------------------------------------------------------------------
(* Steps common to the nodes.                                              *)

(* The thread had not evaluated the while condition when the flag was set. *)
(* No fairness is assumed of this step: the thread may as well be past the *)
(* condition and blocked.                                                  *)
LeaveLoop(n) ==
  /\ pc[n] \in {"recv", "pop"}
  /\ should_exit
  /\ Goto(n, "done")
  /\ UNCHANGED <<control, hand, todo, queue, ctx, bounds,
                 captured, sent, tagged, lost, late>>

(* n takes the next frame out of its queue.                                *)
Popped_Peeks(n) ==
  /\ pc[n] = "pop"
  /\ queue[n] # <<>>
  /\ UNCHANGED queue
  /\ late' = [late EXCEPT ![n] = IF should_exit THEN @ + 1 ELSE @]

Popped(n) ==
  /\ pc[n] = "pop"
  /\ queue[n] # <<>>
  /\ queue' = [queue EXCEPT ![n] = Tail(@)]
  /\ late' = [late EXCEPT ![n] = IF should_exit THEN @ + 1 ELSE @]

(* f is in n's buffer and is about to be pushed to each of the targets.    *)
Forward(n, f, targets) ==
  /\ hand' = [hand EXCEPT ![n] = IF targets = <<>> THEN NoFrame ELSE f]
  /\ todo' = [todo EXCEPT ![n] = targets]
  /\ IF targets = <<>> THEN Again(n) ELSE Goto(n, "send")

(* The frame just taken goes no further: `continue`.                       *)
LetGo_Ends(n, f, why) ==
  /\ lost' = lost \cup {[id |-> f.id, node |-> n, why |-> why]}
  /\ Goto(n, "done")
  /\ UNCHANGED <<hand, todo>>

LetGo(n, f, why) ==
  /\ lost' = lost \cup {[id |-> f.id, node |-> n, why |-> why]}
  /\ Again(n)
  /\ UNCHANGED <<hand, todo>>

(* What push() takes: nothing too long, and nothing into a full queue.     *)
Accepts_TooLong(m, f) == Len(queue[m]) < Q_SIZE

Accepts(m, f) == f.size <= MAX_PKG_SIZE /\ Len(queue[m]) < Q_SIZE

(* One push of node_send_to_outputs(), or the dispatcher's single push.  A *)
(* push that does not take the frame is only logged.                       *)
SendToOutput_NoFullCheck(n) ==
  /\ pc[n] = "send"
  /\ queue' = [queue EXCEPT ![Head(todo[n])] = Append(@, hand[n])]
  /\ ctx' = [ctx EXCEPT ![n].packets_sent =
                          IF Kind[n] = "dispatcher" THEN @ + 1 ELSE @]
  /\ Forward(n, hand[n], Tail(todo[n]))
  /\ UNCHANGED <<control, bounds, captured, sent, tagged, lost, late>>

SendToOutput_WaitsForRoom(n) ==
  /\ pc[n] = "send"
  /\ Accepts(Head(todo[n]), hand[n])
  /\ queue' = [queue EXCEPT ![Head(todo[n])] = Append(@, hand[n])]
  /\ Forward(n, hand[n], Tail(todo[n]))
  /\ UNCHANGED <<control, ctx, bounds, captured, sent, tagged, lost, late>>

SendToOutput_CountsFailures(n) ==
  /\ pc[n] = "send"
  /\ LET m == Head(todo[n])
         f == hand[n]
     IN \/ /\ Accepts(m, f)
           /\ queue' = [queue EXCEPT ![m] = Append(@, f)]
           /\ UNCHANGED lost
        \/ /\ ~Accepts(m, f)
           /\ lost' = lost \cup {[id |-> f.id, node |-> m, why |-> "push failed"]}
           /\ UNCHANGED queue
  /\ ctx' = [ctx EXCEPT ![n].packets_sent =
                          IF Kind[n] = "dispatcher" THEN @ + 1 ELSE @]
  /\ Forward(n, hand[n], Tail(todo[n]))
  /\ UNCHANGED <<control, bounds, captured, sent, tagged, late>>

SendToOutput(n) ==
  /\ pc[n] = "send"
  /\ LET m == Head(todo[n])
         f == hand[n]
     IN \/ /\ Accepts(m, f)
           /\ queue' = [queue EXCEPT ![m] = Append(@, f)]
           /\ ctx' = [ctx EXCEPT ![n].packets_sent =
                                   IF Kind[n] = "dispatcher" THEN @ + 1 ELSE @]
           /\ UNCHANGED lost
        \/ /\ ~Accepts(m, f)
           /\ lost' = lost \cup {[id |-> f.id, node |-> m, why |-> "push failed"]}
           /\ UNCHANGED <<queue, ctx>>
  /\ Forward(n, hand[n], Tail(todo[n]))
  /\ UNCHANGED <<control, bounds, captured, sent, tagged, late>>

(* pop() returns -1 on an empty queue because its wait failed.  The sender *)
(* tries again unless it is to exit; every other node's loop ends.         *)
PopFails(n) ==
  /\ pc[n] = "pop"
  /\ queue[n] = <<>>
  /\ popErrors < MaxPopErrors
  /\ popErrors' = popErrors + 1
  /\ IF Kind[n] = "sender" THEN Again(n) ELSE Goto(n, "done")
  /\ UNCHANGED <<control, hand, todo, queue, ctx, recvErrors, sendErrors,
                 captured, sent, tagged, lost, late>>
-----------------------------------------------------------------------------
(* sniffer_node_process().                                                 *)

Receive(n) ==
  /\ pc[n] = "recv"
  /\ Len(captured) < MaxFrames
  /\ \E w \in Wire[Len(captured) + 1] :
       LET f == [id |-> Len(captured) + 1, size |-> w.size, tags |-> w.tags,
                 type |-> w.type, dst |-> w.dst]
       IN /\ captured' = Append(captured, f)
          /\ Forward(n, f, Outputs[n])
  /\ ctx' = [ctx EXCEPT ![n].err_counter = 0]
  /\ late' = [late EXCEPT ![n] = IF should_exit THEN @ + 1 ELSE @]
  /\ UNCHANGED <<control, queue, bounds, sent, tagged, lost>>

(* recvfrom fails: MAX_ERR_NUM times in a row are tolerated, the next one  *)
(* stops the pipeline.                                                     *)
ReceiveFails(n) ==
  /\ pc[n] = "recv"
  /\ recvErrors < MaxRecvErrors
  /\ recvErrors' = recvErrors + 1
  /\ \/ /\ ctx[n].err_counter >= MAX_ERR_NUM
        /\ should_exit' = TRUE
        /\ Goto(n, "done")
        /\ UNCHANGED ctx
     \/ /\ ctx[n].err_counter < MAX_ERR_NUM
        /\ ctx' = [ctx EXCEPT ![n].err_counter = @ + 1]
        /\ Again(n)
        /\ UNCHANGED should_exit
  /\ UNCHANGED <<started, stopping, hand, todo, queue, popErrors, sendErrors,
                 captured, sent, tagged, lost, late>>
-----------------------------------------------------------------------------
(* dispatcher_node_process(): the output is chosen before the push, and    *)
(* the round-robin index moves on whether the push succeeds or not.        *)
Dispatch(n) ==
  /\ Kind[n] = "dispatcher"
  /\ Popped(n)
  /\ \/ /\ Strategy = "round_robin"
        /\ Forward(n, Head(queue[n]),
                   <<Outputs[n][1 + (ctx[n].next_index % Len(Outputs[n]))]>>)
        /\ ctx' = [ctx EXCEPT ![n].next_index = (@ + 1) % Len(Outputs[n])]
     \/ /\ Strategy = "random"
        /\ \E i \in 1..Len(Outputs[n]) :
              Forward(n, Head(queue[n]), <<Outputs[n][i]>>)
        /\ UNCHANGED ctx
  /\ UNCHANGED <<control, bounds, captured, sent, tagged, lost>>

(* tagger_node_process(): short frames, frames that are not plain IPv4 and *)
(* frames no rule gives a tag go no further.                               *)
Tag(n) ==
  /\ Kind[n] = "tagger"
  /\ Popped(n)
  /\ LET f == Head(queue[n])
         addr == tagger_node_get_ip(f)
         tag == tagger_node_get_tag(addr, tag_rules)
     IN \/ /\ f.size < ETH_HLEN + IP_HEADER_MIN_LEN
           /\ LetGo(n, f, "short")
           /\ UNCHANGED tagged
        \/ /\ f.size >= ETH_HLEN + IP_HEADER_MIN_LEN
           /\ addr = 0
           /\ LetGo(n, f, "no address")
           /\ UNCHANGED tagged
        \/ /\ f.size >= ETH_HLEN + IP_HEADER_MIN_LEN
           /\ addr # 0
           /\ tag = 0
           /\ LetGo(n, f, "no tag")
           /\ UNCHANGED tagged
        \/ /\ f.size >= ETH_HLEN + IP_HEADER_MIN_LEN
           /\ addr # 0
           /\ tag # 0
           /\ Forward(n, tagger_node_edit_packet(f, tag), Outputs[n])
           /\ tagged' = tagged \cup {[id |-> f.id, node |-> n]}
           /\ UNCHANGED lost
  /\ UNCHANGED <<control, ctx, bounds, captured, sent>>

(* packet_counter_node_process().                                          *)
Counted(c, f) ==
  LET vlan == IF is_vlan_packet(f) THEN 1 ELSE 0
  IN [c EXCEPT !.total_packets = @ + 1, !.total_bytes = @ + f.size,
               !.vlan_packets = @ + vlan, !.non_vlan_packets = @ + 1 - vlan]

Count(n) ==
  /\ Kind[n] = "counter"
  /\ Popped(n)
  /\ ctx' = [ctx EXCEPT ![n] = Counted(@, Head(queue[n]))]
  /\ Forward(n, Head(queue[n]), Outputs[n])
  /\ UNCHANGED <<control, bounds, captured, sent, tagged, lost>>

(* collector_node_process().                                               *)
Collect_FirstOutputOnly(n) ==
  /\ Kind[n] = "collector"
  /\ Popped(n)
  /\ Forward(n, Head(queue[n]), SubSeq(Outputs[n], 1, 1))
  /\ UNCHANGED <<control, ctx, bounds, captured, sent, tagged, lost>>

Collect(n) ==
  /\ Kind[n] = "collector"
  /\ Popped(n)
  /\ Forward(n, Head(queue[n]), Outputs[n])
  /\ UNCHANGED <<control, ctx, bounds, captured, sent, tagged, lost>>

(* logger_node_process(); the dump itself is left out.                     *)
LogPacket(n) ==
  /\ Kind[n] = "logger"
  /\ Popped(n)
  /\ ctx' = [ctx EXCEPT ![n].packet_count = @ + 1]
  /\ Forward(n, Head(queue[n]), Outputs[n])
  /\ UNCHANGED <<control, bounds, captured, sent, tagged, lost>>
-----------------------------------------------------------------------------
(* sender_node_process().                                                  *)

SenderPop(n) ==
  /\ Kind[n] = "sender"
  /\ Popped(n)
  /\ LET f == Head(queue[n])
     IN \/ /\ f.size >= VLAN_ETH_FRAME_LEN
           /\ LetGo(n, f, "too long")
        \/ /\ f.size < VLAN_ETH_FRAME_LEN
           /\ hand' = [hand EXCEPT ![n] = f]
           /\ Goto(n, "sendto")
           /\ UNCHANGED <<todo, lost>>
  /\ UNCHANGED <<control, ctx, bounds, captured, sent, tagged>>

SendSucceeds(n) ==
  /\ pc[n] = "sendto"
  /\ sent' = Append(sent, hand[n])
  /\ hand' = [hand EXCEPT ![n] = NoFrame]
  /\ ctx' = [ctx EXCEPT ![n].err_counter = 0]
  /\ Again(n)
  /\ UNCHANGED <<control, todo, queue, bounds, captured, tagged, lost, late>>

(* sendto fails and the frame is gone; so many failures in a row and one    *)
(* more stop the pipeline.                                                 *)
SendFails_Retries(n) ==
  /\ pc[n] = "sendto"
  /\ sendErrors < MaxSendErrors
  /\ sendErrors' = sendErrors + 1
  /\ queue' = [queue EXCEPT ![n] = Append(@, hand[n])]
  /\ hand' = [hand EXCEPT ![n] = NoFrame]
  /\ Again(n)
  /\ UNCHANGED <<control, ctx, todo, popErrors, recvErrors,
                 captured, sent, tagged, lost, late>>

SendFails_NoStop(n) ==
  /\ pc[n] = "sendto"
  /\ sendErrors < MaxSendErrors
  /\ sendErrors' = sendErrors + 1
  /\ lost' = lost \cup {[id |-> hand[n].id, node |-> n, why |-> "sendto"]}
  /\ hand' = [hand EXCEPT ![n] = NoFrame]
  /\ \/ /\ ctx[n].err_counter = MAX_ERR_NUM
        /\ Goto(n, "done")
        /\ UNCHANGED ctx
     \/ /\ ctx[n].err_counter # MAX_ERR_NUM
        /\ ctx' = [ctx EXCEPT ![n].err_counter = @ + 1]
        /\ Again(n)
  /\ UNCHANGED <<control, todo, queue, popErrors, recvErrors,
                 captured, sent, tagged, late>>

SendFails(n) ==
  /\ pc[n] = "sendto"
  /\ sendErrors < MaxSendErrors
  /\ sendErrors' = sendErrors + 1
  /\ lost' = lost \cup {[id |-> hand[n].id, node |-> n, why |-> "sendto"]}
  /\ hand' = [hand EXCEPT ![n] = NoFrame]
  /\ \/ /\ ctx[n].err_counter = MAX_ERR_NUM
        /\ should_exit' = TRUE
        /\ Goto(n, "done")
        /\ UNCHANGED ctx
     \/ /\ ctx[n].err_counter # MAX_ERR_NUM
        /\ ctx' = [ctx EXCEPT ![n].err_counter = @ + 1]
        /\ Again(n)
        /\ UNCHANGED should_exit
  /\ UNCHANGED <<started, stopping, todo, queue, popErrors, recvErrors,
                 captured, sent, tagged, late>>
-----------------------------------------------------------------------------
(* What a node does by itself.  Frames, failures and the request to stop   *)
(* come from outside.                                                      *)
Process(n) ==
  \/ SendToOutput(n) \/ Dispatch(n) \/ Tag(n) \/ Count(n) \/ Collect(n) \/ LogPacket(n)
  \/ SenderPop(n) \/ SendSucceeds(n)

Next ==
  \/ StartNode \/ StopPipeline \/ JoinNode
  \/ \E n \in Nodes :
       \/ Process(n) \/ Receive(n)
       \/ ReceiveFails(n) \/ SendFails(n) \/ PopFails(n) \/ LeaveLoop(n)

Spec == Init /\ [][Next]_vars

(* Every thread that can run is scheduled, main included.  No frame has to *)
(* arrive and nobody has to ask for a stop.                                *)
FairSpec ==
  /\ Spec
  /\ WF_vars(StartNode)
  /\ WF_vars(JoinNode)
  /\ \A n \in Nodes : WF_vars(Process(n))
-----------------------------------------------------------------------------
(* Properties.                                                             *)

Ids == 1..Len(captured)
Settled(id) ==
  \/ \E i \in 1..Len(sent) : sent[i].id = id
  \/ \E l \in lost : l.id = id

Frame(f, longest) ==
  /\ DOMAIN f = {"id", "size", "tags", "type", "dst"}
  /\ f.id \in Ids
  /\ f.size \in 1..longest

(* Every queue stays within its capacity and holds frames that fit a slot, *)
(* and a node has a frame in its buffer exactly while it passes it on.     *)
(* (A tagger's buffer has no room for the whole of it: see FitsBuffer.)    *)
TypeOK ==
  /\ started \in 0..Len(Order)
  /\ stopping \in 0..(Len(Order) + 1)
  /\ should_exit \in BOOLEAN
  /\ pc \in [Nodes -> {"new", "recv", "pop", "send", "sendto", "done"}]
  /\ \A n \in Nodes :
       /\ hand[n] = NoFrame \/ Frame(hand[n], MAX_PKG_SIZE + VLAN_HLEN)
       /\ hand[n] # NoFrame <=> pc[n] \in {"send", "sendto"}
       /\ todo[n] # <<>> <=> pc[n] = "send"
       /\ Len(queue[n]) <= Q_SIZE
       /\ \A i \in 1..Len(queue[n]) : Frame(queue[n][i], MAX_PKG_SIZE)
       /\ ctx[n].err_counter \in 0..MAX_ERR_NUM

(* A frame fits the buffer of the node that has it, which is as long as    *)
(* the longest packet of a queue - except at a tagger: it inserts the tag  *)
(* into any frame, beyond the end of its buffer if the frame is too long   *)
(* for one, and only then push() refuses the result.  No other node ever   *)
(* copies such a frame into its buffer, whatever the interface delivers.   *)
FitsBuffer ==
  \A n \in Nodes :
    hand[n] # NoFrame /\ Kind[n] # "tagger" => hand[n].size <= MAX_PKG_SIZE

(* Where frame id is: in buffers, in queues, on the wire or let go.        *)
Slots == Nodes \X (1..Q_SIZE)
Places(id) ==
  Cardinality({n \in Nodes : hand[n] # NoFrame /\ hand[n].id = id})
    + Cardinality({s \in Slots : /\ s[2] <= Len(queue[s[1]])
                                 /\ queue[s[1]][s[2]].id = id})
    + Cardinality({i \in 1..Len(sent) : sent[i].id = id})
    + Cardinality({l \in lost : l.id = id})

(* In a pipeline where no node has two outputs except a dispatcher, a      *)
(* captured frame is in exactly one place at any time, whatever the nodes  *)
(* are doing: it is never duplicated, and never lost without a reason the  *)
(* code names (a push that failed, a filter, a failed sendto).             *)
Linear ==
  \A n \in Nodes : Kind[n] \notin {"dispatcher", "sender"} => Len(Outputs[n]) = 1
Accounted == Linear => \A id \in Ids : Places(id) = 1

(* No frame leaves twice, also where nodes duplicate frames.               *)
SentOnce ==
  \A i, j \in 1..Len(sent) : sent[i].id = sent[j].id => i = j

(* What leaves is a frame that came in untagged and as IPv4 for an address *)
(* some rule covers, with exactly that rule's VLAN header added.           *)
SentAsTheRuleSays ==
  \A i \in 1..Len(sent) :
     LET c == captured[sent[i].id]
     IN /\ c.tags = <<>>
        /\ c.type = ETH_P_IP
        /\ \E k \in 1..Len(tag_rules) :
             /\ Covers(tag_rules[k], c.dst)
             /\ sent[i] = [c EXCEPT !.tags = <<tag_rules[k].tag>>,
                                    !.size = @ + 4]

Eligible(c) ==
  /\ c.size >= ETH_HLEN + IP_HEADER_MIN_LEN
  /\ c.tags = <<>>
  /\ c.type = ETH_P_IP
  /\ c.dst # 0
  /\ \E k \in 1..Len(tag_rules) :
       Covers(tag_rules[k], c.dst) /\ tag_rules[k].tag # 0

(* A tagger filters out no frame that a rule covers - unless the rule's    *)
(* tag or the frame's address is 0: validate_rules() accepts both, but the *)
(* tagger takes the one for "no tag" and the other for "no address".       *)
CoveredNotFiltered ==
  \A l \in lost :
     l.why \in {"short", "no address", "no tag"} => ~Eligible(captured[l.id])

(* The sender sends what the taggers have produced: no frame that was a    *)
(* legal Ethernet frame when it was captured is too long for it.           *)
LegalFramesFit ==
  \A l \in lost :
     l.why = "too long" => captured[l.id].size > VLAN_ETH_FRAME_LEN - VLAN_HLEN

TaggerOf(id) == (CHOOSE r \in tagged : r.id = id).node

(* Two frames that went through the same tagger leave in the order they    *)
(* came in.  (Frames of different taggers may overtake each other.)        *)
OrderKept ==
  \A i, j \in 1..Len(sent) :
     i < j /\ TaggerOf(sent[i].id) = TaggerOf(sent[j].id)
       => sent[i].id < sent[j].id

Busy(n) == IF hand[n] # NoFrame THEN 1 ELSE 0
LostAt(n) == Cardinality({l \in lost : l.node = n})

(* The statistics agree with what happened to the frames: packets_sent of  *)
(* a dispatcher with the frames its taggers have, tagged or let go, and    *)
(* the packet counter with the frames at or behind it; behind taggers, the *)
(* counter sees nothing but VLAN frames.                                   *)
Fed(d) == {Outputs[d][i] : i \in 1..Len(Outputs[d])}
StatsAgree ==
  /\ \A d \in {n \in Nodes : Kind[n] = "dispatcher"} :
       LET fed == Fed(d)
       IN ctx[d].packets_sent =
            Cardinality({s \in fed \X (1..Q_SIZE) : s[2] <= Len(queue[s[1]])})
              + Cardinality({l \in lost : l.node \in fed /\ l.why # "push failed"})
              + Cardinality({r \in tagged : r.node \in fed})
  /\ \A c \in {n \in Nodes : Kind[n] = "counter" /\ Len(Outputs[n]) = 1} :
       LET s == Outputs[c][1]
       IN /\ ctx[c].total_packets =
               Busy(c) + Len(queue[s]) + Busy(s) + LostAt(s) + Len(sent)
          /\ ctx[c].vlan_packets = ctx[c].total_packets
          /\ ctx[c].non_vlan_packets = 0

Offered(n) ==
  Len(queue[n]) + LostAt(n)
    + CASE Kind[n] = "sender" -> Busy(n) + Len(sent)
        [] Kind[n] = "logger" -> ctx[n].packet_count
        [] Kind[n] = "counter" -> ctx[n].total_packets
        [] OTHER -> 0
Due(n, m) == Cardinality({i \in 1..Len(todo[n]) : todo[n][i] = m})

(* A node with several outputs gives each of them a copy of every frame:   *)
(* two ends behind the same node have been offered the same number of      *)
(* frames, the copies still to be pushed included.                         *)
CopiesAgree ==
  \A n \in {k \in Nodes : Kind[k] # "dispatcher"} :
    \A i, j \in EndsOf(n) :
       LET a == Outputs[n][i]
           b == Outputs[n][j]
       IN Offered(a) + Due(n, a) = Offered(b) + Due(n, b)

(* After should_exit is set, no node takes more than one further frame:    *)
(* the one it was waiting for.                                             *)
AtMostOneLate == \A n \in Nodes : late[n] <= 1

(* No stage is missing while the pipeline runs: a thread has ended only    *)
(* after should_exit was set, by pipeline_stop or by the node that gave    *)
(* up.  (A failed pthread_cond_wait would end a thread silently.)          *)
EndedMeansStopping == \A n \in Nodes : pc[n] = "done" => should_exit

(* While the pipeline runs, every captured frame is sent or let go.        *)
Delivered ==
  \A id \in 1..MaxFrames :
     (id <= Len(captured)) ~> (Settled(id) \/ should_exit)

Quiet ==
  \A n \in Nodes :
     \/ pc[n] \in {"done", "recv"}
     \/ pc[n] = "pop" /\ queue[n] = <<>>

(* Once should_exit is set, nobody stays busy: every node ends, or waits   *)
(* for a frame in recvfrom or in pop on an empty queue.  In particular no  *)
(* node is stuck handing a frame to one that has ended.                    *)
StopQuiesces == <>should_exit => <>[]Quiet

(* pipeline_stop returns: its joins of all nodes come to an end, at least  *)
(* once a frame or an error has brought the sniffer out of recvfrom.       *)
StopReturns ==
  (stopping > 0 /\ \A n \in Nodes : IsSource(n) => pc[n] = "done")
    ~> (stopping > Len(Order))
=============================================================================
