------------------------------ MODULE Patterns ------------------------------
(***************************************************************************)
(* The two patterns of patterns.c: what each one is meant to build, as a   *)
(* graph of nodes, and the calls it makes to build it.                     *)
(*                                                                         *)
(* PacketFlow runs the graphs; PipelineBuild makes the calls and checks    *)
(* that the graph is what comes out.                                       *)
(***************************************************************************)
EXTENDS Naturals, Sequences, TLC

(* The wirings.  pipeline_connect_shared adds the dispatcher last.         *)
VlanTaggerOrder ==
  <<"Sniffer", "Tagger1", "Tagger2", "PacketCounter", "Sender", "Disp_Sniffer">>
VlanTaggerKind ==
  "Sniffer" :> "sniffer" @@ "Tagger1" :> "tagger" @@ "Tagger2" :> "tagger"
    @@ "PacketCounter" :> "counter" @@ "Sender" :> "sender"
    @@ "Disp_Sniffer" :> "dispatcher"
VlanTaggerOutputs ==
  "Sniffer" :> <<"Disp_Sniffer">>
    @@ "Disp_Sniffer" :> <<"Tagger1", "Tagger2">>
    @@ "Tagger1" :> <<"PacketCounter">> @@ "Tagger2" :> <<"PacketCounter">>
    @@ "PacketCounter" :> <<"Sender">> @@ "Sender" :> <<>>

DetailedOrder ==
  <<"Sniffer", "Tagger1", "Tagger2", "Collector", "Logger1", "Logger2",
    "PacketCounter", "Sender", "Disp_Sniffer">>
DetailedKind ==
  VlanTaggerKind @@ "Collector" :> "collector"
    @@ "Logger1" :> "logger" @@ "Logger2" :> "logger"
DetailedOutputs ==
  "Sniffer" :> <<"Disp_Sniffer", "Logger1">>
    @@ "Disp_Sniffer" :> <<"Tagger1", "Tagger2">>
    @@ "Tagger1" :> <<"Collector">> @@ "Tagger2" :> <<"Collector">>
    @@ "Collector" :> <<"Sender", "Logger2", "PacketCounter">>
    @@ "Logger1" :> <<>> @@ "Logger2" :> <<>>
    @@ "PacketCounter" :> <<>> @@ "Sender" :> <<>>

(* The calls.  A step is one of pipeline_add_node, the creation of a       *)
(* dispatcher that is then added, and pipeline_connect; a call is the      *)
(* sequence of steps it consists of, given up at the first that fails.     *)
Add(n) == <<[op |-> "add", node |-> n]>>
Link(from, to) == [op |-> "connect", from |-> from, to |-> to]
Connect(from, to) == <<Link(from, to)>>

ConnectShared(from, disp, to) ==
  <<[op |-> "dispatcher", node |-> disp], Link(from, disp)>>
    \o [i \in 1..Len(to) |-> Link(disp, to[i])]

AddAll(created) == [i \in 1..Len(created) |-> Add(created[i])]
Created(order) == SubSeq(order, 1, Len(order) - 1)  \* all but the dispatcher

vlan_tagger_pattern ==
  [kind   |-> VlanTaggerKind,
   create |-> Created(VlanTaggerOrder),
   calls  |-> AddAll(Created(VlanTaggerOrder)) \o
     <<ConnectShared("Sniffer", "Disp_Sniffer", <<"Tagger1", "Tagger2">>),
       Connect("Tagger1", "PacketCounter"),
       Connect("Tagger2", "PacketCounter"),
       Connect("PacketCounter", "Sender")>>,
   order  |-> VlanTaggerOrder,
   wiring |-> VlanTaggerOutputs]

detailed_logging_pattern ==
  [kind   |-> DetailedKind,
   create |-> Created(DetailedOrder),
   calls  |-> AddAll(Created(DetailedOrder)) \o
     <<ConnectShared("Sniffer", "Disp_Sniffer", <<"Tagger1", "Tagger2">>),
       Connect("Sniffer", "Logger1"),
       Connect("Tagger1", "Collector"),
       Connect("Tagger2", "Collector"),
       Connect("Collector", "Sender"),
       Connect("Collector", "Logger2"),
       Connect("Collector", "PacketCounter")>>,
   order  |-> DetailedOrder,
   wiring |-> DetailedOutputs]
=============================================================================
