--------------------------- MODULE PipelineBuild ---------------------------
(***************************************************************************)
(* The construction of a pipeline: pipeline_init(), then a pattern that    *)
(* creates its nodes, adds them and connects them.                         *)
(*                                                                         *)
(* Any allocation may fail.  A pattern gives up when a node cannot be      *)
(* created, but does not look at what the later calls return: it goes on,  *)
(* and the pipeline is built without what failed.                          *)
(***************************************************************************)
EXTENDS Naturals, Sequences, FiniteSets

CONSTANTS Patterns,             \* the patterns pipeline_build may be given
          MAX_PIPELINE_NODES,
          MAX_PIPELINE_QUEUES,
          MAX_NODE_OUTPUTS,
          MaxDropped            \* bound: allocations that fail after creation

Names == UNION {DOMAIN p.kind : p \in Patterns}

(* A call of a pattern is a non-empty sequence of steps.                   *)
Steps == [op : {"add", "dispatcher"}, node : Names]
           \cup [op : {"connect"}, from : Names, to : Names]
Calls == Seq(Steps) \ {<<>>}

ASSUME BuildAssumption ==
  /\ {MAX_PIPELINE_NODES, MAX_PIPELINE_QUEUES, MAX_NODE_OUTPUTS, MaxDropped}
       \subseteq Nat
  /\ \A p \in Patterns : /\ p.create \in Seq(Names)
                         /\ p.calls \in Seq(Calls) \ {<<>>}

(* A pattern first adds the nodes it has created, each in a call of its    *)
(* own and in the order of their creation, and there is room for them.     *)
ASSUME PatternAssumption ==
  \A p \in Patterns :
    /\ Len(p.create) \in 1..MAX_PIPELINE_NODES
    /\ Len(p.create) <= Len(p.calls)
    /\ \A i \in 1..Len(p.create) :
         p.calls[i] = <<[op |-> "add", node |-> p.create[i]]>>

(* The steps of a pattern in the order it makes them: the k-th of its c-th *)
(* call, the steps that come before that one, and how many nodes these add *)
(* and how many outputs they give a node.                                  *)
Places(p) == UNION {{c} \X (1..Len(p.calls[c])) : c \in 1..Len(p.calls)}
StepAt(p, x) == p.calls[x[1]][x[2]]
Earlier(p, c, k) ==
  {x \in Places(p) : x[1] < c \/ (x[1] = c /\ x[2] < k)}
NodesBy(p, c, k) ==
  Cardinality({x \in Earlier(p, c, k) : StepAt(p, x).op # "connect"})
LinksBy(p, c, k, n) ==
  Cardinality({x \in Earlier(p, c, k) : /\ StepAt(p, x).op = "connect"
                                        /\ StepAt(p, x).from = n})

(* A pattern adds what it has created, and no node twice.                  *)
ASSUME NodesAssumption ==
  \A p \in Patterns : \A x \in Places(p) :
    /\ StepAt(p, x).op = "add" =>
         StepAt(p, x).node \in {p.create[i] : i \in 1..Len(p.create)}
    /\ StepAt(p, x).op # "connect" =>
         \A y \in Places(p) :
           StepAt(p, y).op # "connect" /\ StepAt(p, y).node = StepAt(p, x).node
             => y = x

(* The pattern's steps name the nodes of its graph in their order, and the *)
(* targets of a node in the order of its outputs; none is left unnamed.    *)
ASSUME DrawingAssumption ==
  \A p \in Patterns :
    /\ p.order \in Seq(Names)
    /\ Len(p.order) = NodesBy(p, Len(p.calls) + 1, 1)
    /\ \A n \in DOMAIN p.wiring :
         n \in Names /\ Len(p.wiring[n]) = LinksBy(p, Len(p.calls) + 1, 1, n)
    /\ \A x \in Places(p) :
         LET step == StepAt(p, x) IN
         IF step.op # "connect"
         THEN step.node = p.order[NodesBy(p, x[1], x[2]) + 1]
         ELSE /\ step.from \in DOMAIN p.wiring
              /\ step.to = p.wiring[step.from][LinksBy(p, x[1], x[2], step.from) + 1]

VARIABLES pattern,      \* the callback pipeline_build is given
          rule_count,   \* tag_rules.size
          phase,        \* how far the construction has come
          created,      \* how many nodes the pattern has created
          todo,         \* the calls the pattern still makes
          arrays,       \* pipeline->nodes and ->queues: are they allocated?
          should_exit,
          nodes,        \* pipeline->nodes, up to node_count
          queue_count,  \* the queues are 1..queue_count
          input,        \* input[n]: node->input_queue, 0 for NULL
          outputs,      \* outputs[n]: node->output_queues
          alive,        \* the nodes that are allocated, with their outputs
          contexts,     \* the nodes whose context is allocated, with what it
                        \* owns: the rules of a tagger, a socket
          dropped       \* history: how many calls have failed

memory == <<alive, contexts>>
wiring == <<nodes, queue_count, input, outputs, memory>>
buildVars == <<pattern, rule_count, phase, created, todo, arrays, should_exit,
               wiring, dropped>>

(* Everything is static, hence zero, before pipeline_init().               *)
BuildInit ==
  /\ pattern \in Patterns
  /\ phase = "none"
  /\ created = 0
  /\ todo = pattern.calls
  /\ arrays = "null"
  /\ should_exit = FALSE
  /\ nodes = <<>>
  /\ queue_count = 0
  /\ input = [n \in Names |-> 0]
  /\ outputs = [n \in Names |-> <<>>]
  /\ alive = {}
  /\ contexts = {}
  /\ dropped = 0

(* pipeline_init() clears the flag, whoever has set it before.             *)
pipeline_init ==
  /\ phase = "none"
  /\ phase' = "create"
  /\ arrays' = "allocated"
  /\ should_exit' = FALSE
  /\ UNCHANGED <<pattern, rule_count, created, todo, wiring, dropped>>

(* The array that was allocated is freed, but the pointer to it stays; if  *)
(* neither was, both are NULL.                                             *)
InitFails ==
  /\ phase = "none"
  /\ phase' = "failed"
  /\ arrays' \in {"dangling", "null"}
  /\ UNCHANGED <<pattern, rule_count, created, todo, should_exit, wiring, dropped>>

(* The nodes' constructors allocate a context - all but the collector's -  *)
(* and hand it to node_create().  node_destroy() does not free it.         *)
HasContext(n) == pattern.kind[n] # "collector"

node_create(n) ==
  /\ alive' = alive \cup {n}
  /\ contexts' = contexts \cup {m \in {n} : HasContext(m)}

node_destroy(S) ==
  /\ alive' = alive \ S
  /\ UNCHANGED contexts

(* The pattern creates its nodes one by one.                               *)
NextNode == pattern.create[created + 1]
NeedsRules(n) == pattern.kind[n] = "tagger"

CreateNode ==
  /\ phase = "create"
  /\ NeedsRules(NextNode) => rule_count > 0
  /\ created' = created + 1
  /\ node_create(NextNode)
  /\ phase' = IF created' = Len(pattern.create) THEN "connect" ELSE "create"
  /\ UNCHANGED <<pattern, rule_count, todo, arrays, should_exit, nodes,
                 queue_count, input, outputs, dropped>>

(* A node that cannot be created - for lack of memory, of a socket or, for *)
(* a tagger, of rules - makes the pattern destroy the others and fail.     *)
CreateFails_KeepsNodes ==
  /\ phase = "create"
  /\ phase' = "failed"
  /\ UNCHANGED <<pattern, rule_count, created, todo, arrays, should_exit,
                 wiring, dropped>>

CreateFails ==
  /\ phase = "create"
  /\ phase' = "failed"
  /\ node_destroy(alive)
  /\ UNCHANGED <<pattern, rule_count, created, todo, arrays, should_exit, nodes,
                 queue_count, input, outputs, dropped>>

(* The calls that follow.  A step that succeeds leads to the next one of   *)
(* its call; one that fails ends the call, and the pattern goes on.        *)
Step == Head(Head(todo))

Done(rest) ==
  /\ todo' = rest
  /\ phase' = IF rest = <<>> THEN "built" ELSE "connect"

Succeeds ==
  /\ Done(IF Len(Head(todo)) = 1 THEN Tail(todo)
          ELSE <<Tail(Head(todo))>> \o Tail(todo))
  /\ UNCHANGED dropped

Fails ==
  /\ Done(Tail(todo))
  /\ dropped' = dropped + 1

MayFail == dropped < MaxDropped

(* pipeline_add_node().                                                    *)
AddNode ==
  /\ phase = "connect"
  /\ Step.op = "add"
  /\ IF Len(nodes) < MAX_PIPELINE_NODES
     THEN nodes' = Append(nodes, Step.node) /\ Succeeds
     ELSE UNCHANGED nodes /\ Fails
  /\ UNCHANGED <<pattern, rule_count, created, arrays, should_exit,
                 queue_count, input, outputs, memory>>

(* The dispatcher pipeline_connect_shared() creates and adds; if it cannot *)
(* be created or there is no room for it, nothing is left of it.           *)
AddDispatcher ==
  /\ phase = "connect"
  /\ Step.op = "dispatcher"
  /\ \/ /\ Len(nodes) < MAX_PIPELINE_NODES
        /\ nodes' = Append(nodes, Step.node)
        /\ node_create(Step.node)
        /\ Succeeds
     \/ /\ Len(nodes) >= MAX_PIPELINE_NODES \/ MayFail
        /\ Fails
        /\ UNCHANGED <<nodes, memory>>
  /\ UNCHANGED <<pattern, rule_count, created, arrays, should_exit,
                 queue_count, input, outputs>>

pipeline_create_queue ==
  /\ queue_count < MAX_PIPELINE_QUEUES
  /\ queue_count' = queue_count + 1

node_set_input(n, queue) == input' = [input EXCEPT ![n] = queue]

(* node_add_output() is the end of pipeline_connect().                     *)
node_add_output_NotCounted(from, queue) ==
  outputs' = [outputs EXCEPT ![from] = <<queue>>] /\ Succeeds

node_add_output(from, queue) ==
  IF Len(outputs[from]) < MAX_NODE_OUTPUTS
  THEN outputs' = [outputs EXCEPT ![from] = Append(@, queue)] /\ Succeeds
  ELSE UNCHANGED outputs /\ Fails

(* pipeline_connect(): the target's queue is used if it has one, else it   *)
(* gets a new one - and keeps it if the source has no room for an output.  *)
ConnectNodes_NoInput ==
  /\ phase = "connect"
  /\ Step.op = "connect"
  /\ pipeline_create_queue
  /\ node_add_output(Step.from, queue_count')
  /\ UNCHANGED <<pattern, rule_count, created, arrays, should_exit, nodes, input,
                 memory>>

ConnectNodes ==
  /\ phase = "connect"
  /\ Step.op = "connect"
  /\ \/ /\ input[Step.to] # 0
        /\ node_add_output(Step.from, input[Step.to])
        /\ UNCHANGED <<queue_count, input>>
     \/ /\ input[Step.to] = 0
        /\ pipeline_create_queue
        /\ node_set_input(Step.to, queue_count')
        /\ node_add_output(Step.from, queue_count')
     \/ /\ input[Step.to] = 0
        /\ queue_count >= MAX_PIPELINE_QUEUES \/ MayFail
        /\ Fails
        /\ UNCHANGED <<queue_count, input, outputs>>
  /\ UNCHANGED <<pattern, rule_count, created, arrays, should_exit, nodes, memory>>

Build ==
  CreateNode \/ CreateFails \/ AddNode \/ AddDispatcher \/ ConnectNodes
-----------------------------------------------------------------------------
(* Properties.                                                             *)

Readers(q) == {n \in Names : input[n] = q}

(* No two nodes compete for a queue and none is left unread: every queue   *)
(* is the input of exactly one node, and every output is such a queue,     *)
(* whatever fails and in whatever order nodes are connected.  (The node    *)
(* that reads a queue may still end at once: a dispatcher does, if none of *)
(* its outputs could be connected.  And that every connection gets its own *)
(* queue, as pipeline.h:30 says, is not so: connections to the same node   *)
(* share one, since a node has one input.)                                 *)
OneReader ==
  /\ \A q \in 1..queue_count : Cardinality(Readers(q)) = 1
  /\ \A n \in Names : \A i \in 1..Len(outputs[n]) :
       outputs[n][i] \in 1..queue_count

(* If no call has failed, the pipeline is the graph the pattern is for,    *)
(* the one PacketFlow runs: same nodes, same order, each output leading to *)
(* the node it is meant for.  (If one has failed, the pattern reports      *)
(* success all the same, and main() starts what there is.)                 *)
BuiltAsPatterned ==
  phase = "built" /\ dropped = 0 =>
    /\ nodes = pattern.order
    /\ \A n \in DOMAIN pattern.wiring :
         /\ Len(outputs[n]) = Len(pattern.wiring[n])
         /\ \A i \in 1..Len(outputs[n]) :
              input[pattern.wiring[n][i]] = outputs[n][i]
=============================================================================
