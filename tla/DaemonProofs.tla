---------------------------- MODULE DaemonProofs ----------------------------
(***************************************************************************)
(* Proofs about the daemon, for every set of patterns, with any step of    *)
(* the start-up failing and any number of signals: the wiring is sound     *)
(* whatever nodes are connected in whatever order and, if nothing failed,  *)
(* the one the pattern asks for; the cleanup frees each node once; and     *)
(* main() is through with every thread when it destroys what they use.     *)
(***************************************************************************)
EXTENDS Daemon, FiniteSetTheorems, SequenceTheorems, TLAPS

(* What is left of the pattern's calls.                                    *)
CallsLeft ==
  /\ pattern \in Patterns
  /\ todo \in Seq(Calls)
  /\ phase \in {"none", "create"} => todo = pattern.calls
  /\ phase = "connect" => todo # <<>>

(* Each queue is the input of exactly one node, and each output is one of  *)
(* the queues.                                                             *)
QueuesRead ==
  /\ queue_count \in Nat
  /\ input \in [Names -> 0..queue_count]
  /\ outputs \in [Names -> Seq(1..queue_count)]
  /\ \A q \in 1..queue_count : \E n \in Names : input[n] = q
  /\ \A m, n \in Names : input[m] = input[n] /\ input[m] # 0 => m = n

BuildInv == CallsLeft /\ QueuesRead
-----------------------------------------------------------------------------
(* What BuildAssumption says of a pattern.                                 *)
LEMMA PatternCalls ==
  ASSUME NEW p \in Patterns
  PROVE  p.calls \in Seq(Calls) /\ p.calls # <<>>
BY BuildAssumption DEF BuildAssumption

(* The step a pattern is at names nodes of the pattern.                    *)
LEMMA StepNames ==
  ASSUME BuildInv, phase = "connect"
  PROVE  /\ Head(todo) \in Calls /\ Tail(todo) \in Seq(Calls)
         /\ Step \in Steps
BY DEF BuildInv, CallsLeft, Calls, Step

(* The rest of a sequence of several elements.                             *)
LEMMA LongTail ==
  ASSUME NEW S, NEW s \in Seq(S), s # <<>>, Len(s) # 1
  PROVE  Tail(s) \in Seq(S) /\ Tail(s) # <<>>
<1>1. /\ Tail(s) \in Seq(S) /\ Len(Tail(s)) = Len(s) - 1
      /\ Len(s) \in Nat /\ Len(s) # 0
  BY HeadTailProperties, LenProperties, EmptySeq
<1>2. Len(Tail(s)) # 0
  BY <1>1
<1> QED
  BY <1>1, <1>2, EmptySeq

(* Whether a step succeeds or fails, calls are left or all are done.       *)
LEMMA DoneKeeps ==
  ASSUME NEW rest \in Seq(Calls), Done(rest), pattern' = pattern,
         pattern \in Patterns
  PROVE  CallsLeft'
BY DEF Done, CallsLeft

(* A call that succeeds is followed by the pattern's next one.             *)
LEMMA SucceedsKeeps ==
  ASSUME BuildInv, phase = "connect", Succeeds, pattern' = pattern
  PROVE  CallsLeft'
<1>1. Head(todo) \in Seq(Steps) /\ Head(todo) # <<>>
  BY StepNames DEF Calls
<1>2. Tail(todo) \in Seq(Calls)
  BY StepNames
<1>3. CASE Len(Head(todo)) = 1
  BY <1>2, <1>3, DoneKeeps DEF Succeeds, BuildInv, CallsLeft
<1>4. CASE Len(Head(todo)) # 1
  <2>1. Tail(Head(todo)) \in Calls
    BY <1>1, <1>4, LongTail DEF Calls
  <2>2. <<Tail(Head(todo))>> \o Tail(todo) \in Seq(Calls)
    BY <1>2, <2>1
  <2> QED
    BY <1>4, <2>2, DoneKeeps DEF Succeeds, BuildInv, CallsLeft
<1> QED
  BY <1>3, <1>4

(* One that fails by the next one too, or by the end of the pattern.       *)
LEMMA FailsKeeps ==
  ASSUME BuildInv, phase = "connect", Fails, pattern' = pattern
  PROVE  CallsLeft'
BY StepNames, DoneKeeps DEF Fails, BuildInv, CallsLeft
-----------------------------------------------------------------------------
(* pipeline_connect(): a queue that is reused keeps its reader, and a new  *)
(* one gets the node that had none.                                        *)
LEMMA ConnectKeeps ==
  ASSUME BuildInv, ConnectNodes
  PROVE  BuildInv'
<1>1. phase = "connect" /\ pattern' = pattern
  BY DEF ConnectNodes
<1>2. CallsLeft'
  <2>1. Succeeds \/ Fails
    BY DEF ConnectNodes, node_add_output
  <2> QED
    BY <1>1, <2>1, SucceedsKeeps, FailsKeeps
<1>3. Step.from \in Names /\ Step.to \in Names
  BY <1>1, StepNames DEF Steps, ConnectNodes
<1>4. QueuesRead'
  <2> DEFINE to == Step.to
             from == Step.from
  <2>1. to \in Names /\ from \in Names
    BY <1>3
  <2>2. \/ /\ input[to] # 0 /\ UNCHANGED <<queue_count, input>>
           /\ \/ outputs' = [outputs EXCEPT ![from] = Append(@, input[to])]
              \/ UNCHANGED outputs
        \/ /\ input[to] = 0
           /\ queue_count' = queue_count + 1
           /\ input' = [input EXCEPT ![to] = queue_count']
           /\ \/ outputs' = [outputs EXCEPT ![from] = Append(@, queue_count')]
              \/ UNCHANGED outputs
        \/ UNCHANGED <<queue_count, input, outputs>>
    BY Zenon DEF ConnectNodes, node_add_output, pipeline_create_queue,
                 node_set_input
  <2> HIDE DEF to, from
  <2>3. CASE /\ input[to] # 0 /\ UNCHANGED <<queue_count, input>>
             /\ \/ outputs' = [outputs EXCEPT ![from] = Append(@, input[to])]
                \/ UNCHANGED outputs
    <3>1. input[to] \in 1..queue_count /\ outputs[from] \in Seq(1..queue_count)
      BY <2>1, <2>3 DEF BuildInv, QueuesRead
    <3>2. Append(outputs[from], input[to]) \in Seq(1..queue_count)
      BY <3>1, AppendProperties
    <3>3. outputs' \in [Names -> Seq(1..queue_count)]
      <4>1. outputs \in [Names -> Seq(1..queue_count)]
        BY DEF BuildInv, QueuesRead
      <4> QED
        BY <2>1, <2>3, <3>2, <4>1
    <3> QED
      BY <2>3, <3>3 DEF BuildInv, QueuesRead
  <2>4. CASE /\ input[to] = 0
             /\ queue_count' = queue_count + 1
             /\ input' = [input EXCEPT ![to] = queue_count']
             /\ \/ outputs' = [outputs EXCEPT ![from] = Append(@, queue_count')]
                \/ UNCHANGED outputs
    <3>1. queue_count' \in Nat /\ input' \in [Names -> 0..queue_count']
      BY <2>1, <2>4 DEF BuildInv, QueuesRead
    <3>2. outputs' \in [Names -> Seq(1..queue_count')]
      <4>1. \A n \in Names : outputs[n] \in Seq(1..queue_count')
        BY <2>4 DEF BuildInv, QueuesRead
      <4>2. queue_count' \in 1..queue_count'
        BY <2>4 DEF BuildInv, QueuesRead
      <4>3. Append(outputs[from], queue_count') \in Seq(1..queue_count')
        BY <2>1, <4>1, <4>2, AppendProperties
      <4>4. outputs \in [Names -> Seq(1..queue_count')]
        BY <4>1 DEF BuildInv, QueuesRead
      <4> QED
        BY <2>1, <2>4, <4>3, <4>4
    <3>3. \A q \in 1..queue_count' : \E n \in Names : input'[n] = q
      <4> SUFFICES ASSUME NEW q \in 1..queue_count'
                   PROVE  \E n \in Names : input'[n] = q
        OBVIOUS
      <4>1. input' \in [Names -> 0..queue_count'] /\ input'[to] = queue_count'
        BY <2>1, <2>4 DEF BuildInv, QueuesRead
      <4>2. CASE q = queue_count'
        BY <2>1, <4>1, <4>2
      <4>3. CASE q # queue_count'
        <5>1. q \in 1..queue_count
          BY <2>4, <4>3 DEF BuildInv, QueuesRead
        <5>2. PICK n \in Names : input[n] = q
          BY <5>1 DEF BuildInv, QueuesRead
        <5>3. n # to
          BY <2>4, <5>1, <5>2 DEF BuildInv, QueuesRead
        <5>4. input'[n] = q
          BY <2>1, <2>4, <5>2, <5>3 DEF BuildInv, QueuesRead
        <5> QED
          BY <5>4
      <4> QED
        BY <4>2, <4>3
    <3>4. \A m, n \in Names : input'[m] = input'[n] /\ input'[m] # 0 => m = n
      BY <2>1, <2>4 DEF BuildInv, QueuesRead
    <3> QED
      BY <3>1, <3>2, <3>3, <3>4 DEF QueuesRead
  <2>5. CASE UNCHANGED <<queue_count, input, outputs>>
    BY <2>5 DEF BuildInv, QueuesRead
  <2> QED
    BY <2>2, <2>3, <2>4, <2>5
<1> QED
  BY <1>2, <1>4 DEF BuildInv
-----------------------------------------------------------------------------
(* The other steps of the construction.                                    *)
LEMMA BuildKeeps ==
  ASSUME BuildInv, Build
  PROVE  BuildInv'
<1>1. ASSUME UNCHANGED <<queue_count, input, outputs>> PROVE QueuesRead'
  BY <1>1 DEF BuildInv, QueuesRead
<1>2. CASE CreateNode
  <2>1. UNCHANGED <<queue_count, input, outputs>>
    BY <1>2 DEF CreateNode
  <2>2. /\ phase = "create" /\ phase' \in {"connect", "create"}
        /\ UNCHANGED <<pattern, todo>>
    BY <1>2 DEF CreateNode
  <2>3. CallsLeft'
    BY <2>2, PatternCalls DEF BuildInv, CallsLeft
  <2> QED
    BY <1>1, <2>1, <2>3 DEF BuildInv
<1>3. CASE CreateFails
  BY <1>1, <1>3 DEF CreateFails, BuildInv, CallsLeft
<1>4. CASE AddNode
  <2>1. /\ phase = "connect" /\ (Succeeds \/ Fails)
        /\ UNCHANGED <<pattern, queue_count, input, outputs>>
    BY <1>4, Zenon DEF AddNode
  <2> QED
    BY <1>1, <2>1, SucceedsKeeps, FailsKeeps DEF BuildInv
<1>5. CASE AddDispatcher
  <2>1. /\ phase = "connect" /\ (Succeeds \/ Fails)
        /\ UNCHANGED <<pattern, queue_count, input, outputs>>
    BY <1>5, Zenon DEF AddDispatcher
  <2> QED
    BY <1>1, <2>1, SucceedsKeeps, FailsKeeps DEF BuildInv
<1> QED
  BY <1>2, <1>3, <1>4, <1>5, ConnectKeeps DEF Build

(* pipeline_init() only begins the construction.                           *)
LEMMA InitPipelineKeeps ==
  ASSUME BuildInv, pipeline_init \/ InitFails
  PROVE  BuildInv'
<1>1. /\ phase = "none" /\ phase' \in {"create", "failed"}
      /\ UNCHANGED <<pattern, todo, queue_count, input, outputs>>
  BY DEF pipeline_init, InitFails, wiring
<1> QED
  BY <1>1 DEF BuildInv, CallsLeft, QueuesRead

(* Nothing else of the daemon touches the wiring.                          *)
wiredVars == <<pattern, phase, todo, nodes, queue_count, input, outputs, dropped>>

(* main changes it only while it builds the pipeline.                      *)
LEMMA MainLeavesWiring ==
  ASSUME MainStep
  PROVE  UNCHANGED wiredVars \/ Build \/ pipeline_init \/ InitFails
<1> USE DEF wiredVars, buildVars, wiring
<1>1. CASE StartLog \/ SetLimit \/ InstallHandler \/ FillTagRules
  BY <1>1 DEF StartLog, SetLimit, InstallHandler, FillTagRules
<1>2. CASE InitPipeline \/ BuildPipeline
  BY <1>2, Zenon DEF InitPipeline, BuildPipeline
<1>3. CASE StartNode \/ MainJoins
  BY <1>3 DEF StartNode, MainJoins
<1>4. CASE DestroyPipeline \/ FreePipeline
  BY <1>4 DEF DestroyPipeline, FreePipeline
<1> QED
  BY <1>1, <1>2, <1>3, <1>4 DEF MainStep

(* Signals, handlers and nodes leave it alone.                             *)
LEMMA OthersLeaveWiring ==
  ASSUME \/ Signal
         \/ \E k \in 1..MaxSignals : HandlerStep(k)
         \/ \E n \in Names : NodeEnds(n) \/ GivesUp(n) \/ UsesDestroyed(n)
  PROVE  UNCHANGED wiredVars
<1> USE DEF wiredVars, buildVars, wiring
<1>1. CASE Signal
  BY <1>1 DEF Signal
<1>2. ASSUME NEW k \in 1..MaxSignals, HandlerStep(k) PROVE UNCHANGED wiredVars
  BY <1>2 DEF HandlerStep, StopBegins, StopJoins, StopReturns
<1>3. ASSUME NEW n \in Names, NodeEnds(n) \/ GivesUp(n) \/ UsesDestroyed(n)
      PROVE  UNCHANGED wiredVars
  BY <1>3 DEF NodeEnds, GivesUp, UsesDestroyed
<1> QED
  BY <1>1, <1>2, <1>3

(* The wiring is sound at every moment of the daemon's life.               *)
THEOREM BuildInvariant == Spec => []BuildInv
<1>1. Init => BuildInv
  <2> SUFFICES ASSUME Init PROVE BuildInv
    OBVIOUS
  <2>1. CallsLeft
    BY PatternCalls DEF Init, BuildInit, CallsLeft
  <2>2. QueuesRead
    BY EmptySeq DEF Init, BuildInit, QueuesRead
  <2> QED
    BY <2>1, <2>2 DEF BuildInv
<1>2. BuildInv /\ [Next]_vars => BuildInv'
  <2> SUFFICES ASSUME BuildInv, [Next]_vars PROVE BuildInv'
    OBVIOUS
  <2>1. ASSUME UNCHANGED wiredVars PROVE BuildInv'
    BY <2>1 DEF wiredVars, BuildInv, CallsLeft, QueuesRead
  <2>2. CASE MainStep
    BY <2>1, <2>2, MainLeavesWiring, BuildKeeps, InitPipelineKeeps
  <2>3. CASE \/ Signal
             \/ \E k \in 1..MaxSignals : HandlerStep(k)
             \/ \E n \in Names : NodeEnds(n) \/ GivesUp(n) \/ UsesDestroyed(n)
    BY <2>1, <2>3, OthersLeaveWiring
  <2>4. CASE UNCHANGED vars
    BY <2>1, <2>4 DEF vars, buildVars, wiring, wiredVars
  <2> QED
    BY <2>2, <2>3, <2>4 DEF Next
<1> QED
  BY <1>1, <1>2, PTL DEF Spec

(* OneReader: whatever pattern is built and whatever fails on the way, no  *)
(* queue is without a reader and none has two.                             *)
THEOREM OneReaderHolds == Spec => []OneReader
<1>1. BuildInv => OneReader
  <2> SUFFICES ASSUME BuildInv PROVE OneReader
    OBVIOUS
  <2>1. ASSUME NEW q \in 1..queue_count PROVE Cardinality(Readers(q)) = 1
    <3>1. PICK n \in Names : input[n] = q
      BY DEF BuildInv, QueuesRead
    <3>2. q # 0
      BY DEF BuildInv, QueuesRead
    <3>3. Readers(q) = {n}
      BY <3>1, <3>2 DEF BuildInv, QueuesRead, Readers
    <3> QED
      BY <3>3, FS_Singleton
  <2>2. ASSUME NEW n \in Names, NEW i \in 1..Len(outputs[n])
        PROVE  outputs[n][i] \in 1..queue_count
    <3>1. outputs[n] \in Seq(1..queue_count)
      BY DEF BuildInv, QueuesRead
    <3> QED
      BY <3>1, ElementOfSeq
  <2> QED
    BY <2>1, <2>2 DEF OneReader
<1> QED
  BY <1>1, BuildInvariant, PTL

-----------------------------------------------------------------------------
(* Where the construction is.  It is always at some step of its pattern,   *)
(* and each of the steps before that one has added its own node, or none.  *)

(* The pattern is about to make the k-th step of its c-th call.            *)
AtPlace(c, k) ==
  /\ c \in 1..(Len(pattern.calls) + 1)
  /\ Len(todo) = Len(pattern.calls) + 1 - c
  /\ todo = <<>> => k = 1
  /\ todo # <<>> =>
       /\ k \in 1..Len(pattern.calls[c])
       /\ Len(Head(todo)) = Len(pattern.calls[c]) + 1 - k
       /\ \A j \in 1..Len(Head(todo)) : Head(todo)[j] = pattern.calls[c][k - 1 + j]
  /\ \A i \in 2..Len(todo) : todo[i] = pattern.calls[c + i - 1]

(* The place of the step after that one.                                   *)
Follows(d, l, c, k) ==
  \/ d = c /\ l = k + 1
  \/ d = c + 1 /\ l = 1 /\ k = Len(pattern.calls[c])

(* The step of a pattern that is at a place is the one it has there.       *)
LEMMA StepAtPlace ==
  ASSUME BuildInv, phase = "connect", NEW c \in Nat, NEW k \in Nat, AtPlace(c, k)
  PROVE  /\ Len(pattern.calls) \in Nat
         /\ \A b \in 1..Len(pattern.calls) : Len(pattern.calls[b]) \in Nat
         /\ c \in 1..Len(pattern.calls) /\ k \in 1..Len(pattern.calls[c])
         /\ Step = pattern.calls[c][k]
<1>1. pattern.calls \in Seq(Calls)
  BY PatternCalls DEF BuildInv, CallsLeft
<1>2. /\ Len(pattern.calls) \in Nat
      /\ \A b \in 1..Len(pattern.calls) : Len(pattern.calls[b]) \in Nat
  <2>1. ASSUME NEW b \in 1..Len(pattern.calls) PROVE Len(pattern.calls[b]) \in Nat
    <3>1. pattern.calls[b] \in Calls
      BY <1>1, ElementOfSeq
    <3> QED
      BY <3>1, LenProperties DEF Calls
  <2> QED
    BY <1>1, <2>1, LenProperties
<1>3. todo \in Seq(Calls) /\ todo # <<>> /\ Len(todo) \in Nat /\ Len(todo) # 0
  BY LenProperties, EmptySeq DEF BuildInv, CallsLeft
<1>4. c \in 1..Len(pattern.calls) /\ k \in 1..Len(pattern.calls[c])
  BY <1>2, <1>3 DEF AtPlace
<1>5. Head(todo) \in Seq(Steps) /\ Head(todo) # <<>>
  BY StepNames DEF Calls
<1>6. 1 \in 1..Len(Head(todo)) /\ Head(Head(todo)) = Head(todo)[1]
  BY <1>5, LenProperties, EmptySeq
<1>7. Head(todo)[1] = pattern.calls[c][k]
  <2>1. \A j \in 1..Len(Head(todo)) : Head(todo)[j] = pattern.calls[c][k - 1 + j]
    BY <1>3 DEF AtPlace
  <2>2. k - 1 + 1 = k
    OBVIOUS
  <2> QED
    BY <1>6, <2>1, <2>2
<1> QED
  BY <1>2, <1>4, <1>6, <1>7 DEF Step

(* With the rest of the calls, the pattern is at the first step of the     *)
(* next one.                                                               *)
LEMMA NextCall ==
  ASSUME BuildInv, phase = "connect", NEW c \in Nat, NEW k \in Nat, AtPlace(c, k),
         todo' = Tail(todo), pattern' = pattern
  PROVE  AtPlace(c + 1, 1)'
<1> DEFINE calls == pattern.calls
           rest == Tail(todo)
<1>1. /\ Len(calls) \in Nat /\ c \in 1..Len(calls)
      /\ \A b \in 1..Len(calls) : Len(calls[b]) \in Nat
  BY StepAtPlace
<1>2. /\ todo \in Seq(Calls) /\ todo # <<>> /\ Len(todo) \in Nat /\ Len(todo) # 0
      /\ rest \in Seq(Calls) /\ Len(rest) = Len(todo) - 1
      /\ \A i \in 1..Len(rest) : rest[i] = todo[i + 1]
  BY HeadTailProperties, LenProperties, EmptySeq DEF BuildInv, CallsLeft
<1>3. /\ Len(todo) = Len(calls) + 1 - c
      /\ \A i \in 2..Len(todo) : todo[i] = calls[c + i - 1]
  BY <1>2 DEF AtPlace
<1>4. \A i \in 1..Len(rest) : rest[i] = calls[c + i]
  <2> SUFFICES ASSUME NEW i \in 1..Len(rest) PROVE rest[i] = calls[c + i]
    OBVIOUS
  <2>1. i + 1 \in 2..Len(todo) /\ c + (i + 1) - 1 = c + i
    BY <1>1, <1>2
  <2> QED
    BY <1>2, <1>3, <2>1
<1> HIDE DEF calls, rest
<1>5. /\ c + 1 \in 1..(Len(calls) + 1)
      /\ Len(rest) = Len(calls) + 1 - (c + 1)
  BY <1>1, <1>2, <1>3
<1>6. \A i \in 2..Len(rest) : rest[i] = calls[c + 1 + i - 1]
  <2> SUFFICES ASSUME NEW i \in 2..Len(rest)
               PROVE  rest[i] = calls[c + 1 + i - 1]
    OBVIOUS
  <2>1. i \in 1..Len(rest) /\ c + 1 + i - 1 = c + i
    BY <1>1, <1>2
  <2> QED
    BY <1>4, <2>1
<1>7. ASSUME rest # <<>>
      PROVE  /\ 1 \in 1..Len(calls[c + 1])
             /\ Len(Head(rest)) = Len(calls[c + 1]) + 1 - 1
             /\ \A j \in 1..Len(Head(rest)) : Head(rest)[j] = calls[c + 1][1 - 1 + j]
  <2>1. 1 \in 1..Len(rest) /\ Head(rest) = rest[1]
    BY <1>2, <1>7, LenProperties, EmptySeq
  <2>2. Head(rest) = calls[c + 1] /\ Head(rest) \in Calls
    BY <1>2, <1>4, <2>1, ElementOfSeq
  <2>3. Len(Head(rest)) \in Nat /\ Len(Head(rest)) # 0
    BY <2>2, LenProperties, EmptySeq DEF Calls
  <2>4. \A j \in 1..Len(Head(rest)) : 1 - 1 + j = j
    BY <2>3
  <2> QED
    BY <2>2, <2>3, <2>4
<1>8. todo' = rest /\ pattern'.calls = calls
  BY DEF calls, rest
<1> QED
  BY <1>5, <1>6, <1>7, <1>8 DEF AtPlace

(* A step that succeeds brings the construction to the next place.         *)
LEMMA NextPlace ==
  ASSUME BuildInv, phase = "connect", NEW c \in Nat, NEW k \in Nat, AtPlace(c, k),
         Succeeds, pattern' = pattern
  PROVE  \E d, l \in Nat : AtPlace(d, l)' /\ Follows(d, l, c, k)
<1> DEFINE calls == pattern.calls
           first == Head(todo)
           rest == Tail(todo)
<1>1. /\ Len(calls) \in Nat /\ c \in 1..Len(calls)
      /\ Len(calls[c]) \in Nat /\ k \in 1..Len(calls[c])
      /\ \A b \in 1..Len(calls) : Len(calls[b]) \in Nat
  BY StepAtPlace
<1>2. /\ todo \in Seq(Calls) /\ todo # <<>> /\ Len(todo) \in Nat /\ Len(todo) # 0
      /\ rest \in Seq(Calls) /\ Len(rest) = Len(todo) - 1
      /\ \A i \in 1..Len(rest) : rest[i] = todo[i + 1]
  BY HeadTailProperties, LenProperties, EmptySeq DEF BuildInv, CallsLeft
<1>3. /\ first \in Seq(Steps) /\ first # <<>> /\ Len(first) \in Nat /\ Len(first) # 0
  BY StepNames, LenProperties, EmptySeq DEF Calls
<1>4. /\ Len(todo) = Len(calls) + 1 - c
      /\ Len(first) = Len(calls[c]) + 1 - k
      /\ \A j \in 1..Len(first) : first[j] = calls[c][k - 1 + j]
      /\ \A i \in 2..Len(todo) : todo[i] = calls[c + i - 1]
  BY <1>2 DEF AtPlace
<1>5. \A i \in 1..Len(rest) : rest[i] = calls[c + i]
  <2> SUFFICES ASSUME NEW i \in 1..Len(rest) PROVE rest[i] = calls[c + i]
    OBVIOUS
  <2>1. i + 1 \in 2..Len(todo) /\ c + (i + 1) - 1 = c + i
    BY <1>1, <1>2
  <2> QED
    BY <1>2, <1>4, <2>1
<1>6. PICK N \in Nat, K \in Nat, T \in Nat, F \in Nat :
        N = Len(calls) /\ K = Len(calls[c]) /\ T = Len(todo) /\ F = Len(first)
  BY <1>1, <1>2, <1>3
<1>7. c \in 1..N /\ k \in 1..K /\ T = N + 1 - c /\ F = K + 1 - k /\ F # 0
  BY <1>1, <1>3, <1>4, <1>6
<1>8. Len(rest) = T - 1
  BY <1>2, <1>6
<1>9. todo' = IF F = 1 THEN rest ELSE <<Tail(first)>> \o rest
  BY <1>6, Zenon DEF Succeeds, Done
<1> HIDE DEF calls, first, rest
<1>10. CASE F = 1
  <2>1. k = K /\ todo' = rest
    BY <1>7, <1>9, <1>10
  <2>2. AtPlace(c + 1, 1)'
    BY <2>1, NextCall DEF rest
  <2>3. c + 1 \in Nat /\ 1 \in Nat
    OBVIOUS
  <2> QED
    BY <1>6, <2>1, <2>2, <2>3 DEF calls, Follows
<1>11. CASE F # 1
  <2> DEFINE on == Tail(first)
             new == <<on>> \o rest
  <2>1. todo' = new /\ pattern'.calls = calls
    BY <1>9, <1>11 DEF calls
  <2>2. /\ on \in Seq(Steps) /\ on # <<>> /\ Len(on) = F - 1
        /\ \A j \in 1..Len(on) : on[j] = first[j + 1]
    BY <1>3, <1>6, <1>11, HeadTailProperties, LongTail
  <2> HIDE DEF on
  <2>3. /\ new # <<>> /\ Head(new) = on /\ Len(new) = T
        /\ \A i \in 2..Len(new) : new[i] = rest[i - 1]
    <3>1. Len(new) = 1 + Len(rest) /\ new[1] = on
      BY <1>2
    <3>2. \A i \in 2..Len(new) : new[i] = rest[i - 1]
      BY <1>2, <3>1
    <3>3. new \in Seq({on} \cup Calls)
      BY <1>2
    <3>4. new # <<>> /\ Head(new) = on
      BY <1>2, <3>1, <3>3, LenProperties, EmptySeq
    <3> QED
      BY <1>8, <3>1, <3>2, <3>4
  <2> HIDE DEF new
  <2>4. PICK l \in Nat : l = k + 1
    OBVIOUS
  <2>5. /\ c \in 1..(Len(calls) + 1) /\ Len(new) = Len(calls) + 1 - c
        /\ l \in 1..Len(calls[c]) /\ Len(on) = Len(calls[c]) + 1 - l
    <3>1. c \in 1..(N + 1) /\ l \in 1..K /\ F - 1 = K + 1 - l
      BY <1>7, <1>11, <2>4
    <3> QED
      BY <1>6, <1>7, <2>2, <2>3, <3>1
  <2>6. ASSUME NEW j \in 1..Len(on) PROVE on[j] = calls[c][l - 1 + j]
    <3>1. j + 1 \in 1..F /\ k - 1 + (j + 1) = l - 1 + j
      BY <2>2, <2>4
    <3> QED
      BY <1>4, <1>6, <2>2, <3>1
  <2>7. ASSUME NEW i \in 2..Len(new) PROVE new[i] = calls[c + i - 1]
    <3>1. i - 1 \in 1..Len(rest) /\ c + (i - 1) = c + i - 1
      BY <1>8, <2>3
    <3> QED
      BY <1>5, <2>3, <3>1
  <2>8. AtPlace(c, l)'
    BY <2>1, <2>3, <2>5, <2>6, <2>7 DEF AtPlace
  <2> QED
    BY <2>4, <2>8 DEF Follows
<1> QED
  BY <1>10, <1>11

(* In any case the steps that come before the new place include the one    *)
(* that was just made and those before it.                                 *)
LEMMA PlaceGoesOn ==
  ASSUME BuildInv, phase = "connect", NEW c \in Nat, NEW k \in Nat, AtPlace(c, k),
         Succeeds \/ Fails, pattern' = pattern
  PROVE  \E d, l \in Nat : /\ AtPlace(d, l)'
                            /\ <<c, k>> \in Earlier(pattern, d, l)
                            /\ Earlier(pattern, c, k) \subseteq Earlier(pattern, d, l)
<1>1. /\ c \in 1..Len(pattern.calls) /\ k \in 1..Len(pattern.calls[c])
      /\ Len(pattern.calls) \in Nat
      /\ \A b \in 1..Len(pattern.calls) : Len(pattern.calls[b]) \in Nat
  BY StepAtPlace
<1>2. PICK d \in Nat, l \in Nat : AtPlace(d, l)' /\ ((d = c /\ l = k + 1) \/ d = c + 1)
  <2>1. CASE Succeeds
    <3>1. PICK d \in Nat, l \in Nat : AtPlace(d, l)' /\ Follows(d, l, c, k)
      BY <2>1, NextPlace
    <3> QED
      BY <3>1 DEF Follows
  <2>2. CASE Fails
    <3>1. AtPlace(c + 1, 1)'
      BY <2>2, NextCall DEF Fails, Done
    <3>2. c + 1 \in Nat /\ 1 \in Nat
      OBVIOUS
    <3> QED
      BY <3>1, <3>2
  <2> QED
    BY <2>1, <2>2
<1>3. ASSUME NEW x \in Places(pattern) PROVE x[1] \in Nat /\ x[2] \in Nat
  <2>1. PICK b \in 1..Len(pattern.calls) : x \in {b} \X (1..Len(pattern.calls[b]))
    BY DEF Places
  <2> QED
    BY <1>1, <2>1
<1>4. <<c, k>> \in Places(pattern)
  BY <1>1 DEF Places
<1>5. <<c, k>> \in Earlier(pattern, d, l)
  BY <1>2, <1>4 DEF Earlier
<1>6. Earlier(pattern, c, k) \subseteq Earlier(pattern, d, l)
  BY <1>2, <1>3 DEF Earlier
<1> QED
  BY <1>2, <1>5, <1>6

(* The pipeline lists nodes that steps already made have added, each once. *)
ListedBy(c, k) ==
  /\ \A i \in 1..Len(nodes) : \E x \in Earlier(pattern, c, k) :
       StepAt(pattern, x).op # "connect" /\ StepAt(pattern, x).node = nodes[i]
  /\ \A i, j \in 1..Len(nodes) : nodes[i] = nodes[j] => i = j

PlaceInv == \E c, k \in Nat : AtPlace(c, k) /\ ListedBy(c, k)

(* A pattern adds no node that the pipeline lists already, and adds with   *)
(* pipeline_add_node() only what it has created.                           *)
LEMMA StepAddsNew ==
  ASSUME BuildInv, phase = "connect", NEW c \in Nat, NEW k \in Nat, AtPlace(c, k),
         ListedBy(c, k), Step.op # "connect"
  PROVE  /\ \A i \in 1..Len(nodes) : nodes[i] # Step.node
         /\ StepAt(pattern, <<c, k>>) = Step
         /\ Step.op = "add" =>
              \E i \in 1..Len(pattern.create) : Step.node = pattern.create[i]
<1> DEFINE p == pattern
           x == <<c, k>>
<1>1. /\ c \in 1..Len(p.calls) /\ k \in 1..Len(p.calls[c])
      /\ Step = p.calls[c][k]
  BY StepAtPlace
<1>2. x \in Places(p) /\ StepAt(p, x) = Step
  BY <1>1 DEF Places, StepAt
<1>3. p \in Patterns
  BY DEF BuildInv, CallsLeft
<1>4. /\ StepAt(p, x).op = "add" =>
           StepAt(p, x).node \in {p.create[i] : i \in 1..Len(p.create)}
      /\ \A y \in Places(p) :
           StepAt(p, y).op # "connect" /\ StepAt(p, y).node = StepAt(p, x).node
             => y = x
  BY <1>2, <1>3, NodesAssumption DEF NodesAssumption
<1>5. ASSUME NEW i \in 1..Len(nodes), nodes[i] = Step.node PROVE FALSE
  <2>1. PICK y \in Earlier(p, c, k) :
          StepAt(p, y).op # "connect" /\ StepAt(p, y).node = nodes[i]
    BY DEF ListedBy
  <2>2. y \in Places(p) /\ (y[1] < c \/ (y[1] = c /\ y[2] < k))
    BY <2>1 DEF Earlier
  <2>3. y = x
    BY <1>2, <1>4, <1>5, <2>1, <2>2
  <2> QED
    BY <2>2, <2>3
<1> QED
  BY <1>2, <1>4, <1>5

(* The place is a matter of the pattern, what is left of it, and the nodes. *)
LEMMA PlaceSame ==
  ASSUME PlaceInv, UNCHANGED <<pattern, todo, nodes>>
  PROVE  PlaceInv'
<1>1. PICK c \in Nat, k \in Nat : AtPlace(c, k) /\ ListedBy(c, k)
  BY DEF PlaceInv
<1>2. AtPlace(c, k)'
  BY <1>1 DEF AtPlace
<1>3. ListedBy(c, k)'
  BY <1>1 DEF ListedBy
<1> QED
  BY <1>2, <1>3 DEF PlaceInv

(* Every step of the construction keeps the nodes different.               *)
LEMMA PlaceKeeps ==
  ASSUME BuildInv, PlaceInv, nodes \in Seq(Names), Build
  PROVE  PlaceInv'
<1>1. PICK c \in Nat, k \in Nat : AtPlace(c, k) /\ ListedBy(c, k)
  BY DEF PlaceInv
<1>2. CASE CreateNode \/ CreateFails
  <2>1. pattern' = pattern /\ todo' = todo /\ nodes' = nodes
    BY <1>2 DEF CreateNode, CreateFails
  <2> QED
    BY <2>1, PlaceSame
<1>3. CASE AddNode \/ AddDispatcher \/ ConnectNodes
  <2>1. /\ phase = "connect" /\ pattern' = pattern
        /\ Succeeds \/ Fails
        /\ \/ nodes' = nodes
           \/ Step.op # "connect" /\ nodes' = Append(nodes, Step.node)
    BY <1>3, Zenon DEF AddNode, AddDispatcher, ConnectNodes, node_add_output
  <2>2. PICK d \in Nat, l \in Nat :
          /\ AtPlace(d, l)'
          /\ <<c, k>> \in Earlier(pattern, d, l)
          /\ Earlier(pattern, c, k) \subseteq Earlier(pattern, d, l)
    BY <1>1, <2>1, PlaceGoesOn
  <2>3. ASSUME NEW i \in 1..Len(nodes)
        PROVE  \E x \in Earlier(pattern, d, l) :
                 StepAt(pattern, x).op # "connect" /\ StepAt(pattern, x).node = nodes[i]
    BY <1>1, <2>2 DEF ListedBy
  <2>4. ListedBy(d, l)'
    <3>1. CASE nodes' = nodes
      BY <1>1, <2>1, <2>3, <3>1 DEF ListedBy
    <3>2. CASE Step.op # "connect" /\ nodes' = Append(nodes, Step.node)
      <4>1. /\ Len(nodes) \in Nat /\ Len(nodes') = Len(nodes) + 1
            /\ \A i \in 1..Len(nodes) : nodes'[i] = nodes[i]
            /\ nodes'[Len(nodes) + 1] = Step.node
        <5>1. Step.node \in Names
          BY <2>1, <3>2, StepNames DEF Steps
        <5> QED
          BY <3>2, <5>1, AppendProperties, LenProperties
      <4>2. /\ \A i \in 1..Len(nodes) : nodes[i] # Step.node
            /\ StepAt(pattern, <<c, k>>) = Step
        BY <1>1, <2>1, <3>2, StepAddsNew
      <4>3. ASSUME NEW i \in 1..Len(nodes')
            PROVE  \E x \in Earlier(pattern, d, l) :
                     StepAt(pattern, x).op # "connect" /\ StepAt(pattern, x).node = nodes'[i]
        <5>1. CASE i \in 1..Len(nodes)
          BY <2>3, <4>1, <5>1
        <5>2. CASE i = Len(nodes) + 1
          BY <2>2, <3>2, <4>1, <4>2, <5>2
        <5> QED
          BY <4>1, <5>1, <5>2
      <4>4. \A i, j \in 1..Len(nodes) : nodes[i] = nodes[j] => i = j
        BY <1>1 DEF ListedBy
      <4>5. ASSUME NEW i \in 1..Len(nodes'), NEW j \in 1..Len(nodes'),
                   nodes'[i] = nodes'[j]
            PROVE  i = j
        BY <4>1, <4>2, <4>4, <4>5
      <4> QED
        BY <2>1, <4>3, <4>5 DEF ListedBy
    <3> QED
      BY <2>1, <3>1, <3>2
  <2> QED
    BY <2>2, <2>4 DEF PlaceInv
<1> QED
  BY <1>2, <1>3 DEF Build

(* It starts at the first step of the first call.                          *)
LEMMA FirstPlace ==
  ASSUME pattern \in Patterns, todo = pattern.calls
  PROVE  AtPlace(1, 1)
<1>1. pattern.calls \in Seq(Calls) /\ pattern.calls # <<>>
  BY PatternCalls
<1>2. Len(pattern.calls) \in Nat /\ Len(pattern.calls) # 0
  BY <1>1, LenProperties, EmptySeq
<1>3. 1 \in 1..Len(pattern.calls) /\ Head(todo) = pattern.calls[1]
  BY <1>1, <1>2
<1>4. Head(todo) \in Calls
  BY <1>1, <1>3, ElementOfSeq
<1>5. Len(Head(todo)) \in Nat /\ Len(Head(todo)) # 0
  BY <1>4, LenProperties, EmptySeq DEF Calls
<1>6. /\ 1 \in 1..(Len(pattern.calls) + 1)
      /\ Len(todo) = Len(pattern.calls) + 1 - 1
      /\ \A i \in 2..Len(todo) : todo[i] = pattern.calls[1 + i - 1]
  BY <1>2
<1>7. /\ 1 \in 1..Len(pattern.calls[1])
      /\ Len(Head(todo)) = Len(pattern.calls[1]) + 1 - 1
      /\ \A j \in 1..Len(Head(todo)) : Head(todo)[j] = pattern.calls[1][1 - 1 + j]
  BY <1>3, <1>5
<1> QED
  BY <1>6, <1>7 DEF AtPlace

-----------------------------------------------------------------------------
(* What is allocated.  The pattern's first calls add the nodes it has      *)
(* created, so that no node is allocated that the pipeline does not know   *)
(* once it is built.                                                       *)

Created == {pattern.create[i] : i \in 1..created} \cup Listed
CallsMade == Len(pattern.calls) - Len(todo)

AddsInOrder ==
  /\ CallsMade \in Nat
  /\ CallsMade < Len(pattern.create) =>
       /\ Len(nodes) = CallsMade
       /\ \A i \in 1..Len(todo) : todo[i] = pattern.calls[CallsMade + i]
  /\ \A i \in 1..Len(pattern.create) :
       i <= CallsMade => pattern.create[i] \in Listed

Allocated ==
  /\ nodes \in Seq(Names)
  /\ created \in 0..Len(pattern.create)
  /\ phase \in {"none", "create", "failed", "connect", "built"}
  /\ phase \in {"none", "create", "failed"} => nodes = <<>>
  /\ phase = "none" => created = 0
  /\ phase = "create" => created < Len(pattern.create)
  /\ phase \in {"connect", "built"} => created = Len(pattern.create)
  /\ phase = "built" => todo = <<>>
  /\ alive = IF phase = "failed" \/ destroyed THEN {} ELSE Created
  /\ contexts = {n \in Created : HasContext(n)}

AllocInv == BuildInv /\ PlaceInv /\ AddsInOrder /\ Allocated

(* What PatternAssumption says of the pattern that is built.               *)
LEMMA PatternCreates ==
  ASSUME BuildInv
  PROVE  /\ Len(pattern.create) \in 1..MAX_PIPELINE_NODES
         /\ Len(pattern.create) <= Len(pattern.calls)
         /\ \A i \in 1..Len(pattern.create) :
              pattern.calls[i] = <<[op |-> "add", node |-> pattern.create[i]]>>
         /\ Len(pattern.calls) \in Nat /\ MAX_PIPELINE_NODES \in Nat
<1>1. pattern \in Patterns
  BY DEF BuildInv, CallsLeft
<1>2. Len(pattern.calls) \in Nat
  BY <1>1, PatternCalls, LenProperties
<1> QED
  BY <1>1, <1>2, PatternAssumption, BuildAssumption
     DEF PatternAssumption, BuildAssumption

(* A step of a call, whether it succeeds or fails, makes at most one call  *)
(* of the pattern complete.                                                *)
LEMMA CallProgress ==
  ASSUME AllocInv, phase = "connect", Succeeds \/ Fails, pattern' = pattern
  PROVE  /\ CallsMade' \in Nat /\ CallsMade' >= CallsMade
         /\ CallsMade' <= CallsMade + 1
         /\ phase' \in {"connect", "built"}
         /\ phase' = "built" => todo' = <<>>
<1>1. /\ todo \in Seq(Calls) /\ todo # <<>>
      /\ Tail(todo) \in Seq(Calls) /\ Len(Tail(todo)) = Len(todo) - 1
      /\ Len(todo) \in Nat
  BY HeadTailProperties, LenProperties DEF AllocInv, BuildInv, CallsLeft
<1>2. Len(todo') \in {Len(todo), Len(todo) - 1}
  <2>1. Len(<<Tail(Head(todo))>> \o Tail(todo)) = Len(todo)
    <3> DEFINE x == Tail(Head(todo))
    <3> HIDE DEF x
    <3>1. Len(<<x>> \o Tail(todo)) = 1 + Len(Tail(todo))
      BY <1>1
    <3> QED
      BY <1>1, <3>1 DEF x
  <2>2. todo' \in {Tail(todo), <<Tail(Head(todo))>> \o Tail(todo)}
    BY Zenon DEF Succeeds, Fails, Done
  <2> QED
    BY <1>1, <2>1, <2>2
<1>3. phase' \in {"connect", "built"} /\ (phase' = "built" => todo' = <<>>)
  BY DEF Succeeds, Fails, Done
<1>4. CallsMade \in Nat /\ Len(pattern.calls) \in Nat
  BY PatternCreates DEF AllocInv, AddsInOrder
<1>5. CallsMade' = Len(pattern.calls) - Len(todo')
  BY DEF CallsMade
<1>6. CASE Len(todo') = Len(todo)
  BY <1>3, <1>4, <1>5, <1>6 DEF CallsMade
<1>7. CASE Len(todo') = Len(todo) - 1
  BY <1>1, <1>3, <1>4, <1>5, <1>7 DEF CallsMade
<1> QED
  BY <1>2, <1>6, <1>7

(* While created nodes are left to add, the next step adds the first one.  *)
LEMMA NextIsAdd ==
  ASSUME AllocInv, phase = "connect", CallsMade < Len(pattern.create)
  PROVE  /\ Head(todo) = <<[op |-> "add", node |-> pattern.create[CallsMade + 1]]>>
         /\ Step = [op |-> "add", node |-> pattern.create[CallsMade + 1]]
         /\ Len(nodes) < MAX_PIPELINE_NODES
<1>1. todo \in Seq(Calls) /\ todo # <<>>
  BY DEF AllocInv, BuildInv, CallsLeft
<1>2. 1 \in 1..Len(todo) /\ Head(todo) = todo[1]
  BY <1>1, LenProperties, EmptySeq
<1>3. Head(todo) = pattern.calls[CallsMade + 1]
  BY <1>2 DEF AllocInv, AddsInOrder
<1>4. CallsMade \in Nat /\ CallsMade + 1 \in 1..Len(pattern.create)
  BY PatternCreates DEF AllocInv, AddsInOrder
<1>5. Head(todo) = <<[op |-> "add", node |-> pattern.create[CallsMade + 1]]>>
  BY <1>3, <1>4, PatternCreates DEF AllocInv
<1>6. Len(nodes) < MAX_PIPELINE_NODES
  BY <1>4, PatternCreates DEF AllocInv, AddsInOrder
<1> QED
  BY <1>5, <1>6 DEF Step

(* pipeline_add_node() and the dispatcher of pipeline_connect_shared(): a  *)
(* node that is added stays added, and while created nodes are left the    *)
(* next one of them is what is added.                                      *)
LEMMA AddKeeps ==
  ASSUME AllocInv, AddNode \/ AddDispatcher, destroyed' = destroyed, ~destroyed
  PROVE  AddsInOrder' /\ Allocated'
<1>1. /\ phase = "connect" /\ pattern' = pattern /\ created' = created
      /\ (Succeeds \/ Fails)
      /\ UNCHANGED nodes \/ nodes' = Append(nodes, Step.node)
      /\ Step.op \in {"add", "dispatcher"}
      /\ \/ /\ UNCHANGED <<alive, contexts>>
            /\ Step.op = "add" \/ UNCHANGED nodes
         \/ /\ nodes' = Append(nodes, Step.node)
            /\ alive' = alive \cup {Step.node}
            /\ contexts' = contexts \cup {m \in {Step.node} : HasContext(m)}
  BY Zenon DEF AddNode, AddDispatcher, node_create, memory
<1>2. /\ Step.node \in Names
      /\ Step.op = "add" =>
           \E i \in 1..Len(pattern.create) : Step.node = pattern.create[i]
  <2>1. PICK c \in Nat, k \in Nat : AtPlace(c, k) /\ ListedBy(c, k)
    BY DEF AllocInv, PlaceInv
  <2>2. Step.op # "connect"
    BY <1>1
  <2> QED
    BY <1>1, <2>1, <2>2, StepAddsNew, StepNames DEF Steps, AllocInv
<1>3. nodes \in Seq(Names) /\ Len(nodes) \in Nat
  BY LenProperties DEF AllocInv, Allocated
<1>4. /\ nodes' \in Seq(Names)
      /\ Listed \subseteq Listed'
      /\ Listed' = Listed \cup {Step.node} \/ UNCHANGED <<nodes, Listed>>
      /\ nodes' = Append(nodes, Step.node) => Listed' = Listed \cup {Step.node}
  <2>1. CASE UNCHANGED nodes
    <3>1. Listed' = Listed
      BY <2>1 DEF Listed
    <3>2. nodes' # Append(nodes, Step.node)
      <4>1. Len(Append(nodes, Step.node)) = Len(nodes) + 1
        BY <1>2, <1>3, AppendProperties
      <4> QED
        BY <1>3, <2>1, <4>1
    <3> QED
      BY <1>3, <2>1, <3>1, <3>2
  <2>2. CASE nodes' = Append(nodes, Step.node)
    <3>1. /\ nodes' \in Seq(Names) /\ Len(nodes') = Len(nodes) + 1
          /\ \A i \in 1..Len(nodes) : nodes'[i] = nodes[i]
          /\ nodes'[Len(nodes')] = Step.node
      BY <1>2, <1>3, <2>2, AppendProperties
    <3>2. Listed' = Listed \cup {Step.node}
      BY <1>3, <3>1 DEF Listed
    <3> QED
      BY <2>2, <3>1, <3>2
  <2> QED
    BY <1>1, <2>1, <2>2
<1>5. /\ CallsMade' \in Nat /\ CallsMade' >= CallsMade
      /\ CallsMade' <= CallsMade + 1
      /\ phase' \in {"connect", "built"}
      /\ phase' = "built" => todo' = <<>>
  BY <1>1, CallProgress
<1>6. CallsMade \in Nat /\ Len(pattern.create) \in Nat
  BY <1>1, PatternCreates DEF AllocInv, AddsInOrder
<1>7. Allocated'
  <2>1. created = Len(pattern.create) /\ alive = Created
    BY <1>1 DEF AllocInv, Allocated
  <2>2. \A m : HasContext(m)' <=> HasContext(m)
    BY <1>1 DEF HasContext
  <2>3. Step.op = "add" => Step.node \in Created
    BY <1>2, <2>1 DEF Created
  <2>4. \/ Created' = Created \cup {Step.node} /\ nodes' = Append(nodes, Step.node)
        \/ Created' = Created /\ UNCHANGED nodes
    <3> DEFINE made == {pattern.create[i] : i \in 1..created}
    <3>1. Created = made \cup Listed /\ Created' = made \cup Listed'
      BY <1>1 DEF Created
    <3>2. UNCHANGED nodes => Listed' = Listed
      BY DEF Listed
    <3> HIDE DEF made
    <3> QED
      BY <1>1, <1>4, <3>1, <3>2
  <2>5. UNCHANGED nodes => nodes' # Append(nodes, Step.node)
    BY <1>2, <1>3, AppendProperties
  <2>6. alive' = Created' /\ contexts' = {m \in Created' : HasContext(m)'}
    <3>1. contexts = {m \in Created : HasContext(m)}
      BY DEF AllocInv, Allocated
    <3>2. CASE UNCHANGED <<alive, contexts>>
      <4>1. Created' = Created
        BY <1>1, <2>1, <2>3, <2>4, <2>5, <3>2
      <4> QED
        BY <2>1, <2>2, <3>1, <3>2, <4>1
    <3>3. CASE /\ nodes' = Append(nodes, Step.node)
               /\ alive' = alive \cup {Step.node}
               /\ contexts' = contexts \cup {m \in {Step.node} : HasContext(m)}
      <4>1. Created' = Created \cup {Step.node}
        BY <2>4, <2>5, <3>3
      <4> QED
        BY <2>1, <2>2, <3>1, <3>3, <4>1
    <3> QED
      BY <1>1, <3>2, <3>3
  <2>7. phase' # "failed" /\ ~destroyed'
    BY <1>5
  <2> QED
    BY <1>1, <1>4, <1>5, <2>1, <2>6, <2>7 DEF AllocInv, Allocated
<1>8. CASE CallsMade < Len(pattern.create)
  <2> DEFINE n == pattern.create[CallsMade + 1]
  <2>1. /\ Head(todo) = <<[op |-> "add", node |-> n]>>
        /\ Step = [op |-> "add", node |-> n]
        /\ Len(nodes) < MAX_PIPELINE_NODES
    BY <1>1, <1>8, NextIsAdd
  <2> HIDE DEF n
  <2>2. AddNode
    BY <2>1 DEF AddDispatcher
  <2>3. nodes' = Append(nodes, n) /\ todo' = Tail(todo)
    BY <2>1, <2>2 DEF AddNode, Succeeds, Done
  <2>4. /\ todo \in Seq(Calls) /\ todo # <<>>
        /\ Len(todo) \in Nat /\ Len(todo') = Len(todo) - 1
        /\ \A i \in 1..Len(todo') : todo'[i] = todo[i + 1]
    BY <1>1, <2>3, HeadTailProperties, LenProperties
       DEF AllocInv, BuildInv, CallsLeft
  <2>5. CallsMade' = CallsMade + 1
    <3>1. CallsMade = Len(pattern.calls) - Len(todo) /\ Len(pattern.calls) \in Nat
      BY PatternCreates DEF CallsMade, AllocInv
    <3>2. CallsMade' = Len(pattern.calls) - Len(todo')
      BY <1>1 DEF CallsMade
    <3> QED
      BY <2>4, <3>1, <3>2
  <2>6. Len(nodes') = Len(nodes) + 1 /\ nodes'[Len(nodes) + 1] = n
    BY <1>3, <2>3
  <2>7. Len(nodes) = CallsMade
    BY <1>8 DEF AllocInv, AddsInOrder
  <2>8. n \in Listed'
    BY <1>3, <2>6 DEF Listed
  <2>9. ASSUME NEW i \in 1..Len(todo')
        PROVE  todo'[i] = pattern.calls[CallsMade' + i]
    <3>1. i + 1 \in 1..Len(todo)
      BY <2>4
    <3>2. todo[i + 1] = pattern.calls[CallsMade + (i + 1)]
      BY <1>8, <3>1 DEF AllocInv, AddsInOrder
    <3>3. CallsMade + (i + 1) = CallsMade' + i
      BY <1>6, <2>5
    <3> QED
      BY <2>4, <3>2, <3>3
  <2>10. ASSUME NEW i \in 1..Len(pattern.create), i <= CallsMade'
         PROVE  pattern.create[i] \in Listed'
    <3>1. CASE i = CallsMade + 1
      BY <2>8, <3>1 DEF n
    <3>2. CASE i # CallsMade + 1
      <4>1. i <= CallsMade
        BY <1>6, <2>5, <2>10, <3>2
      <4>2. pattern.create[i] \in Listed
        BY <4>1 DEF AllocInv, AddsInOrder
      <4> QED
        BY <1>4, <4>2
    <3> QED
      BY <3>1, <3>2
  <2> QED
    BY <1>1, <1>5, <1>7, <2>5, <2>6, <2>7, <2>9, <2>10 DEF AddsInOrder
<1>9. CASE ~(CallsMade < Len(pattern.create))
  <2>1. ~(CallsMade' < Len(pattern.create))
    BY <1>5, <1>6, <1>9
  <2>2. ASSUME NEW i \in 1..Len(pattern.create) PROVE pattern.create[i] \in Listed'
    BY <1>4, <1>6, <1>9 DEF AllocInv, AddsInOrder
  <2> QED
    BY <1>1, <1>5, <1>7, <2>1, <2>2 DEF AddsInOrder
<1> QED
  BY <1>8, <1>9

(* pipeline_connect() comes only after the created nodes were added.       *)
LEMMA ConnectKeepsAllocated ==
  ASSUME AllocInv, ConnectNodes, destroyed' = destroyed
  PROVE  AddsInOrder' /\ Allocated'
<1>1. /\ phase = "connect" /\ Step.op = "connect"
      /\ Succeeds \/ Fails
      /\ pattern' = pattern /\ created' = created
      /\ nodes' = nodes /\ alive' = alive /\ contexts' = contexts
  BY Zenon DEF ConnectNodes, node_add_output, memory
<1>2. ~(CallsMade < Len(pattern.create))
  <2> SUFFICES ASSUME CallsMade < Len(pattern.create) PROVE FALSE
    OBVIOUS
  <2>1. Step = [op |-> "add", node |-> pattern.create[CallsMade + 1]]
    BY <1>1, NextIsAdd
  <2> QED
    BY <1>1, <2>1
<1>3. /\ CallsMade' \in Nat /\ CallsMade' >= CallsMade
      /\ phase' \in {"connect", "built"}
      /\ phase' = "built" => todo' = <<>>
  BY <1>1, CallProgress
<1>4. CallsMade \in Nat /\ Len(pattern.create) \in Nat
  BY PatternCreates DEF AllocInv, AddsInOrder
<1>5. Listed' = Listed /\ Created' = Created
  BY <1>1 DEF Listed, Created
<1>6. Allocated'
  BY <1>1, <1>3, <1>5 DEF AllocInv, Allocated, HasContext
<1>7. AddsInOrder'
  <2>1. ~(CallsMade' < Len(pattern.create))
    BY <1>2, <1>3, <1>4
  <2>2. ASSUME NEW i \in 1..Len(pattern.create) PROVE pattern.create[i] \in Listed'
    BY <1>2, <1>4, <1>5 DEF AllocInv, AddsInOrder
  <2> QED
    BY <1>1, <1>3, <2>1, <2>2 DEF AddsInOrder
<1> QED
  BY <1>6, <1>7

-----------------------------------------------------------------------------
(* Creating a node, or failing to.                                         *)
LEMMA CreateKeeps ==
  ASSUME AllocInv, CreateNode \/ CreateFails, destroyed' = destroyed, ~destroyed
  PROVE  AddsInOrder' /\ Allocated'
<1>1. /\ phase = "create" /\ phase' \in {"create", "connect", "failed"}
      /\ pattern' = pattern /\ todo' = todo /\ nodes' = nodes
  BY DEF CreateNode, CreateFails
<1>2. Listed' = Listed /\ CallsMade' = CallsMade
  BY <1>1 DEF Listed, CallsMade
<1>3. AddsInOrder'
  BY <1>1, <1>2 DEF AllocInv, AddsInOrder
<1>4. created \in Nat /\ Len(pattern.create) \in Nat /\ created < Len(pattern.create)
  BY <1>1, PatternCreates DEF AllocInv, Allocated
<1>5. alive = Created /\ contexts = {n \in Created : HasContext(n)} /\ nodes = <<>>
  BY <1>1 DEF AllocInv, Allocated
<1>6. \A n : HasContext(n)' <=> HasContext(n)
  BY <1>1 DEF HasContext
<1>7. CASE CreateNode
  <2>1. /\ created' = created + 1 /\ alive' = alive \cup {NextNode}
        /\ contexts' = contexts \cup {n \in {NextNode} : HasContext(n)}
        /\ phase' = IF created' = Len(pattern.create) THEN "connect" ELSE "create"
    BY <1>7 DEF CreateNode, node_create
  <2>2. Created' = Created \cup {NextNode}
    <3>1. 1..created' = (1..created) \cup {created + 1}
      BY <1>4, <2>1
    <3> QED
      BY <1>1, <1>2, <3>1 DEF Created, NextNode
  <2>3. alive' = Created' /\ contexts' = {n \in Created' : HasContext(n)'}
    BY <1>5, <1>6, <2>1, <2>2
  <2>4. created' \in 0..Len(pattern.create)
    BY <1>4, <2>1
  <2>5. phase' \in {"create", "connect"}
        /\ (phase' = "create" => created' < Len(pattern.create))
        /\ (phase' = "connect" => created' = Len(pattern.create))
    BY <1>4, <2>1
  <2> QED
    BY <1>1, <1>3, <1>5, <2>3, <2>4, <2>5 DEF AllocInv, Allocated
<1>8. CASE CreateFails
  <2>1. alive' = {} /\ created' = created /\ phase' = "failed" /\ contexts' = contexts
    BY <1>8 DEF CreateFails, node_destroy
  <2>2. Created' = Created
    BY <1>1, <1>2, <2>1 DEF Created
  <2> QED
    BY <1>1, <1>3, <1>5, <1>6, <2>1, <2>2 DEF AllocInv, Allocated
<1> QED
  BY <1>7, <1>8

(* Every step of the construction keeps track of what is allocated.        *)
LEMMA BuildAllocates ==
  ASSUME AllocInv, Build, destroyed' = destroyed, ~destroyed
  PROVE  AllocInv'
<1>1. BuildInv' /\ PlaceInv'
  BY BuildKeeps, PlaceKeeps DEF AllocInv, Allocated
<1>2. AddsInOrder' /\ Allocated'
  BY CreateKeeps, AddKeeps, ConnectKeepsAllocated DEF Build
<1> QED
  BY <1>1, <1>2 DEF AllocInv

(* pipeline_init() allocates no nodes.                                     *)
LEMMA InitAllocates ==
  ASSUME AllocInv, pipeline_init \/ InitFails, destroyed' = destroyed, ~destroyed
  PROVE  AllocInv'
<1>1. /\ phase = "none" /\ phase' \in {"create", "failed"}
      /\ pattern' = pattern /\ todo' = todo /\ nodes' = nodes
      /\ created' = created /\ alive' = alive /\ contexts' = contexts
  BY DEF pipeline_init, InitFails, wiring, memory
<1>2. Listed' = Listed /\ Created' = Created /\ CallsMade' = CallsMade
  BY <1>1 DEF Listed, Created, CallsMade
<1>3. AddsInOrder' /\ PlaceInv'
  BY <1>1, <1>2, PlaceSame DEF AllocInv, AddsInOrder
<1>4. Allocated'
  <2>1. nodes = <<>> /\ created = 0
    BY <1>1 DEF AllocInv, Allocated
  <2>2. Created = {} /\ Len(pattern.create) \in Nat /\ Len(pattern.create) > 0
    <3>1. 1..created = {} /\ 1..Len(nodes) = {}
      BY <2>1
    <3> QED
      BY <3>1, PatternCreates DEF AllocInv, Created, Listed
  <2> QED
    BY <1>1, <1>2, <2>1, <2>2 DEF AllocInv, Allocated, HasContext
<1> QED
  BY <1>3, <1>4, InitPipelineKeeps DEF AllocInv

(* It depends on nothing else.                                             *)
LEMMA AllocSame ==
  ASSUME AllocInv, UNCHANGED <<pattern, phase, created, todo, wiring, destroyed>>
  PROVE  AllocInv'
<1>1. UNCHANGED <<pattern, phase, created, todo, nodes, queue_count, input,
                  outputs, alive, contexts, destroyed>>
  BY DEF wiring, memory
<1>2. BuildInv'
  BY <1>1 DEF AllocInv, BuildInv, CallsLeft, QueuesRead
<1>3. Listed' = Listed /\ Created' = Created /\ CallsMade' = CallsMade
  BY <1>1 DEF Listed, Created, CallsMade
<1>4. AddsInOrder' /\ PlaceInv'
  BY <1>1, <1>3, PlaceSame DEF AllocInv, AddsInOrder
<1>5. Allocated'
  BY <1>1, <1>3 DEF AllocInv, Allocated, HasContext
<1> QED
  BY <1>2, <1>4, <1>5 DEF AllocInv

-----------------------------------------------------------------------------
(* How far the cleanup has come.                                           *)

Before == {"start_log", "setrlimit", "signal", "load", "init"}
After == {"free", "aborted"}

Progress ==
  /\ at \in Before => phase = "none"
  /\ at = "build" => phase \in {"create", "connect"}
  /\ at \in {"start", "join"} => phase = "built"
  /\ at = "destroy" => phase \in {"none", "failed", "built"}
  /\ at \in After => destroyed
  /\ destroyed => at \in After \cup {"crashed"}

CleanInv == AllocInv /\ Progress

(* What signals, handlers and nodes leave alone.                           *)
mainVars == <<pattern, phase, created, todo, wiring, started, destroyed>>

(* Their steps do not move main(), but they may crash the process.         *)
LEMMA OthersStay ==
  ASSUME \/ Signal
         \/ \E k \in 1..MaxSignals : HandlerStep(k)
         \/ \E n \in Names : NodeEnds(n) \/ GivesUp(n) \/ UsesDestroyed(n)
  PROVE  UNCHANGED mainVars /\ at' \in {at, "crashed"}
<1> USE DEF mainVars, buildVars, wiring
<1>1. CASE Signal
  BY <1>1 DEF Signal
<1>2. ASSUME NEW k \in 1..MaxSignals, HandlerStep(k)
      PROVE  UNCHANGED mainVars /\ at' \in {at, "crashed"}
  <2>1. CASE StopBegins(k)
    BY <2>1 DEF StopBegins, Undefined
  <2>2. CASE StopJoins(k)
    BY <2>2 DEF StopJoins, Join, Undefined
  <2>3. CASE StopReturns(k)
    BY <2>3 DEF StopReturns
  <2> QED
    BY <1>2, <2>1, <2>2, <2>3 DEF HandlerStep
<1>3. ASSUME NEW n \in Names, NodeEnds(n) \/ GivesUp(n) \/ UsesDestroyed(n)
      PROVE  UNCHANGED mainVars /\ at' \in {at, "crashed"}
  BY <1>3 DEF NodeEnds, GivesUp, UsesDestroyed
<1> QED
  BY <1>1, <1>2, <1>3

(* Before main() builds the pipeline, and while it runs.                   *)
LEMMA RunningIsUnclean ==
  ASSUME CleanInv,
         \/ StartLog \/ SetLimit \/ InstallHandler \/ FillTagRules
         \/ StartNode \/ MainJoins
  PROVE  CleanInv'
<1> USE DEF buildVars, wiring, MainAt, Before, After
<1>1. UNCHANGED <<pattern, phase, created, todo, wiring, destroyed>>
  BY DEF StartLog, SetLimit, InstallHandler, FillTagRules, StartNode, MainJoins
<1>2. AllocInv'
  BY <1>1, AllocSame DEF CleanInv
<1>3. Progress'
  <2>1. CASE StartLog \/ SetLimit \/ InstallHandler \/ FillTagRules
    BY <1>1, <2>1 DEF StartLog, SetLimit, InstallHandler, FillTagRules, Logged,
                      CleanInv, Progress
  <2>2. CASE StartNode
    BY <1>1, <2>2 DEF StartNode, CleanInv, Progress
  <2>3. CASE MainJoins
    <3>1. at = "join" /\ at' \in {"join", "destroy", "crashed"}
      BY <2>3 DEF MainJoins, Join
    <3> QED
      BY <1>1, <3>1 DEF CleanInv, Progress
  <2> QED
    BY <2>1, <2>2, <2>3
<1> QED
  BY <1>2, <1>3 DEF CleanInv

(* The construction.                                                       *)
LEMMA BuildingIsUnclean ==
  ASSUME CleanInv, InitPipeline \/ BuildPipeline
  PROVE  CleanInv'
<1>1. CASE InitPipeline
  <2>1. /\ at = "init"
        /\ \/ pipeline_init /\ at' = "build"
           \/ InitFails /\ at' = "destroy"
        /\ destroyed' = destroyed
    BY <1>1, Zenon DEF InitPipeline, MainAt
  <2> ~destroyed
    BY <2>1 DEF CleanInv, Progress, After
  <2>2. AllocInv'
    BY <2>1, InitAllocates DEF CleanInv
  <2>3. \/ phase' = "create" /\ at' = "build"
        \/ phase' = "failed" /\ at' = "destroy"
    BY <2>1 DEF pipeline_init, InitFails
  <2> QED
    BY <2>1, <2>2, <2>3 DEF CleanInv, Progress, Before, After
<1>2. CASE BuildPipeline
  <2>1. /\ at = "build" /\ Build /\ destroyed' = destroyed
        /\ at' = CASE phase' = "built" -> "start"
                   [] phase' = "failed" -> "destroy"
                   [] OTHER -> "build"
    BY <1>2, Zenon DEF BuildPipeline, MainAt
  <2> ~destroyed
    BY <2>1 DEF CleanInv, Progress, After
  <2>2. AllocInv'
    BY <2>1, BuildAllocates DEF CleanInv
  <2>3. phase' \in {"create", "connect", "built", "failed"}
    <3>1. phase' # "none"
      BY <2>1 DEF Build, CreateNode, CreateFails, AddNode, AddDispatcher,
                  ConnectNodes, node_add_output, Succeeds, Fails, Done
    <3> QED
      BY <2>2, <3>1 DEF AllocInv, Allocated
  <2> QED
    BY <2>1, <2>2, <2>3 DEF CleanInv, Progress, Before, After
<1> QED
  BY <1>1, <1>2

(* When the construction is over, the pipeline lists what is allocated: if *)
(* it was built, every node that was created, and none otherwise.          *)
LEMMA ListedIsAlive ==
  ASSUME CleanInv, at = "destroy"
  PROVE  alive = Listed /\ ~destroyed /\ phase \in {"none", "failed", "built"}
<1>1. phase \in {"none", "failed", "built"} /\ ~destroyed
  BY DEF CleanInv, Progress, After
<1>2. CASE phase \in {"none", "failed"}
  <2>1. nodes = <<>> /\ (phase = "none" => created = 0)
    BY <1>2 DEF CleanInv, AllocInv, Allocated
  <2>2. Listed = {} /\ (phase = "none" => Created = {})
    <3>1. 1..Len(nodes) = {} /\ (phase = "none" => 1..created = {})
      BY <2>1
    <3> QED
      BY <3>1 DEF Listed, Created
  <2> QED
    BY <1>1, <1>2, <2>2 DEF CleanInv, AllocInv, Allocated
<1>3. CASE phase = "built"
  <2>1. todo = <<>> /\ alive = Created /\ created = Len(pattern.create)
    BY <1>1, <1>3 DEF CleanInv, AllocInv, Allocated
  <2>2. CallsMade = Len(pattern.calls) /\ Len(pattern.create) <= CallsMade
        /\ Len(pattern.create) \in Nat
    BY <2>1, PatternCreates DEF CallsMade, CleanInv, AllocInv
  <2>3. \A i \in 1..Len(pattern.create) : i <= CallsMade
    BY <2>2, PatternCreates DEF CleanInv, AllocInv
  <2>4. \A i \in 1..Len(pattern.create) : pattern.create[i] \in Listed
    BY <2>3 DEF CleanInv, AllocInv, AddsInOrder
  <2> QED
    BY <1>1, <2>1, <2>4 DEF Created
<1> QED
  BY <1>1, <1>2, <1>3

(* The cleanup frees the nodes, but not their contexts.                    *)
LEMMA CleanupCleans ==
  ASSUME CleanInv, DestroyPipeline \/ FreePipeline
  PROVE  CleanInv'
<1> USE DEF Before, After
<1>1. CASE DestroyPipeline
  <2>1. /\ UNCHANGED <<pattern, phase, created, todo, nodes, queue_count, input,
                       outputs, contexts>>
        /\ at = "destroy" /\ at' \in {"free", "crashed"}
        /\ destroyed' = TRUE /\ alive' = alive \ Listed
    BY <1>1 DEF DestroyPipeline, MainAt, queue_destroy, node_destroy, Undefined
  <2>2. Listed' = Listed /\ Created' = Created /\ CallsMade' = CallsMade
    BY <2>1 DEF Listed, Created, CallsMade
  <2>3. BuildInv' /\ PlaceInv' /\ AddsInOrder'
    BY <2>1, <2>2, PlaceSame DEF CleanInv, AllocInv, BuildInv, CallsLeft,
                                 QueuesRead, AddsInOrder
  <2>4. alive' = {}
    BY <2>1, ListedIsAlive
  <2>5. Allocated'
    BY <2>1, <2>2, <2>4 DEF CleanInv, AllocInv, Allocated, HasContext
  <2> QED
    BY <2>1, <2>3, <2>5 DEF CleanInv, AllocInv, Progress
<1>2. CASE FreePipeline
  <2>1. /\ UNCHANGED <<pattern, phase, created, todo, wiring, destroyed>>
        /\ at = "free" /\ at' = "aborted"
    BY <1>2 DEF FreePipeline, MainAt, buildVars
  <2> QED
    BY <2>1, AllocSame DEF CleanInv, Progress
<1> QED
  BY <1>1, <1>2

(* What is allocated is known throughout the daemon's life.                *)
THEOREM CleanInvariant == Spec => []CleanInv
<1>1. Init => CleanInv
  <2> SUFFICES ASSUME Init PROVE CleanInv
    OBVIOUS
  <2>1. BuildInv
    <3>1. CallsLeft
      BY PatternCalls DEF Init, BuildInit, CallsLeft
    <3>2. QueuesRead
      BY EmptySeq DEF Init, BuildInit, QueuesRead
    <3> QED
      BY <3>1, <3>2 DEF BuildInv
  <2>2. /\ todo = pattern.calls /\ nodes = <<>> /\ alive = {} /\ created = 0
        /\ phase = "none" /\ at = "start_log" /\ contexts = {} /\ ~destroyed
        /\ pattern \in Patterns
    BY DEF Init, BuildInit
  <2>3. CallsMade = 0
    BY <2>1, <2>2, PatternCreates DEF CallsMade
  <2>4. AddsInOrder
    <3>1. ASSUME NEW i \in 1..Len(todo) PROVE todo[i] = pattern.calls[CallsMade + i]
      BY <2>2, <2>3
    <3>2. Len(nodes) = 0
      BY <2>2
    <3> QED
      BY <2>1, <2>3, <3>1, <3>2, PatternCreates DEF AddsInOrder
  <2>5. Allocated
    <3>1. 1..created = {} /\ 1..Len(nodes) = {}
      BY <2>2
    <3>2. Created = {}
      BY <3>1 DEF Created, Listed
    <3> QED
      BY <2>1, <2>2, <3>2, PatternCreates DEF Allocated
  <2>6. PlaceInv
    <3>1. AtPlace(1, 1) /\ ListedBy(1, 1)
      BY <2>2, FirstPlace DEF ListedBy
    <3> QED
      BY <3>1 DEF PlaceInv
  <2> QED
    BY <2>1, <2>2, <2>4, <2>5, <2>6 DEF CleanInv, AllocInv, Progress, Before, After
<1>2. CleanInv /\ [Next]_vars => CleanInv'
  <2> SUFFICES ASSUME CleanInv, [Next]_vars PROVE CleanInv'
    OBVIOUS
  <2>1. ASSUME UNCHANGED mainVars, at' \in {at, "crashed"} PROVE CleanInv'
    BY <2>1, AllocSame DEF mainVars, wiring, CleanInv, Progress, Before, After
  <2>2. CASE MainStep
    BY <2>2, RunningIsUnclean, BuildingIsUnclean, CleanupCleans DEF MainStep
  <2>3. CASE \/ Signal
             \/ \E k \in 1..MaxSignals : HandlerStep(k)
             \/ \E n \in Names : NodeEnds(n) \/ GivesUp(n) \/ UsesDestroyed(n)
    BY <2>1, <2>3, OthersStay
  <2>4. CASE UNCHANGED vars
    BY <2>1, <2>4 DEF vars, buildVars, daemonVars, wiring, mainVars
  <2> QED
    BY <2>2, <2>3, <2>4 DEF Next
<1> QED
  BY <1>1, <1>2, PTL DEF Spec

(* FreedOnce: whichever step of the start-up or of the construction fails, *)
(* the nodes pipeline_destroy() finds in the pipeline are those that are   *)
(* allocated, and it finds each of them once.                              *)
THEOREM FreedOnceHolds == Spec => []FreedOnce
<1>1. CleanInv => FreedOnce
  BY ListedIsAlive DEF CleanInv, AllocInv, PlaceInv, ListedBy, FreedOnce
<1> QED
  BY <1>1, CleanInvariant, PTL

-----------------------------------------------------------------------------
(* What is drawn.  As long as no call has failed, the construction has      *)
(* built exactly what the steps before the one it is at drew.              *)

(* What has been built is the part of the graph the steps before drew.     *)
DrawnTo(c, k) ==
  /\ IsFiniteSet(Earlier(pattern, c, k))
  /\ Len(nodes) = NodesBy(pattern, c, k)
  /\ \A i \in 1..Len(nodes) : nodes[i] = pattern.order[i]
  /\ \A n \in DOMAIN pattern.wiring :
       /\ Len(outputs[n]) = LinksBy(pattern, c, k, n)
       /\ \A i \in 1..Len(outputs[n]) :
            /\ pattern.wiring[n][i] \in Names
            /\ input[pattern.wiring[n][i]] = outputs[n][i]

(* Unless a call has failed.                                               *)
DrawnInv ==
  /\ dropped \in Nat
  /\ dropped = 0 => \E c, k \in Nat : AtPlace(c, k) /\ DrawnTo(c, k)

(* A set with one element more.                                            *)
LEMMA OneMore ==
  ASSUME NEW S, IsFiniteSet(S), NEW T, NEW x, x \notin S,
         \A y : y \in T <=> y \in S \/ y = x
  PROVE  /\ IsFiniteSet(T) /\ Cardinality(S) \in Nat
         /\ Cardinality(T) = Cardinality(S) + 1
<1>1. T = S \cup {x}
  OBVIOUS
<1> QED
  BY <1>1, FS_AddElement, FS_CardinalityType

(* One step further, that step is one of the earlier ones, and it adds a   *)
(* node or gives its source an output.                                     *)
LEMMA OneStepOn ==
  ASSUME NEW c \in 1..Len(pattern.calls), NEW k \in 1..Len(pattern.calls[c]),
         Len(pattern.calls) \in Nat,
         \A b \in 1..Len(pattern.calls) : Len(pattern.calls[b]) \in Nat,
         NEW d \in Nat, NEW l \in Nat, Follows(d, l, c, k),
         IsFiniteSet(Earlier(pattern, c, k)),
         NEW step, step = pattern.calls[c][k]
  PROVE  /\ <<c, k>> \in Places(pattern) /\ StepAt(pattern, <<c, k>>) = step
         /\ IsFiniteSet(Earlier(pattern, d, l))
         /\ NodesBy(pattern, c, k) \in Nat
         /\ NodesBy(pattern, d, l) = IF step.op # "connect"
                                     THEN NodesBy(pattern, c, k) + 1
                                     ELSE NodesBy(pattern, c, k)
         /\ \A n : /\ LinksBy(pattern, c, k, n) \in Nat
                   /\ LinksBy(pattern, d, l, n) =
                        IF step.op = "connect" /\ step.from = n
                        THEN LinksBy(pattern, c, k, n) + 1
                        ELSE LinksBy(pattern, c, k, n)
<1> DEFINE p == pattern
           x == <<c, k>>
           E == Earlier(p, c, k)
           F == Earlier(p, d, l)
<1>1. x \in Places(p) /\ StepAt(p, x) = step
  BY DEF Places, StepAt
<1>2. ASSUME NEW y \in Places(p) PROVE y \in F <=> y \in E \/ y = x
  <2>1. PICK b \in 1..Len(p.calls) : y \in {b} \X (1..Len(p.calls[b]))
    BY DEF Places
  <2>2. y = <<b, y[2]>> /\ y[1] = b /\ y[2] \in 1..Len(p.calls[b])
    BY <2>1
  <2>3. b \in Nat /\ y[2] \in Nat /\ c \in Nat /\ k \in Nat
    BY <2>2
  <2>4. y = x <=> b = c /\ y[2] = k
    BY <2>2
  <2>5. y \in F <=> b < d \/ (b = d /\ y[2] < l)
    BY <2>2 DEF Earlier
  <2>6. y \in E <=> b < c \/ (b = c /\ y[2] < k)
    BY <2>2 DEF Earlier
  <2>7. CASE d = c /\ l = k + 1
    BY <2>3, <2>4, <2>5, <2>6, <2>7
  <2>8. CASE d = c + 1 /\ l = 1 /\ k = Len(p.calls[c])
    <3>1. ~(y[2] < 1) /\ (b = c => y[2] <= k)
      BY <2>2, <2>8
    <3>2. y \in F <=> b <= c
      BY <2>3, <2>5, <2>8, <3>1
    <3> QED
      BY <2>3, <2>4, <2>6, <3>1, <3>2
  <2> QED
    BY <2>7, <2>8 DEF Follows
<1>3. E \subseteq Places(p) /\ F \subseteq Places(p) /\ x \notin E
  BY DEF Earlier
<1>4. \A y : y \in F <=> y \in E \/ y = x
  BY <1>1, <1>2, <1>3
<1> HIDE DEF E, F, x
<1>5. IsFiniteSet(E) /\ IsFiniteSet(F)
  BY <1>3, <1>4, OneMore DEF E
<1>6. /\ NodesBy(p, c, k) \in Nat
      /\ NodesBy(p, d, l) = IF step.op # "connect"
                            THEN NodesBy(p, c, k) + 1 ELSE NodesBy(p, c, k)
  <2> DEFINE S == {y \in E : StepAt(p, y).op # "connect"}
             T == {y \in F : StepAt(p, y).op # "connect"}
  <2>1. NodesBy(p, c, k) = Cardinality(S) /\ NodesBy(p, d, l) = Cardinality(T)
    BY DEF NodesBy, E, F
  <2>2. IsFiniteSet(S)
    BY <1>5, FS_Subset
  <2>3. CASE step.op # "connect"
    <3>1. x \notin S /\ \A y : y \in T <=> y \in S \/ y = x
      BY <1>1, <1>3, <1>4, <2>3
    <3>2. x \notin S /\ T = S \cup {x}
      BY <3>1
    <3> HIDE DEF S, T
    <3>3. Cardinality(S) \in Nat
      BY <2>2, FS_CardinalityType
    <3>4. Cardinality(T) = Cardinality(S) + 1
      BY <2>2, <3>2, FS_AddElement
    <3> QED
      BY <2>1, <2>3, <3>3, <3>4
  <2>4. CASE step.op = "connect"
    <3>1. S = T
      BY <1>1, <1>4, <2>4
    <3> HIDE DEF S, T
    <3> QED
      BY <2>1, <2>2, <2>4, <3>1, FS_CardinalityType
  <2> QED
    BY <2>3, <2>4
<1>7. ASSUME NEW n
      PROVE  /\ LinksBy(p, c, k, n) \in Nat
             /\ LinksBy(p, d, l, n) =
                  IF step.op = "connect" /\ step.from = n
                  THEN LinksBy(p, c, k, n) + 1 ELSE LinksBy(p, c, k, n)
  <2> DEFINE S == {y \in E : StepAt(p, y).op = "connect" /\ StepAt(p, y).from = n}
             T == {y \in F : StepAt(p, y).op = "connect" /\ StepAt(p, y).from = n}
  <2>1. /\ LinksBy(p, c, k, n) = Cardinality(S)
        /\ LinksBy(p, d, l, n) = Cardinality(T)
    BY DEF LinksBy, E, F
  <2>2. IsFiniteSet(S)
    BY <1>5, FS_Subset
  <2>3. CASE step.op = "connect" /\ step.from = n
    <3>1. x \notin S /\ \A y : y \in T <=> y \in S \/ y = x
      BY <1>1, <1>3, <1>4, <2>3
    <3>2. x \notin S /\ T = S \cup {x}
      BY <3>1
    <3> HIDE DEF S, T
    <3>3. Cardinality(S) \in Nat
      BY <2>2, FS_CardinalityType
    <3>4. Cardinality(T) = Cardinality(S) + 1
      BY <2>2, <3>2, FS_AddElement
    <3> QED
      BY <2>1, <2>3, <3>3, <3>4
  <2>4. CASE ~(step.op = "connect" /\ step.from = n)
    <3>1. S = T
      BY <1>1, <1>4, <2>4
    <3> HIDE DEF S, T
    <3> QED
      BY <2>1, <2>2, <2>4, <3>1, FS_CardinalityType
  <2> QED
    BY <2>3, <2>4
<1> QED
  BY <1>1, <1>5, <1>6, <1>7 DEF x, F

(* What DrawingAssumption says of the step at a place.                     *)
LEMMA StepDraws ==
  ASSUME BuildInv, phase = "connect", NEW c \in Nat, NEW k \in Nat, AtPlace(c, k),
         IsFiniteSet(Earlier(pattern, c, k)),
         NEW d \in Nat, NEW l \in Nat, Follows(d, l, c, k)
  PROVE  /\ IsFiniteSet(Earlier(pattern, d, l))
         /\ NodesBy(pattern, c, k) \in Nat
         /\ \A n : LinksBy(pattern, c, k, n) \in Nat
         /\ Step.op # "connect" =>
              /\ Step.node = pattern.order[NodesBy(pattern, c, k) + 1]
              /\ NodesBy(pattern, d, l) = NodesBy(pattern, c, k) + 1
              /\ \A n : LinksBy(pattern, d, l, n) = LinksBy(pattern, c, k, n)
         /\ Step.op = "connect" =>
              /\ Step.from \in DOMAIN pattern.wiring
              /\ Step.to = pattern.wiring[Step.from][LinksBy(pattern, c, k, Step.from) + 1]
              /\ NodesBy(pattern, d, l) = NodesBy(pattern, c, k)
              /\ LinksBy(pattern, d, l, Step.from) = LinksBy(pattern, c, k, Step.from) + 1
              /\ \A n : n # Step.from =>
                   LinksBy(pattern, d, l, n) = LinksBy(pattern, c, k, n)
<1>1. /\ Len(pattern.calls) \in Nat
      /\ \A b \in 1..Len(pattern.calls) : Len(pattern.calls[b]) \in Nat
      /\ c \in 1..Len(pattern.calls) /\ k \in 1..Len(pattern.calls[c])
      /\ Step = pattern.calls[c][k]
  BY StepAtPlace
<1>2. pattern \in Patterns
  BY DEF BuildInv, CallsLeft
<1>3. PICK step : step = Step
  OBVIOUS
<1>4. /\ <<c, k>> \in Places(pattern) /\ StepAt(pattern, <<c, k>>) = step
      /\ IsFiniteSet(Earlier(pattern, d, l))
      /\ NodesBy(pattern, c, k) \in Nat
      /\ NodesBy(pattern, d, l) = IF step.op # "connect"
                                  THEN NodesBy(pattern, c, k) + 1
                                  ELSE NodesBy(pattern, c, k)
      /\ \A n : /\ LinksBy(pattern, c, k, n) \in Nat
                /\ LinksBy(pattern, d, l, n) =
                     IF step.op = "connect" /\ step.from = n
                     THEN LinksBy(pattern, c, k, n) + 1
                     ELSE LinksBy(pattern, c, k, n)
  <2>1. step = pattern.calls[c][k]
    BY <1>1, <1>3
  <2> QED
    BY <1>1, <2>1, OneStepOn
<1>5. PICK x : x = <<c, k>>
  OBVIOUS
<1>6. x[1] = c /\ x[2] = k /\ x \in Places(pattern) /\ StepAt(pattern, x) = step
  BY <1>4, <1>5
<1>7. IF step.op # "connect"
      THEN step.node = pattern.order[NodesBy(pattern, c, k) + 1]
      ELSE /\ step.from \in DOMAIN pattern.wiring
           /\ step.to = pattern.wiring[step.from][LinksBy(pattern, c, k, step.from) + 1]
  BY <1>2, <1>6, DrawingAssumption DEF DrawingAssumption
<1> QED
  BY <1>3, <1>4, <1>7

(* A node that is added is the next one of the graph.                      *)
LEMMA AddingDraws ==
  ASSUME AllocInv, phase = "connect", NEW c \in Nat, NEW k \in Nat,
         AtPlace(c, k), DrawnTo(c, k), NEW d \in Nat, NEW l \in Nat, Follows(d, l, c, k),
         Step.op # "connect", nodes' = Append(nodes, Step.node),
         UNCHANGED <<pattern, input, outputs>>
  PROVE  DrawnTo(d, l)'
<1>1. /\ IsFiniteSet(Earlier(pattern, d, l))
      /\ Step.node = pattern.order[NodesBy(pattern, c, k) + 1]
      /\ NodesBy(pattern, d, l) = NodesBy(pattern, c, k) + 1
      /\ \A n : LinksBy(pattern, d, l, n) = LinksBy(pattern, c, k, n)
  BY StepDraws DEF AllocInv, DrawnTo
<1>2. nodes \in Seq(Names)
  BY DEF AllocInv, Allocated
<1>3. /\ Len(nodes') = Len(nodes) + 1
      /\ \A i \in 1..Len(nodes) : nodes'[i] = nodes[i]
      /\ nodes'[Len(nodes) + 1] = Step.node
      /\ Len(nodes) \in Nat
  BY <1>2, LenProperties
<1>4. \A i \in 1..Len(nodes') : nodes'[i] = pattern.order[i]
  BY <1>1, <1>3 DEF DrawnTo
<1>5. Len(nodes') = NodesBy(pattern, d, l)
  BY <1>1, <1>3 DEF DrawnTo
<1>6. \A n \in DOMAIN pattern.wiring :
        /\ Len(outputs[n]) = LinksBy(pattern, d, l, n)
        /\ \A i \in 1..Len(outputs[n]) :
             /\ pattern.wiring[n][i] \in Names
             /\ input[pattern.wiring[n][i]] = outputs[n][i]
  BY <1>1 DEF DrawnTo
<1> QED
  BY <1>1, <1>4, <1>5, <1>6 DEF DrawnTo

(* A pipeline_connect() that succeeds gives the source the queue that the  *)
(* target reads, and leaves the queues alone that others read.             *)
LEMMA Connected ==
  ASSUME BuildInv, ConnectNodes, ~Fails
  PROVE  /\ phase = "connect" /\ Step.op = "connect" /\ Succeeds
         /\ UNCHANGED <<pattern, nodes>>
         /\ Step.from \in Names /\ Step.to \in Names
         /\ outputs' = [outputs EXCEPT ![Step.from] = Append(@, input'[Step.to])]
         /\ \A n \in Names : input[n] # 0 => input'[n] = input[n]
<1>1. phase = "connect" /\ Step.op = "connect" /\ UNCHANGED <<pattern, nodes>>
  BY DEF ConnectNodes
<1>2. Step.from \in Names /\ Step.to \in Names
  BY <1>1, StepNames DEF Steps
<1>3. PICK to, from : to = Step.to /\ from = Step.from
  OBVIOUS
<1>4. \/ /\ input[to] # 0 /\ UNCHANGED input /\ Succeeds
         /\ outputs' = [outputs EXCEPT ![from] = Append(@, input[to])]
      \/ /\ input[to] = 0 /\ Succeeds
         /\ input' = [input EXCEPT ![to] = queue_count']
         /\ outputs' = [outputs EXCEPT ![from] = Append(@, queue_count')]
  BY <1>3, Zenon DEF ConnectNodes, node_add_output, pipeline_create_queue,
                     node_set_input
<1>5. input \in [Names -> 0..queue_count]
  BY DEF BuildInv, QueuesRead
<1>6. Succeeds /\ \A n \in Names : input[n] # 0 => input'[n] = input[n]
  BY <1>2, <1>3, <1>4, <1>5
<1>7. outputs' = [outputs EXCEPT ![from] = Append(@, input'[to])]
  <2>1. CASE UNCHANGED input
    BY <1>4, <2>1, <1>2, <1>3, <1>5
  <2>2. CASE /\ input' = [input EXCEPT ![to] = queue_count']
             /\ outputs' = [outputs EXCEPT ![from] = Append(@, queue_count')]
    <3>1. input'[to] = queue_count'
      BY <1>2, <1>3, <1>5, <2>2
    <3> QED
      BY <2>2, <3>1
  <2> QED
    BY <1>4, <2>1, <2>2
<1> QED
  BY <1>1, <1>2, <1>3, <1>6, <1>7

(* An output that is added leads to the next target of its source.         *)
LEMMA ConnectingDraws ==
  ASSUME AllocInv, NEW c \in Nat, NEW k \in Nat,
         AtPlace(c, k), DrawnTo(c, k), NEW d \in Nat, NEW l \in Nat, Follows(d, l, c, k),
         ConnectNodes, ~Fails
  PROVE  DrawnTo(d, l)'
<1>0. BuildInv
  BY DEF AllocInv
<1>1. /\ phase = "connect" /\ Step.op = "connect"
      /\ UNCHANGED <<pattern, nodes>>
      /\ Step.from \in Names /\ Step.to \in Names
      /\ outputs' = [outputs EXCEPT ![Step.from] = Append(@, input'[Step.to])]
      /\ \A n \in Names : input[n] # 0 => input'[n] = input[n]
  BY <1>0, Connected
<1>2. /\ IsFiniteSet(Earlier(pattern, d, l))
      /\ Step.from \in DOMAIN pattern.wiring
      /\ Step.to = pattern.wiring[Step.from][LinksBy(pattern, c, k, Step.from) + 1]
      /\ NodesBy(pattern, d, l) = NodesBy(pattern, c, k)
      /\ LinksBy(pattern, d, l, Step.from) = LinksBy(pattern, c, k, Step.from) + 1
      /\ \A n : n # Step.from =>
           LinksBy(pattern, d, l, n) = LinksBy(pattern, c, k, n)
  BY <1>0, <1>1, StepDraws DEF DrawnTo
<1>3. PICK from, to, w : from = Step.from /\ to = Step.to /\ w = pattern.wiring
  OBVIOUS
<1>4. /\ Len(nodes') = NodesBy(pattern', d, l)
      /\ \A i \in 1..Len(nodes') : nodes'[i] = pattern'.order[i]
  BY <1>1, <1>2 DEF DrawnTo
<1>5. ASSUME NEW n \in DOMAIN w
      PROVE  /\ n \in Names /\ outputs[n] \in Seq(1..queue_count)
             /\ Len(outputs[n]) = LinksBy(pattern, c, k, n)
             /\ \A i \in 1..Len(outputs[n]) :
                  /\ w[n][i] \in Names
                  /\ input'[w[n][i]] = outputs[n][i]
  <2>1. n \in Names
    BY <1>0, <1>3, DrawingAssumption DEF DrawingAssumption, BuildInv, CallsLeft
  <2>2. outputs[n] \in Seq(1..queue_count) /\ queue_count \in Nat
    BY <1>0, <2>1 DEF BuildInv, QueuesRead
  <2>3. ASSUME NEW i \in 1..Len(outputs[n])
        PROVE  w[n][i] \in Names /\ input'[w[n][i]] = outputs[n][i]
    <3>1. w[n][i] \in Names /\ input[w[n][i]] = outputs[n][i]
      BY <1>3 DEF DrawnTo
    <3>2. outputs[n][i] \in 1..queue_count
      BY <2>2, ElementOfSeq
    <3>3. outputs[n][i] # 0
      BY <2>2, <3>2
    <3> QED
      BY <1>1, <3>1, <3>3
  <2> QED
    BY <1>3, <2>1, <2>2, <2>3 DEF DrawnTo
<1>6. outputs' = [outputs EXCEPT ![from] = Append(@, input'[to])]
  BY <1>1, <1>3
<1>7. outputs \in [Names -> Seq(1..queue_count)]
  BY <1>0 DEF BuildInv, QueuesRead
<1>8. ASSUME NEW n \in DOMAIN w
      PROVE  /\ Len(outputs'[n]) = LinksBy(pattern, d, l, n)
             /\ \A i \in 1..Len(outputs'[n]) :
                  /\ w[n][i] \in Names
                  /\ input'[w[n][i]] = outputs'[n][i]
  <2>1. CASE n = from
    <3>1. PICK s, q : s = outputs[n] /\ q = input'[to]
      OBVIOUS
    <3>2. outputs'[n] = Append(s, q)
      BY <1>5, <1>6, <1>7, <2>1, <3>1
    <3>3. s \in Seq(1..queue_count)
      BY <1>5, <3>1
    <3>4. /\ Len(Append(s, q)) = Len(s) + 1 /\ Len(s) \in Nat
          /\ \A i \in 1..Len(s) : Append(s, q)[i] = s[i]
          /\ Append(s, q)[Len(s) + 1] = q
      BY <3>3
    <3>5. /\ Len(s) = LinksBy(pattern, c, k, from)
          /\ LinksBy(pattern, d, l, n) = Len(s) + 1
          /\ to = w[n][Len(s) + 1] /\ to \in Names
      BY <1>1, <1>2, <1>3, <1>5, <2>1, <3>1
    <3>6. ASSUME NEW i \in 1..(Len(s) + 1)
          PROVE  w[n][i] \in Names /\ input'[w[n][i]] = Append(s, q)[i]
      <4>1. CASE i = Len(s) + 1
        BY <3>1, <3>4, <3>5, <4>1
      <4>2. CASE i # Len(s) + 1
        <5>1. i \in 1..Len(s)
          BY <3>4, <4>2
        <5> QED
          BY <1>5, <3>1, <3>4, <5>1
      <4> QED
        BY <4>1, <4>2
    <3> QED
      BY <3>2, <3>4, <3>5, <3>6
  <2>2. CASE n # from
    <3>1. outputs'[n] = outputs[n]
      BY <1>5, <1>6, <1>7, <2>2
    <3> QED
      BY <1>2, <1>3, <1>5, <2>2, <3>1
  <2> QED
    BY <2>1, <2>2
<1>9. \A n \in DOMAIN pattern'.wiring :
        /\ Len(outputs'[n]) = LinksBy(pattern', d, l, n)
        /\ \A i \in 1..Len(outputs'[n]) :
             /\ pattern'.wiring[n][i] \in Names
             /\ input'[pattern'.wiring[n][i]] = outputs'[n][i]
  BY <1>1, <1>3, <1>8
<1> QED
  BY <1>1, <1>2, <1>4, <1>9 DEF DrawnTo

(* It depends on nothing else.                                             *)
LEMMA DrawnSame ==
  ASSUME DrawnInv, UNCHANGED <<pattern, todo, nodes, input, outputs, dropped>>
  PROVE  DrawnInv'
<1>1. /\ pattern' = pattern /\ todo' = todo /\ nodes' = nodes
      /\ input' = input /\ outputs' = outputs /\ dropped' = dropped
  OBVIOUS
<1>2. ASSUME NEW c \in Nat, NEW k \in Nat, AtPlace(c, k) /\ DrawnTo(c, k)
      PROVE  AtPlace(c, k)' /\ DrawnTo(c, k)'
  <2>1. AtPlace(c, k)'
    BY <1>1, <1>2 DEF AtPlace
  <2>2. DrawnTo(c, k)'
    BY <1>1, <1>2 DEF DrawnTo
  <2> QED
    BY <2>1, <2>2
<1> QED
  BY <1>1, <1>2 DEF DrawnInv

(* A step of the construction extends what is built by what the pattern    *)
(* drew, or fails.                                                         *)
LEMMA BuildDraws ==
  ASSUME AllocInv, DrawnInv, Build
  PROVE  DrawnInv'
<1>0. BuildInv /\ dropped \in Nat
  BY DEF AllocInv, DrawnInv
<1>1. CASE CreateNode \/ CreateFails
  <2>1. UNCHANGED <<pattern, todo, nodes, input, outputs, dropped>>
    BY <1>1 DEF CreateNode, CreateFails
  <2> QED
    BY <2>1, DrawnSame
<1>2. CASE Fails
  <2>1. dropped' = dropped + 1
    BY <1>2 DEF Fails
  <2> QED
    BY <1>0, <2>1 DEF DrawnInv
<1>3. CASE (AddNode \/ AddDispatcher \/ ConnectNodes) /\ ~Fails
  <2>1. phase = "connect" /\ Succeeds /\ pattern' = pattern
    <3>1. CASE AddNode \/ AddDispatcher
      BY <1>3, <3>1, Zenon DEF AddNode, AddDispatcher
    <3>2. CASE ConnectNodes
      BY <1>0, <1>3, <3>2, Connected
    <3> QED
      BY <1>3, <3>1, <3>2
  <2>2. dropped' = dropped
    BY <2>1 DEF Succeeds
  <2>3. SUFFICES ASSUME dropped = 0
                 PROVE  \E d, l \in Nat : AtPlace(d, l)' /\ DrawnTo(d, l)'
    BY <1>0, <2>2 DEF DrawnInv
  <2>4. PICK c \in Nat, k \in Nat : AtPlace(c, k) /\ DrawnTo(c, k)
    BY <2>3 DEF DrawnInv
  <2>5. PICK d \in Nat, l \in Nat : AtPlace(d, l)' /\ Follows(d, l, c, k)
    BY <1>0, <2>1, <2>4, NextPlace
  <2>6. DrawnTo(d, l)'
    <3>1. CASE AddNode \/ AddDispatcher
      <4>1. /\ Step.op # "connect" /\ nodes' = Append(nodes, Step.node)
            /\ UNCHANGED <<pattern, input, outputs>>
        <5>1. Step.op # "connect"
          BY <3>1 DEF AddNode, AddDispatcher
        <5>2. /\ nodes' = Append(nodes, Step.node)
              /\ UNCHANGED <<pattern, input, outputs>>
          BY <1>3, <3>1, Zenon DEF AddNode, AddDispatcher
        <5> QED
          BY <5>1, <5>2
      <4> QED
        BY <2>1, <2>4, <2>5, <4>1, AddingDraws
    <3>2. CASE ConnectNodes
      BY <1>3, <2>4, <2>5, <3>2, ConnectingDraws
    <3> QED
      BY <1>3, <3>1, <3>2
  <2> QED
    BY <2>5, <2>6
<1> QED
  BY <1>1, <1>2, <1>3 DEF Build

(* Every step of every thread keeps the pipeline to what its pattern drew. *)
THEOREM DrawnInvariant == Spec => []DrawnInv
<1>1. Init => DrawnInv
  <2> SUFFICES ASSUME Init PROVE DrawnInv
    OBVIOUS
  <2>1. /\ pattern \in Patterns /\ todo = pattern.calls /\ nodes = <<>>
        /\ outputs = [n \in Names |-> <<>>] /\ dropped = 0
    BY DEF Init, BuildInit
  <2>7. AtPlace(1, 1)
    BY <2>1, FirstPlace
  <2>8. Earlier(pattern, 1, 1) = {}
    <3>1. ASSUME NEW x \in Places(pattern) PROVE ~(x[1] < 1 \/ (x[1] = 1 /\ x[2] < 1))
      <4>1. PICK b \in 1..Len(pattern.calls) : x \in {b} \X (1..Len(pattern.calls[b]))
        BY DEF Places
      <4>2. x[1] = b /\ x[2] \in 1..Len(pattern.calls[b])
        BY <4>1
      <4> QED
        BY <4>2
    <3> QED
      BY <3>1 DEF Earlier
  <2>9. /\ NodesBy(pattern, 1, 1) = 0
        /\ \A n : LinksBy(pattern, 1, 1, n) = 0
    <3>1. {x \in Earlier(pattern, 1, 1) : StepAt(pattern, x).op # "connect"} = {}
      BY <2>8
    <3>2. \A n : {x \in Earlier(pattern, 1, 1) : /\ StepAt(pattern, x).op = "connect"
                                                 /\ StepAt(pattern, x).from = n} = {}
      BY <2>8
    <3> QED
      BY <3>1, <3>2, FS_EmptySet DEF NodesBy, LinksBy
  <2>10. ASSUME NEW n \in DOMAIN pattern.wiring PROVE outputs[n] = <<>>
    BY <2>1, DrawingAssumption DEF DrawingAssumption
  <2>11. DrawnTo(1, 1)
    <3>1. /\ IsFiniteSet(Earlier(pattern, 1, 1)) /\ Len(nodes) = 0
          /\ \A n \in DOMAIN pattern.wiring : Len(outputs[n]) = 0
      BY <2>1, <2>8, <2>10, FS_EmptySet
    <3> QED
      BY <2>9, <3>1 DEF DrawnTo
  <2> QED
    BY <2>1, <2>7, <2>11 DEF DrawnInv
<1>2. CleanInv /\ DrawnInv /\ [Next]_vars => DrawnInv'
  <2> SUFFICES ASSUME CleanInv, DrawnInv, [Next]_vars PROVE DrawnInv'
    OBVIOUS
  <2>1. ASSUME UNCHANGED <<pattern, todo, nodes, input, outputs, dropped>>
        PROVE  DrawnInv'
    BY <2>1, DrawnSame
  <2>2. CASE MainStep
    <3>1. CASE Build
      BY <3>1, BuildDraws DEF CleanInv
    <3>2. CASE UNCHANGED wiredVars
      BY <2>1, <3>2 DEF wiredVars
    <3>3. CASE pipeline_init \/ InitFails
      BY <2>1, <3>3 DEF pipeline_init, InitFails, wiring
    <3> QED
      BY <2>2, <3>1, <3>2, <3>3, MainLeavesWiring
  <2>3. CASE \/ Signal
             \/ \E k \in 1..MaxSignals : HandlerStep(k)
             \/ \E n \in Names : NodeEnds(n) \/ GivesUp(n) \/ UsesDestroyed(n)
    BY <2>1, <2>3, OthersLeaveWiring DEF wiredVars
  <2>4. CASE UNCHANGED vars
    BY <2>1, <2>4 DEF vars, buildVars, wiring, wiredVars
  <2> QED
    BY <2>2, <2>3, <2>4 DEF Next
<1> QED
  BY <1>1, <1>2, CleanInvariant, PTL DEF Spec

(* BuiltAsPatterned: a pipeline that was built without a failure has the   *)
(* nodes of the pattern's graph, in its order, and each output of a node   *)
(* leads to the queue of the node it is meant for.                         *)
THEOREM BuiltAsPatternedHolds == Spec => []BuiltAsPatterned
<1>1. CleanInv /\ DrawnInv => BuiltAsPatterned
  <2> SUFFICES ASSUME CleanInv, DrawnInv, phase = "built", dropped = 0
               PROVE  /\ nodes = pattern.order
                      /\ \A n \in DOMAIN pattern.wiring :
                           /\ Len(outputs[n]) = Len(pattern.wiring[n])
                           /\ \A i \in 1..Len(outputs[n]) :
                                input[pattern.wiring[n][i]] = outputs[n][i]
    BY DEF BuiltAsPatterned
  <2>1. PICK c \in Nat, k \in Nat : AtPlace(c, k) /\ DrawnTo(c, k)
    BY DEF DrawnInv
  <2>2. todo = <<>> /\ pattern \in Patterns /\ nodes \in Seq(Names)
    BY DEF CleanInv, AllocInv, Allocated, BuildInv, CallsLeft
  <2>3. Len(pattern.calls) \in Nat
    BY <2>2, PatternCalls, LenProperties
  <2>4. c = Len(pattern.calls) + 1 /\ k = 1
    <3>1. Len(todo) = 0 /\ Len(todo) = Len(pattern.calls) + 1 - c /\ k = 1
      BY <2>1, <2>2 DEF AtPlace
    <3> QED
      BY <2>3, <3>1
  <2>5. /\ pattern.order \in Seq(Names)
        /\ Len(pattern.order) = NodesBy(pattern, c, k)
        /\ \A n \in DOMAIN pattern.wiring :
             Len(pattern.wiring[n]) = LinksBy(pattern, c, k, n)
    BY <2>2, <2>4, DrawingAssumption DEF DrawingAssumption
  <2>6. nodes = pattern.order
    <3>1. /\ Len(nodes) = Len(pattern.order)
          /\ \A i \in 1..Len(nodes) : nodes[i] = pattern.order[i]
      BY <2>1, <2>5 DEF DrawnTo
    <3> QED
      BY <2>2, <2>5, <3>1, SeqEqual
  <2> QED
    BY <2>1, <2>5, <2>6 DEF DrawnTo
<1> QED
  BY <1>1, CleanInvariant, DrawnInvariant, PTL

-----------------------------------------------------------------------------
(* Who waits for whom.                                                     *)

ThreadTypes ==
  /\ Len(nodes) <= MAX_PIPELINE_NODES
  /\ started \in 0..Len(nodes)
  /\ joining \in Nat \ {0}
  /\ thread \in [Names -> {"none", "running", "ended", "joined"}]
  /\ joiner \in [Names -> 0..NoOne]
  /\ handlers \in Seq([on : Threads, next : 0..Back])
  /\ Len(handlers) <= MaxSignals

(* Only a node of the pipeline that was started has a thread.              *)
Started == \A n \in Names : thread[n] # "none" => \E i \in 1..started : nodes[i] = n

(* A handler that waits for a node has not gone on to the next one.        *)
Waits ==
  \A n \in Names : joiner[n] \in 1..MaxSignals =>
    /\ joiner[n] \in 1..Len(handlers)
    /\ handlers[joiner[n]].next \in 1..Len(nodes)
    /\ nodes[handlers[joiner[n]].next] = n

(* main() is through with a node: its thread has been joined, or a handler *)
(* on a node's thread waits for it.                                        *)
Joined(i) == thread[nodes[i]] = "joined"
Passed(i) == Joined(i) \/ WaitedForByNode(nodes[i])

MainJoined ==
  /\ at \in Before \cup {"build"} => started = 0
  /\ at \in Before \cup {"build", "start"} => joining = 1
  /\ at = "join" =>
       /\ started = Len(nodes)
       /\ \A i \in 1..Len(nodes) : i < joining => Passed(i)
  /\ (destroyed \/ at = "destroy") /\ ~StartFailed =>
       \A i \in 1..Len(nodes) : Passed(i)

QuietInv == CleanInv /\ ThreadTypes /\ Started /\ Waits /\ MainJoined

(* A record of the constants' types.                                       *)
LEMMA DaemonConstants ==
  /\ Main \notin Names /\ MaxSignals \in Nat /\ NoOne = MaxSignals + 1
  /\ MAX_PIPELINE_NODES \in Nat /\ Back = MAX_PIPELINE_NODES + 2
BY DaemonAssumption, BuildAssumption DEF DaemonAssumption, BuildAssumption, NoOne, Back

(* main() stays through with a node while nobody but the one who waits for *)
(* it stops waiting.                                                       *)
LEMMA StaysPassed ==
  ASSUME QuietInv, nodes' = nodes, Len(handlers') \in Nat,
         Len(handlers) <= Len(handlers'),
         \A k \in 1..Len(handlers) : handlers'[k].on = handlers[k].on,
         NEW i \in 1..Len(nodes), Passed(i),
         LET n == nodes[i]
         IN  /\ thread[n] = "joined" => thread'[n] = "joined"
             /\ \/ joiner'[n] = joiner[n]
                \/ joiner[n] \in {MainProgram, NoOne}
                \/ thread'[n] = "joined"
  PROVE  Passed(i)'
<1> DEFINE n == nodes[i]
<1>1. CASE Joined(i)
  BY <1>1 DEF Passed, Joined
<1>2. CASE thread'[n] = "joined"
  BY <1>2 DEF Passed, Joined
<1>3. CASE WaitedForByNode(n) /\ thread'[n] # "joined"
  <2>1. Len(handlers) \in Nat /\ Len(handlers) <= MaxSignals
    BY LenProperties DEF QuietInv, ThreadTypes
  <2>2. PICK k \in 1..Len(handlers) : joiner[n] = k /\ handlers[k].on \in Names
    BY <1>3 DEF WaitedForByNode
  <2>3. k # MainProgram /\ k # NoOne
    BY <2>1, <2>2, DaemonConstants DEF MainProgram
  <2>4. joiner'[n] = k /\ k \in 1..Len(handlers') /\ handlers'[k].on \in Names
    BY <1>3, <2>1, <2>2, <2>3
  <2>5. WaitedForByNode(n)'
    BY <2>4 DEF WaitedForByNode
  <2> QED
    BY <2>5 DEF Passed
<1> QED
  BY <1>1, <1>2, <1>3 DEF Passed

(* The construction adds at most one node at a time.                       *)
LEMMA BuildAdds ==
  ASSUME CleanInv, CleanInv', Len(nodes) <= MAX_PIPELINE_NODES, Build
  PROVE  /\ nodes \in Seq(Names) /\ Len(nodes) \in Nat
         /\ nodes' \in Seq(Names) /\ Len(nodes') \in Nat
         /\ Len(nodes') <= MAX_PIPELINE_NODES /\ Len(nodes) <= Len(nodes')
         /\ \A i \in 1..Len(nodes) : nodes'[i] = nodes[i]
<1>1. nodes \in Seq(Names) /\ Len(nodes) \in Nat
  BY LenProperties DEF CleanInv, AllocInv, Allocated
<1>2. \/ nodes' = nodes
      \/ /\ Len(nodes) < MAX_PIPELINE_NODES
         /\ nodes' = Append(nodes, Step.node)
  <2>1. CASE CreateNode \/ CreateFails \/ ConnectNodes
    BY <2>1 DEF CreateNode, CreateFails, ConnectNodes
  <2>2. CASE AddNode
    BY <2>2, Zenon DEF AddNode
  <2>3. CASE AddDispatcher
    BY <2>3, Zenon DEF AddDispatcher
  <2> QED
    BY <2>1, <2>2, <2>3 DEF Build
<1>3. nodes' \in Seq(Names)
  BY DEF CleanInv, AllocInv, Allocated
<1>4. CASE nodes' = nodes
  BY <1>1, <1>4
<1>5. CASE Len(nodes) < MAX_PIPELINE_NODES /\ nodes' = Append(nodes, Step.node)
  <2>1. Len(nodes') = Len(nodes) + 1 /\ \A i \in 1..Len(nodes) : nodes'[i] = nodes[i]
    BY <1>1, <1>5
  <2> QED
    BY <1>1, <1>3, <1>5, <2>1, DaemonConstants
<1> QED
  BY <1>2, <1>4, <1>5

(* Before the pipeline is built there is nobody to wait for.               *)
LEMMA EarlyIsQuiet ==
  ASSUME QuietInv, CleanInv',
         StartLog \/ SetLimit \/ InstallHandler \/ FillTagRules \/ InitPipeline
  PROVE  QuietInv'
<1> USE DEF MainAt
<1>1. /\ UNCHANGED <<nodes, started, joining, thread, joiner, handlers, destroyed>>
      /\ at \in Before
      /\ at' \in Before \cup {"build", "destroy", "crashed"}
  BY DEF StartLog, SetLimit, InstallHandler, FillTagRules, InitPipeline, Before,
         Logged, pipeline_init, InitFails, buildVars, wiring, threadVars
<1>2. nodes = <<>> /\ started = 0 /\ joining = 1 /\ ~destroyed
  BY <1>1 DEF QuietInv, CleanInv, Progress, AllocInv, Allocated, MainJoined, Before, After
<1>3. ThreadTypes' /\ Started' /\ Waits'
  BY <1>1 DEF QuietInv, ThreadTypes, Started, Waits
<1>4. MainJoined'
  BY <1>1, <1>2 DEF MainJoined, Before, After
<1> QED
  BY <1>3, <1>4 DEF QuietInv

(* While it is built, handlers may walk through it, but no thread runs.    *)
LEMMA BuildIsQuiet ==
  ASSUME QuietInv, CleanInv', BuildPipeline
  PROVE  QuietInv'
<1>1. /\ at = "build" /\ Build
      /\ UNCHANGED <<started, joining, thread, joiner, handlers, destroyed>>
      /\ at' = CASE phase' = "built" -> "start"
                 [] phase' = "failed" -> "destroy"
                 [] OTHER -> "build"
  BY Zenon DEF BuildPipeline, MainAt, threadVars
<1>2. /\ nodes \in Seq(Names) /\ Len(nodes) \in Nat
      /\ nodes' \in Seq(Names) /\ Len(nodes') \in Nat
      /\ Len(nodes') <= MAX_PIPELINE_NODES /\ Len(nodes) <= Len(nodes')
      /\ \A i \in 1..Len(nodes) : nodes'[i] = nodes[i]
  BY <1>1, BuildAdds DEF QuietInv, ThreadTypes
<1>3. started = 0 /\ joining = 1 /\ ~destroyed
  BY <1>1 DEF QuietInv, CleanInv, Progress, MainJoined, Before, After
<1>4. ThreadTypes' /\ Started'
  BY <1>1, <1>2, <1>3 DEF QuietInv, ThreadTypes, Started
<1>5. Waits'
  BY <1>1, <1>2 DEF QuietInv, Waits
<1>6. phase' = "failed" => nodes' = <<>>
  BY DEF CleanInv, AllocInv, Allocated
<1>7. at' \in {"start", "destroy", "build"} /\ (at' = "destroy" => nodes' = <<>>)
  BY <1>1, <1>6
<1>8. MainJoined'
  BY <1>1, <1>3, <1>7 DEF MainJoined, Before, After
<1> QED
  BY <1>4, <1>5, <1>8 DEF QuietInv

(* pipeline_start() gives a node of the pipeline its thread.               *)
LEMMA StartIsQuiet ==
  ASSUME QuietInv, CleanInv', StartNode
  PROVE  QuietInv'
<1>1. /\ at = "start"
      /\ UNCHANGED <<nodes, joining, joiner, handlers, destroyed>>
      /\ \/ started = Len(nodes) /\ at' = "join" /\ UNCHANGED <<started, thread>>
         \/ /\ started # Len(nodes) /\ started' = started + 1 /\ at' = at
            /\ thread' = [thread EXCEPT ![nodes[started']] = "running"]
         \/ started # Len(nodes) /\ at' = "destroy" /\ UNCHANGED <<started, thread>>
  BY Zenon DEF StartNode, MainAt, node_start, buildVars, wiring
<1>2. nodes \in Seq(Names) /\ Len(nodes) \in Nat
  BY LenProperties DEF QuietInv, CleanInv, AllocInv, Allocated
<1>3. ~destroyed /\ joining = 1
  BY <1>1 DEF QuietInv, CleanInv, Progress, MainJoined, After
<1>4. joining \in Nat \ {0} /\ started \in 0..Len(nodes)
  BY DEF QuietInv, ThreadTypes
<1>5. Waits'
  BY <1>1 DEF QuietInv, Waits
<1>6. CASE UNCHANGED <<started, thread>>
  <2>1. ThreadTypes' /\ Started'
    BY <1>1, <1>6 DEF QuietInv, ThreadTypes, Started
  <2>2. MainJoined'
    BY <1>1, <1>2, <1>3, <1>4, <1>6
       DEF MainJoined, StartFailed, Before, After
  <2> QED
    BY <1>5, <2>1, <2>2 DEF QuietInv
<1>7. CASE /\ started # Len(nodes) /\ started' = started + 1 /\ at' = at
           /\ thread' = [thread EXCEPT ![nodes[started']] = "running"]
  <2>1. started' \in 1..Len(nodes) /\ nodes[started'] \in Names
    BY <1>2, <1>4, <1>7
  <2>2. ThreadTypes'
    BY <1>1, <1>7, <2>1 DEF QuietInv, ThreadTypes
  <2>3. Started'
    <3> SUFFICES ASSUME NEW n \in Names, thread'[n] # "none"
                 PROVE  \E i \in 1..started' : nodes'[i] = n
      BY DEF Started
    <3>1. CASE n = nodes[started']
      BY <1>1, <1>4, <2>1, <3>1
    <3>2. CASE n # nodes[started']
      <4>1. thread[n] # "none"
        BY <1>7, <2>1, <3>2 DEF QuietInv, ThreadTypes
      <4>2. PICK i \in 1..started : nodes[i] = n
        BY <4>1 DEF QuietInv, Started
      <4> QED
        BY <1>1, <1>4, <1>7, <4>2
    <3> QED
      BY <3>1, <3>2
  <2>4. MainJoined'
    BY <1>1, <1>3, <1>7 DEF MainJoined, Before, After
  <2> QED
    BY <1>5, <2>2, <2>3, <2>4 DEF QuietInv
<1> QED
  BY <1>1, <1>6, <1>7

(* With main() running, the handlers that main() has run are through: if   *)
(* its own join is not let in, a handler elsewhere waits for the node.     *)
LEMMA MainMayWait ==
  ASSUME QuietInv, Runs(MainProgram), NEW n \in Names, joiner[n] # MainProgram,
         ~MayWait(MainProgram, n)
  PROVE  WaitedForByNode(n)
<1>1. Thread(MainProgram) = Main /\ Main \notin Names
  BY DaemonConstants DEF Thread
<1>2. WaitedFor(n)
  BY <1>1 DEF MayWait
<1>3. joiner[n] \in 0..NoOne /\ joiner[n] # NoOne /\ joiner[n] # 0
  BY <1>2 DEF WaitedFor, QuietInv, ThreadTypes, MainProgram
<1>4. joiner[n] \in 1..MaxSignals
  BY <1>3, DaemonConstants
<1>5. PICK k \in 1..MaxSignals : k = joiner[n]
  BY <1>4
<1>6. k \in 1..Len(handlers) /\ handlers[k].next \in 1..Len(nodes)
  BY <1>5 DEF QuietInv, Waits
<1>7. Len(nodes) <= MAX_PIPELINE_NODES /\ Len(nodes) \in Nat
  BY LenProperties DEF QuietInv, ThreadTypes, CleanInv, AllocInv, Allocated
<1>8. ~Returned(k)
  BY <1>6, <1>7, DaemonConstants DEF Returned
<1>9. Thread(k) # Main /\ Thread(k) = handlers[k].on
  BY <1>1, <1>6, <1>8 DEF Runs, Thread, MainProgram
<1>10. handlers[k].on \in Threads
  <2>1. handlers \in Seq([on : Threads, next : 0..Back])
    BY DEF QuietInv, ThreadTypes
  <2>2. handlers[k] \in [on : Threads, next : 0..Back]
    BY <1>6, <2>1, ElementOfSeq
  <2> QED
    BY <2>2
<1> QED
  BY <1>5, <1>6, <1>9, <1>10 DEF WaitedForByNode, Threads

(* main() goes on to the next node only when it is through with the last.  *)
LEMMA JoiningIsQuiet ==
  ASSUME QuietInv, CleanInv', MainJoins
  PROVE  QuietInv'
<1>1. /\ at = "join" /\ Runs(MainProgram)
      /\ UNCHANGED <<nodes, started, destroyed>>
      /\ IF joining > Len(nodes)
         THEN at' = "destroy" /\ UNCHANGED <<threadVars, joining>>
         ELSE Join(MainProgram, nodes[joining],
                   joining' = joining + 1 /\ UNCHANGED handlers)
  BY Zenon DEF MainJoins, MainAt, buildVars, wiring
<1>2. /\ nodes \in Seq(Names) /\ Len(nodes) \in Nat
      /\ joining \in Nat \ {0} /\ started = Len(nodes) /\ ~destroyed
  BY <1>1, LenProperties
     DEF QuietInv, CleanInv, AllocInv, Allocated, Progress, ThreadTypes,
         MainJoined, After
<1>3. CASE joining > Len(nodes)
  <2>1. at' = "destroy" /\ UNCHANGED <<joining, thread, joiner, handlers>>
    BY <1>1, <1>3 DEF threadVars
  <2>2. ThreadTypes' /\ Started' /\ Waits'
    BY <1>1, <2>1 DEF QuietInv, ThreadTypes, Started, Waits
  <2>3. \A i \in 1..Len(nodes) : Passed(i)
    BY <1>1, <1>2, <1>3 DEF QuietInv, MainJoined
  <2>4. \A i \in 1..Len(nodes) : Passed(i)'
    BY <1>1, <2>1, <2>3 DEF Passed, Joined, WaitedForByNode
  <2>5. MainJoined'
    BY <1>1, <1>2, <2>1, <2>4 DEF MainJoined, Before, After
  <2> QED
    BY <2>2, <2>5 DEF QuietInv
<1>4. CASE ~(joining > Len(nodes))
  <2>1. PICK n \in Names : joining \in 1..Len(nodes) /\ n = nodes[joining]
    BY <1>2, <1>4
  <2>2. Join(MainProgram, n, joining' = joining + 1 /\ UNCHANGED handlers)
    BY <1>1, <1>4, <2>1
  <2>3. ASSUME UNCHANGED <<thread, joiner>>, UNCHANGED handlers,
               joining' \in Nat \ {0}
        PROVE  ThreadTypes' /\ Started' /\ Waits'
    BY <1>1, <2>3 DEF QuietInv, ThreadTypes, Started, Waits
  <2>4. ASSUME at' = "crashed" PROVE MainJoined'
    BY <1>1, <1>2, <2>4 DEF MainJoined, Before, After
  <2>5. ASSUME at' = at, handlers' = handlers,
               \A m \in Names :
                 /\ thread[m] = "joined" => thread'[m] = "joined"
                 /\ \/ joiner'[m] = joiner[m]
                    \/ joiner[m] \in {MainProgram, NoOne}
                    \/ thread'[m] = "joined",
               \/ joining' = joining
               \/ /\ joining' = joining + 1
                  /\ thread'[n] = "joined" \/ WaitedForByNode(n)'
        PROVE  MainJoined'
    <3>1. ASSUME NEW i \in 1..Len(nodes), i < joining' PROVE Passed(i)'
      <4>1. CASE i < joining
        <5>1. Passed(i) /\ nodes[i] \in Names
          BY <1>1, <1>2, <4>1 DEF QuietInv, MainJoined
        <5>2. Len(handlers') \in Nat /\ Len(handlers) <= Len(handlers')
          BY <2>5, LenProperties DEF QuietInv, ThreadTypes
        <5> QED
          BY <1>1, <2>5, <5>1, <5>2, StaysPassed
      <4>2. CASE ~(i < joining)
        <5>1. i = joining /\ (thread'[n] = "joined" \/ WaitedForByNode(n)')
          BY <1>2, <2>5, <3>1, <4>2
        <5>2. nodes'[i] = n
          BY <1>1, <2>1, <5>1
        <5> QED
          BY <5>1, <5>2 DEF Passed, Joined, WaitedForByNode
      <4> QED
        BY <4>1, <4>2
    <3> QED
      BY <1>1, <1>2, <2>5, <3>1 DEF MainJoined, Before, After
  <2>6. CASE at' = "crashed" /\ UNCHANGED <<threadVars, joining>>
    BY <1>2, <2>3, <2>4, <2>6 DEF QuietInv, threadVars
  <2>7. CASE /\ thread[n] = "joined" /\ UNCHANGED <<thread, joiner, handlers>>
             /\ at' \in {at, "crashed"} /\ joining' \in {joining, joining + 1}
    <3>1. joining' \in Nat \ {0}
      BY <1>2, <2>7
    <3> QED
      BY <2>3, <2>4, <2>5, <2>7, <3>1 DEF QuietInv
  <2>8. CASE /\ ~MayWait(MainProgram, n) /\ joiner[n] # MainProgram
             /\ UNCHANGED <<at, thread, joiner, handlers>> /\ joining' = joining + 1
    <3>1. WaitedForByNode(n)
      BY <1>1, <2>1, <2>8, MainMayWait
    <3>2. WaitedForByNode(n)'
      BY <2>8, <3>1 DEF WaitedForByNode
    <3>3. joining' \in Nat \ {0}
      BY <1>2, <2>8
    <3> QED
      BY <2>3, <2>5, <2>8, <3>2, <3>3 DEF QuietInv
  <2>9. CASE /\ joiner' = [joiner EXCEPT ![n] = MainProgram] /\ joiner[n] = NoOne
             /\ UNCHANGED <<at, thread, handlers, joining>>
    <3>1. ThreadTypes' /\ Started' /\ Waits'
      BY <1>1, <2>1, <2>9, DaemonConstants
         DEF QuietInv, ThreadTypes, Started, Waits, MainProgram
    <3>2. \A m \in Names : joiner'[m] = joiner[m] \/ joiner[m] = NoOne
      BY <2>1, <2>9 DEF QuietInv, ThreadTypes
    <3> QED
      BY <2>5, <2>9, <3>1, <3>2 DEF QuietInv
  <2>10. CASE /\ joiner' = [joiner EXCEPT ![n] = NoOne] /\ thread[n] = "ended"
              /\ thread' = [thread EXCEPT ![n] = "joined"]
              /\ joining' = joining + 1 /\ UNCHANGED <<at, handlers>>
    <3>1. ThreadTypes'
      BY <1>1, <1>2, <2>1, <2>10, DaemonConstants DEF QuietInv, ThreadTypes
    <3>2. Waits'
      BY <1>1, <2>1, <2>10, DaemonConstants DEF QuietInv, ThreadTypes, Waits
    <3>3. Started'
      BY <1>1, <2>1, <2>10 DEF QuietInv, ThreadTypes, Started
    <3>4. /\ thread'[n] = "joined"
          /\ \A m \in Names : /\ thread[m] = "joined" => thread'[m] = "joined"
                              /\ joiner'[m] = joiner[m] \/ thread'[m] = "joined"
      BY <2>1, <2>10 DEF QuietInv, ThreadTypes
    <3> QED
      BY <2>5, <2>10, <3>1, <3>2, <3>3, <3>4 DEF QuietInv
  <2> QED
    BY <2>2, <2>6, <2>7, <2>8, <2>9, <2>10 DEF Join, MayWait, WaitedFor, threadVars
<1> QED
  BY <1>3, <1>4

(* The cleanup joins no more threads, and none comes back.                 *)
LEMMA CleanupIsQuiet ==
  ASSUME QuietInv, CleanInv', DestroyPipeline \/ FreePipeline
  PROVE  QuietInv'
<1>1. /\ UNCHANGED <<nodes, started, joining, thread, joiner, handlers>>
      /\ at = "destroy" \/ (at \in After /\ destroyed' = destroyed)
      /\ at' \in After \cup {"crashed"}
  BY DEF DestroyPipeline, FreePipeline, MainAt, Undefined, After,
         buildVars, wiring, threadVars
<1>2. destroyed \/ at = "destroy"
  BY <1>1 DEF QuietInv, CleanInv, Progress
<1>3. ThreadTypes' /\ Started' /\ Waits'
  BY <1>1 DEF QuietInv, ThreadTypes, Started, Waits
<1>4. MainJoined'
  <2>1. \A i \in 1..Len(nodes) : Passed(i)' <=> Passed(i)
    BY <1>1 DEF Passed, Joined, WaitedForByNode
  <2> QED
    BY <1>1, <1>2, <2>1 DEF QuietInv, MainJoined, StartFailed, Before, After
<1> QED
  BY <1>3, <1>4 DEF QuietInv

(* What handlers and nodes do leaves main() where it is.                   *)
LEMMA MainStays ==
  ASSUME QuietInv, UNCHANGED <<nodes, started, destroyed, joining>>,
         at' \in {at, "crashed"}, Len(handlers') \in Nat,
         Len(handlers) <= Len(handlers'),
         \A k \in 1..Len(handlers) : handlers'[k].on = handlers[k].on,
         \A n \in Names : /\ thread[n] = "joined" => thread'[n] = "joined"
                          /\ \/ joiner'[n] = joiner[n]
                             \/ joiner[n] \in {MainProgram, NoOne}
                             \/ thread'[n] = "joined"
  PROVE  MainJoined'
<1>1. \A i \in 1..Len(nodes) : nodes[i] \in Names
  BY DEF QuietInv, CleanInv, AllocInv, Allocated
<1>2. ASSUME NEW i \in 1..Len(nodes), Passed(i) PROVE Passed(i)'
  BY <1>1, <1>2, StaysPassed
<1> QED
  BY <1>2 DEF QuietInv, MainJoined, StartFailed, Before, After

(* A further signal, or a node's end, joins no thread.                     *)
LEMMA SignalIsQuiet ==
  ASSUME QuietInv, CleanInv',
         Signal \/ \E n \in Names : NodeEnds(n) \/ GivesUp(n) \/ UsesDestroyed(n)
  PROVE  QuietInv'
<1>1. /\ UNCHANGED <<nodes, started, joining, joiner, destroyed>>
      /\ at' \in {at, "crashed"}
  BY DEF Signal, NodeEnds, GivesUp, UsesDestroyed, buildVars, wiring, threadVars
<1>2. CASE Signal
  <2>1. PICK h \in [on : Threads, next : 0..Back] :
          /\ handlers' = Append(handlers, h) /\ thread' = thread
          /\ Len(handlers) + 1 <= MaxSignals
    <3>1. pattern \in Patterns
      BY DEF QuietInv, CleanInv, AllocInv, BuildInv, CallsLeft
    <3>2. Targets[pattern] \in Seq(SUBSET Threads) /\ Len(Targets[pattern]) <= MaxSignals
      BY <3>1, DaemonAssumption DEF DaemonAssumption
    <3>3. Len(handlers) \in Nat /\ Len(Targets[pattern]) \in Nat
      BY <3>2, LenProperties DEF QuietInv, ThreadTypes
    <3>4. Len(handlers) + 1 \in 1..Len(Targets[pattern])
      BY <1>2, <3>3 DEF Signal
    <3>5. Targets[pattern][Len(handlers) + 1] \subseteq Threads
      BY <3>2, <3>4
    <3>6. 0 \in 0..Back
      BY DaemonConstants
    <3>7. Len(handlers) + 1 <= MaxSignals
      BY <3>2, <3>3, <3>4, DaemonConstants
    <3> QED
      BY <1>2, <3>5, <3>6, <3>7 DEF Signal
  <2>2. /\ handlers \in Seq([on : Threads, next : 0..Back])
        /\ handlers' \in Seq([on : Threads, next : 0..Back])
        /\ Len(handlers) \in Nat /\ Len(handlers') = Len(handlers) + 1
        /\ \A k \in 1..Len(handlers) : handlers'[k] = handlers[k]
    BY <2>1, AppendProperties, LenProperties DEF QuietInv, ThreadTypes
  <2>4. ThreadTypes' /\ Started'
    BY <1>1, <2>1, <2>2 DEF QuietInv, ThreadTypes, Started
  <2>5. Waits'
    <3> SUFFICES ASSUME NEW n \in Names, joiner'[n] \in 1..MaxSignals
                 PROVE  /\ joiner'[n] \in 1..Len(handlers')
                        /\ handlers'[joiner'[n]].next \in 1..Len(nodes')
                        /\ nodes'[handlers'[joiner'[n]].next] = n
      BY DEF Waits
    <3>1. /\ joiner[n] \in 1..Len(handlers)
          /\ handlers[joiner[n]].next \in 1..Len(nodes)
          /\ nodes[handlers[joiner[n]].next] = n
      BY <1>1 DEF QuietInv, Waits
    <3>2. joiner[n] \in 1..Len(handlers') /\ handlers'[joiner[n]] = handlers[joiner[n]]
      BY <2>2, <3>1
    <3> QED
      BY <1>1, <3>1, <3>2
  <2>6. MainJoined'
    BY <1>1, <2>1, <2>2, MainStays
  <2> QED
    BY <2>4, <2>5, <2>6 DEF QuietInv
<1>3. ASSUME NEW n \in Names, NodeEnds(n) \/ GivesUp(n) \/ UsesDestroyed(n)
      PROVE  QuietInv'
  <2>1. /\ handlers' = handlers
        /\ \/ thread[n] = "running" /\ thread' = [thread EXCEPT ![n] = "ended"]
           \/ thread' = thread
    BY <1>3 DEF NodeEnds, GivesUp, UsesDestroyed, Free, Ends, threadVars
  <2>2. nodes \in Seq(Names) /\ thread \in [Names -> {"none", "running", "ended", "joined"}]
    BY DEF QuietInv, CleanInv, AllocInv, Allocated, ThreadTypes
  <2>3. Len(handlers) \in Nat
    BY LenProperties DEF QuietInv, ThreadTypes
  <2>5. ThreadTypes'
    BY <1>1, <2>1, <2>2 DEF QuietInv, ThreadTypes
  <2>6. Started' /\ Waits'
    BY <1>1, <2>1, <2>2 DEF QuietInv, Started, Waits
  <2>7. MainJoined'
    BY <1>1, <2>1, <2>2, <2>3, MainStays
  <2> QED
    BY <2>5, <2>6, <2>7 DEF QuietInv
<1> QED
  BY <1>2, <1>3

(* A handler that goes on at next.                                         *)
MovesTo(k, next) ==
  handlers' = [handlers EXCEPT ![k] = [on |-> handlers[k].on, next |-> next]]

LEMMA NextMoves ==
  ASSUME QuietInv, NEW k \in 1..Len(handlers), NEW next
  PROVE  [handlers EXCEPT ![k].next = next] =
           [handlers EXCEPT ![k] = [on |-> handlers[k].on, next |-> next]]
<1>1. handlers \in Seq([on : Threads, next : 0..Back])
  BY DEF QuietInv, ThreadTypes
<1>2. handlers[k] \in [on : Threads, next : 0..Back]
  BY <1>1, ElementOfSeq
<1> DEFINE h == [on |-> handlers[k].on, next |-> next]
<1>3. [handlers[k] EXCEPT !.next = next] = h
  BY <1>2
<1>4. [handlers EXCEPT ![k].next = next] =
        [handlers EXCEPT ![k] = [handlers[k] EXCEPT !.next = next]]
  OBVIOUS
<1> QED
  BY <1>3, <1>4

(* A handler that moves on waits for no node.                              *)
LEMMA HandlerMoves ==
  ASSUME QuietInv, NEW k \in 1..Len(handlers), NEW next \in 0..Back,
         MovesTo(k, next), UNCHANGED nodes,
         \A n \in Names : joiner'[n] \in 1..MaxSignals =>
                            joiner'[n] = joiner[n] /\ joiner[n] # k
  PROVE  /\ handlers' \in Seq([on : Threads, next : 0..Back])
         /\ Len(handlers') = Len(handlers) /\ Len(handlers) \in Nat
         /\ \A j \in 1..Len(handlers) : handlers'[j].on = handlers[j].on
         /\ Waits'
<1>1. handlers \in Seq([on : Threads, next : 0..Back]) /\ Len(handlers) \in Nat
  BY LenProperties DEF QuietInv, ThreadTypes
<1>3. handlers[k] \in [on : Threads, next : 0..Back]
  BY <1>1, ElementOfSeq
<1> DEFINE h == [on |-> handlers[k].on, next |-> next]
<1>6. h \in [on : Threads, next : 0..Back] /\ h.on = handlers[k].on
  BY <1>3
<1>7. /\ handlers' \in Seq([on : Threads, next : 0..Back])
      /\ Len(handlers') = Len(handlers)
      /\ \A j \in 1..Len(handlers) : handlers'[j] = IF j = k THEN h ELSE handlers[j]
  <2>1. handlers' = [handlers EXCEPT ![k] = h]
    BY DEF MovesTo
  <2> HIDE DEF h
  <2> QED
    BY <1>1, <1>6, <2>1, ExceptSeq
<1>8. \A j \in 1..Len(handlers) : handlers'[j].on = handlers[j].on
  BY <1>6, <1>7
<1>9. Waits'
  <2> SUFFICES ASSUME NEW n \in Names, joiner'[n] \in 1..MaxSignals
               PROVE  /\ joiner'[n] \in 1..Len(handlers')
                      /\ handlers'[joiner'[n]].next \in 1..Len(nodes')
                      /\ nodes'[handlers'[joiner'[n]].next] = n
    BY DEF Waits
  <2>1. joiner'[n] = joiner[n] /\ joiner[n] # k
    OBVIOUS
  <2>2. /\ joiner[n] \in 1..Len(handlers)
        /\ handlers[joiner[n]].next \in 1..Len(nodes)
        /\ nodes[handlers[joiner[n]].next] = n
    BY <2>1 DEF QuietInv, Waits
  <2>3. handlers'[joiner[n]] = handlers[joiner[n]]
    BY <1>7, <2>1, <2>2
  <2> QED
    BY <1>7, <2>1, <2>2, <2>3
<1> QED
  BY <1>1, <1>7, <1>8, <1>9

(* pipeline_stop()'s loop: from a node to the next, or behind the last.    *)
LEMMA HandlerGoesOn ==
  ASSUME QuietInv, NEW k \in 1..Len(handlers), GoOn(k),
         handlers[k].next \in 0..Len(nodes)
  PROVE  \E next \in 0..Back : MovesTo(k, next)
<1>1. Len(nodes) \in Nat /\ Len(nodes) <= MAX_PIPELINE_NODES
  BY LenProperties DEF QuietInv, CleanInv, AllocInv, Allocated, ThreadTypes
<1>2. handlers[k].next + 1 \in 0..Back
  BY <1>1, DaemonConstants
<1>3. handlers' = [handlers EXCEPT ![k].next = handlers[k].next + 1]
  BY DEF GoOn
<1> QED
  BY <1>2, <1>3, NextMoves DEF MovesTo

(* The handler joins a thread only to the end, as main() does.             *)
LEMMA HandlerIsQuiet ==
  ASSUME QuietInv, CleanInv', NEW k \in 1..MaxSignals, HandlerStep(k)
  PROVE  QuietInv'
<1>1. k \in 1..Len(handlers) /\ Len(handlers) \in Nat
  BY LenProperties DEF HandlerStep, QuietInv, ThreadTypes
<1>2. UNCHANGED <<nodes, started, destroyed, joining>> /\ at' \in {at, "crashed"}
  <2>1. CASE StopBegins(k)
    BY <2>1 DEF StopBegins, Undefined, wiring
  <2>2. CASE StopJoins(k)
    BY <2>2 DEF StopJoins, Join, Undefined, wiring
  <2>3. CASE StopReturns(k)
    BY <2>3 DEF StopReturns, buildVars, wiring
  <2> QED
    BY <2>1, <2>2, <2>3 DEF HandlerStep
<1>3. nodes \in Seq(Names) /\ thread \in [Names -> {"none", "running", "ended", "joined"}]
      /\ joiner \in [Names -> 0..NoOne] /\ Len(nodes) \in Nat
  BY LenProperties DEF QuietInv, CleanInv, AllocInv, Allocated, ThreadTypes
<1>4. ASSUME NEW next \in 0..Back, MovesTo(k, next),
             UNCHANGED <<thread, joiner>>, \A n \in Names : joiner[n] # k
      PROVE  QuietInv'
  <2>1. /\ handlers' \in Seq([on : Threads, next : 0..Back])
        /\ Len(handlers') = Len(handlers) /\ Len(handlers) \in Nat
        /\ \A j \in 1..Len(handlers) : handlers'[j].on = handlers[j].on
        /\ Waits'
    BY <1>1, <1>2, <1>4, HandlerMoves
  <2>2. ThreadTypes' /\ Started'
    BY <1>2, <1>4, <2>1 DEF QuietInv, ThreadTypes, Started
  <2>3. MainJoined'
    BY <1>2, <1>4, <2>1, MainStays
  <2> QED
    BY <2>1, <2>2, <2>3 DEF QuietInv
<1>5. ASSUME UNCHANGED threadVars PROVE QuietInv'
  <2>1. ThreadTypes' /\ Started' /\ Waits'
    BY <1>2, <1>5 DEF threadVars, QuietInv, ThreadTypes, Started, Waits
  <2>2. MainJoined'
    BY <1>1, <1>2, <1>5, MainStays DEF threadVars
  <2> QED
    BY <2>1, <2>2 DEF QuietInv
<1>6. CASE StopBegins(k)
  <2>1. GoOn(k) /\ UNCHANGED <<thread, joiner>> /\ handlers[k].next = 0
    BY <1>6, Zenon DEF StopBegins
  <2>2. \A n \in Names : joiner[n] # k
    BY <2>1 DEF QuietInv, Waits
  <2>3. \E next \in 0..Back : MovesTo(k, next)
    <3>1. handlers[k].next \in 0..Len(nodes)
      BY <1>3, <2>1
    <3> QED
      BY <1>1, <2>1, <3>1, HandlerGoesOn
  <2> QED
    BY <1>4, <2>1, <2>2, <2>3
<1>7. CASE StopReturns(k)
  <2>1. /\ MovesTo(k, Back)
        /\ UNCHANGED <<thread, joiner>> /\ handlers[k].next > Len(nodes)
    BY <1>1, <1>7, NextMoves, Zenon DEF StopReturns, MovesTo
  <2>2. \A n \in Names : joiner[n] # k
    BY <1>3, <2>1 DEF QuietInv, Waits
  <2>3. Back \in 0..Back
    BY DaemonConstants
  <2> QED
    BY <1>4, <2>1, <2>2, <2>3
<1>8. CASE StopJoins(k)
  <2> DEFINE n == nodes[handlers[k].next]
  <2>1. handlers[k].next \in 1..Len(nodes)
    BY <1>8 DEF StopJoins
  <2>2. n \in Names
    BY <1>3, <2>1
  <2>3. \/ joiner[n] # k /\ GoOn(k) /\ UNCHANGED <<thread, joiner>>
        \/ UNCHANGED threadVars
        \/ /\ joiner' = [joiner EXCEPT ![n] = k] /\ joiner[n] = NoOne
           /\ UNCHANGED <<thread, handlers>>
        \/ /\ thread[n] = "ended" /\ GoOn(k) /\ joiner[n] = k
           /\ joiner' = [joiner EXCEPT ![n] = NoOne]
           /\ thread' = [thread EXCEPT ![n] = "joined"]
    <3>1. CASE Join(k, n, GoOn(k) /\ UNCHANGED joining)
      BY <3>1 DEF Join, MayWait, WaitedFor, threadVars
    <3>2. CASE /\ destroyed /\ joiner[n] # k
               /\ GoOn(k)
               /\ UNCHANGED <<thread, joiner, joining>>
      BY <3>2
    <3> QED
      BY <1>8, <3>1, <3>2 DEF StopJoins
  <2>4. \A m \in Names : joiner[m] = k => m = n
    BY DEF QuietInv, Waits
  <2>5. GoOn(k) => \E next \in 0..Back : MovesTo(k, next)
    <3>1. handlers[k].next \in 0..Len(nodes)
      BY <1>3, <2>1
    <3> QED
      BY <1>1, <3>1, HandlerGoesOn
  <2>6. \A m \in Names \ {n} : \A x, y :
          /\ [joiner EXCEPT ![n] = x][m] = joiner[m]
          /\ [thread EXCEPT ![n] = y][m] = thread[m]
    BY <1>3
  <2>7. \A x : [joiner EXCEPT ![n] = x][n] = x /\ [thread EXCEPT ![n] = x][n] = x
    BY <1>3, <2>2
  <2> HIDE DEF n
  <2>8. CASE joiner[n] # k /\ GoOn(k) /\ UNCHANGED <<thread, joiner>>
    BY <1>4, <2>4, <2>5, <2>8
  <2>9. CASE UNCHANGED threadVars
    BY <1>5, <2>9
  <2>10. CASE /\ joiner' = [joiner EXCEPT ![n] = k] /\ joiner[n] = NoOne
              /\ UNCHANGED <<thread, handlers>>
    <3>1. ThreadTypes' /\ Started'
      BY <1>2, <2>2, <2>10, DaemonConstants DEF QuietInv, ThreadTypes, Started
    <3>2. Waits'
      BY <1>1, <1>2, <1>3, <2>1, <2>2, <2>10 DEF QuietInv, Waits, n
    <3>3. \A m \in Names : joiner'[m] = joiner[m] \/ joiner[m] = NoOne
      BY <2>6, <2>10
    <3>4. MainJoined'
      BY <1>1, <1>2, <2>10, <3>3, MainStays
    <3> QED
      BY <3>1, <3>2, <3>4 DEF QuietInv
  <2>11. CASE /\ thread[n] = "ended" /\ GoOn(k) /\ joiner[n] = k
              /\ joiner' = [joiner EXCEPT ![n] = NoOne]
              /\ thread' = [thread EXCEPT ![n] = "joined"]
    <3>1. \A m \in Names : joiner'[m] \in 1..MaxSignals =>
                             joiner'[m] = joiner[m] /\ joiner[m] # k
      BY <1>3, <2>2, <2>4, <2>11, DaemonConstants
    <3>2. PICK next \in 0..Back : MovesTo(k, next)
      BY <2>5, <2>11
    <3>3. /\ handlers' \in Seq([on : Threads, next : 0..Back])
          /\ Len(handlers') = Len(handlers) /\ Len(handlers) \in Nat
          /\ \A j \in 1..Len(handlers) : handlers'[j].on = handlers[j].on
          /\ Waits'
      BY <1>1, <1>2, <3>1, <3>2, HandlerMoves
    <3>4. ThreadTypes'
      BY <1>2, <1>3, <2>2, <2>11, <3>3, DaemonConstants DEF QuietInv, ThreadTypes
    <3>5. Started'
      BY <1>2, <1>3, <2>2, <2>11 DEF QuietInv, Started
    <3>6. \A m \in Names : /\ thread[m] = "joined" => thread'[m] = "joined"
                           /\ joiner'[m] = joiner[m] \/ thread'[m] = "joined"
      BY <2>6, <2>7, <2>11
    <3>7. MainJoined'
      BY <1>2, <3>3, <3>6, MainStays
    <3> QED
      BY <3>3, <3>4, <3>5, <3>7 DEF QuietInv
  <2> QED
    BY <2>3, <2>8, <2>9, <2>10, <2>11
<1> QED
  BY <1>6, <1>7, <1>8 DEF HandlerStep

(* Who waits for whom is known throughout the daemon's life.               *)
THEOREM QuietInvariant == Spec => []QuietInv
<1>1. Init /\ CleanInv => QuietInv
  <2> SUFFICES ASSUME Init, CleanInv PROVE QuietInv
    OBVIOUS
  <2>1. /\ nodes = <<>> /\ started = 0 /\ joining = 1 /\ handlers = <<>>
        /\ thread = [n \in Names |-> "none"]
        /\ joiner = [n \in Names |-> NoOne]
        /\ destroyed = FALSE /\ at = "start_log"
    BY DEF Init, BuildInit
  <2>2. ThreadTypes /\ Started /\ Waits
    BY <2>1, DaemonConstants DEF ThreadTypes, Started, Waits
  <2>3. MainJoined
    BY <2>1 DEF MainJoined, Before
  <2> QED
    BY <2>2, <2>3 DEF QuietInv
<1>2. QuietInv /\ CleanInv' /\ [Next]_vars => QuietInv'
  <2> SUFFICES ASSUME QuietInv, CleanInv', [Next]_vars PROVE QuietInv'
    OBVIOUS
  <2>1. CASE MainStep
    BY <2>1, EarlyIsQuiet, BuildIsQuiet, StartIsQuiet, JoiningIsQuiet,
       CleanupIsQuiet DEF MainStep
  <2>2. CASE \E k \in 1..MaxSignals : HandlerStep(k)
    BY <2>2, HandlerIsQuiet
  <2>3. CASE Signal \/ \E n \in Names : NodeEnds(n) \/ GivesUp(n) \/ UsesDestroyed(n)
    BY <2>3, SignalIsQuiet
  <2>4. CASE UNCHANGED vars
    <3>1. UNCHANGED <<nodes, at, started, joining, thread, joiner, handlers,
                      destroyed>>
      BY <2>4 DEF vars, buildVars, wiring, daemonVars
    <3>2. ThreadTypes' /\ Started' /\ Waits'
      BY <3>1 DEF QuietInv, ThreadTypes, Started, Waits
    <3>3. Len(handlers) \in Nat
      BY LenProperties DEF QuietInv, ThreadTypes
    <3> QED
      BY <3>1, <3>2, <3>3, MainStays DEF QuietInv
  <2> QED
    BY <2>1, <2>2, <2>3, <2>4 DEF Next
<1> QED
  BY <1>1, <1>2, CleanInvariant, PTL DEF Spec

(* DestroyedOnlyWhenQuiet: unless pipeline_start() has failed, main()      *)
(* destroys queues and nodes only when each thread has ended, or a handler *)
(* on a node's thread is waiting for it - wherever and however often       *)
(* handlers join, in between, the thread main() would join next.           *)
THEOREM DestroyedOnlyWhenQuietHolds == Spec => []DestroyedOnlyWhenQuiet
<1>1. QuietInv => DestroyedOnlyWhenQuiet
  <2> SUFFICES ASSUME QuietInv, destroyed, ~StartFailed,
                      NEW n \in Names, thread[n] = "running"
               PROVE  WaitedForByNode(n)
    BY DEF DestroyedOnlyWhenQuiet
  <2>1. PICK i \in 1..started : nodes[i] = n
    BY DEF QuietInv, Started
  <2>2. i \in 1..Len(nodes)
    BY <2>1, LenProperties DEF QuietInv, ThreadTypes, CleanInv, AllocInv, Allocated
  <2>3. Passed(i)
    BY <2>2 DEF QuietInv, MainJoined
  <2> QED
    BY <2>1, <2>3 DEF Passed, Joined
<1> QED
  BY <1>1, QuietInvariant, PTL
=============================================================================
