------------------------------- MODULE Daemon -------------------------------
(***************************************************************************)
(* The daemon from start_log() to the abort in pipeline_destroy(): main()  *)
(* builds and starts the pipeline, waits for its threads and cleans up;    *)
(* the signal handler may run on any thread at any time and stops the      *)
(* pipeline by joining the same threads main() joins.                      *)
(*                                                                         *)
(* What a node does while it runs is PacketFlow; here it is a thread that  *)
(* may end once should_exit is set.  Undefined behaviour - using memory    *)
(* that is gone, freeing it again, joining a thread twice - either crashes *)
(* the process or has no effect.                                           *)
(*                                                                         *)
(* A call of printL() is part of the step it belongs to.  Its mutex shows  *)
(* only when a handler interrupts the call: the handler's own call then    *)
(* waits for the mutex, which therefore is never released again.           *)
(***************************************************************************)
EXTENDS PipelineBuild

CONSTANTS HandledSignals,  \* how many signals get the handler (3)
          Targets,         \* bound: Targets[p][i] is the set of threads the
                           \* i-th signal may be delivered to, with pattern p
          MaxSignals       \* bound: the most signals the daemon receives

Main == "main"
Threads == Names \cup {Main}

ASSUME DaemonAssumption ==
  /\ Main \notin Names
  /\ HandledSignals \in Nat \ {0}
  /\ MaxSignals \in Nat
  /\ \A p \in Patterns : /\ Targets[p] \in Seq(SUBSET Threads)
                         /\ Len(Targets[p]) <= MaxSignals

VARIABLES at,        \* where main() is
          log,       \* the log: "none" before or without start_log, "open",
                     \* or "held" by a call that can never go on
          handled,   \* for how many signals the handler is installed
          started,   \* how many threads pipeline_start has created
          joining,   \* the index of the node main() joins
          thread,    \* thread[n]: the state of n's thread
          joiner,    \* joiner[n]: who waits for n's thread to end
          handlers,  \* the handler's activations: on which thread, and the
                     \* index of the node it joins, 0 before the loop, one
                     \* more than there are behind it, Back after its return
          destroyed  \* have queues and nodes been destroyed?

daemonVars == <<at, log, handled, started, joining, thread, joiner, handlers,
                destroyed>>
threadVars == <<thread, joiner, handlers>>
vars == <<buildVars, daemonVars>>

(* An activation is main() itself, 0, or a handler, by its number.         *)
MainProgram == 0
NoOne == MaxSignals + 1
Thread(a) == IF a = MainProgram THEN Main ELSE handlers[a].on
Back == MAX_PIPELINE_NODES + 2
Returned(k) == handlers[k].next = Back

Gone == at \in {"aborted", "crashed"}

Listed == {nodes[i] : i \in 1..Len(nodes)}

(* printL() gets its mutex, sooner or later.                               *)
CanLog == log # "held"

(* The innermost handler of a thread runs, what it has interrupted waits.  *)
Runs(a) ==
  /\ ~Gone
  /\ \A k \in (a + 1)..Len(handlers) : Thread(k) = Thread(a) => Returned(k)

Undefined(next) == at' \in {next, "crashed"}

Init ==
  /\ BuildInit
  /\ rule_count = 0
  /\ at = "start_log"
  /\ log = "none"
  /\ handled = 0
  /\ started = 0
  /\ joining = 1
  /\ thread = [n \in Names |-> "none"]
  /\ joiner = [n \in Names |-> NoOne]
  /\ handlers = <<>>
  /\ destroyed = FALSE
-----------------------------------------------------------------------------
(* main() up to the start of the pipeline.                                 *)

MainAt(step) == at = step /\ Runs(MainProgram)

(* A step after which main() writes to the log: without one it crashes.    *)
Logged(next) == at' = IF log = "none" THEN "crashed" ELSE next

(* start_log() may fail, but nobody looks at its result.                   *)
StartLog ==
  /\ MainAt("start_log")
  /\ log' \in {"open", "none"}
  /\ at' = "setrlimit"
  /\ UNCHANGED <<buildVars, handled, started, joining, threadVars, destroyed>>

SetLimit ==
  /\ MainAt("setrlimit")
  /\ at' = "signal" \/ Logged("destroy")
  /\ UNCHANGED <<buildVars, log, handled, started, joining, threadVars, destroyed>>

InstallHandler ==
  /\ MainAt("signal")
  /\ \/ /\ handled' = handled + 1
        /\ at' = IF handled' = HandledSignals THEN "load" ELSE "signal"
     \/ /\ Logged("destroy")
        /\ UNCHANGED handled
  /\ UNCHANGED <<buildVars, log, started, joining, threadVars, destroyed>>

(* No rules is not an error here: the taggers will not be created.         *)
FillTagRules ==
  /\ MainAt("load")
  /\ \/ /\ rule_count' \in {0, 1}
        /\ Logged("init")
     \/ /\ Logged("destroy")
        /\ UNCHANGED rule_count
  /\ UNCHANGED <<pattern, phase, created, todo, arrays, should_exit, wiring,
                 dropped, log, handled, started, joining, threadVars, destroyed>>

InitPipeline ==
  /\ MainAt("init")
  /\ \/ pipeline_init /\ at' = "build"
     \/ InitFails /\ at' = "destroy"
  /\ UNCHANGED <<log, handled, started, joining, threadVars, destroyed>>

BuildPipeline ==
  /\ MainAt("build")
  /\ Build
  /\ at' = CASE phase' = "built" -> "start"
             [] phase' = "failed" -> "destroy"
             [] OTHER -> "build"
  /\ UNCHANGED <<log, handled, started, joining, threadVars, destroyed>>

node_start(n) == thread' = [thread EXCEPT ![n] = "running"]

(* pipeline_start(): if a thread cannot be created, those before it stay.  *)
(* Each step logs.  (Up to here there is no other thread to hold the log.) *)
StartNode ==
  /\ MainAt("start")
  /\ CanLog
  /\ IF started = Len(nodes)
     THEN at' = "join" /\ UNCHANGED <<started, thread>>
     ELSE \/ /\ started' = started + 1
             /\ node_start(nodes[started'])
             /\ UNCHANGED at
          \/ /\ at' = "destroy"
             /\ UNCHANGED <<started, thread>>
  /\ UNCHANGED <<buildVars, log, handled, joining, joiner, handlers, destroyed>>
-----------------------------------------------------------------------------
(* pthread_join(), as glibc does it.                                       *)

WaitedFor(n) == joiner[n] # NoOne

(* The call waits for n, unless that is the caller's own thread, somebody  *)
(* else waits for it already, or it is itself waiting for the caller's:    *)
(* then it returns an error at once.                                       *)
MayWait(a, n) ==
  /\ n # Thread(a)
  /\ ~WaitedFor(n)
  /\ Thread(a) \in Names /\ WaitedFor(Thread(a)) =>
       Thread(joiner[Thread(a)]) # n

(* a calls pthread_join for n and, when it is through, goes on as next     *)
(* says.  A thread that was never created has no descriptor.               *)
Join(a, n, next) ==
  \/ /\ joiner[n] # a
     /\ thread[n] = "none"
     /\ at' = "crashed"
     /\ UNCHANGED <<threadVars, joining>>
  \/ /\ joiner[n] # a
     /\ thread[n] = "joined"
     /\ \/ at' = "crashed" /\ UNCHANGED <<handlers, joining>>
        \/ UNCHANGED at /\ next
     /\ UNCHANGED <<thread, joiner>>
  \/ /\ joiner[n] # a
     /\ thread[n] \in {"running", "ended"}
     /\ ~MayWait(a, n)
     /\ next
     /\ UNCHANGED <<at, thread, joiner>>
  \/ /\ joiner[n] # a
     /\ thread[n] \in {"running", "ended"}
     /\ MayWait(a, n)
     /\ joiner' = [joiner EXCEPT ![n] = a]
     /\ UNCHANGED <<at, thread, handlers, joining>>
  \/ /\ joiner[n] = a
     /\ thread[n] = "ended"
     /\ joiner' = [joiner EXCEPT ![n] = NoOne]
     /\ thread' = [thread EXCEPT ![n] = "joined"]
     /\ next
     /\ UNCHANGED at

(* main() joins one node after the other.                                  *)
MainJoins_SkipsLast ==
  /\ MainAt("join")
  /\ IF joining >= Len(nodes)
     THEN at' = "destroy" /\ UNCHANGED <<threadVars, joining>>
     ELSE Join(MainProgram, nodes[joining],
               joining' = joining + 1 /\ UNCHANGED handlers)
  /\ UNCHANGED <<buildVars, log, handled, started, destroyed>>

MainJoins ==
  /\ MainAt("join")
  /\ IF joining > Len(nodes)
     THEN at' = "destroy" /\ UNCHANGED <<threadVars, joining>>
     ELSE Join(MainProgram, nodes[joining],
               joining' = joining + 1 /\ UNCHANGED handlers)
  /\ UNCHANGED <<buildVars, log, handled, started, destroyed>>
-----------------------------------------------------------------------------
(* cleanup().                                                              *)

(* queue_destroy(), for every queue.                                       *)
queue_destroy == destroyed' = TRUE

(* pipeline_destroy() destroys the queues, the nodes and the arrays.       *)
(* After a failed pipeline_init() an array is freed a second time.         *)
DestroyPipeline ==
  /\ MainAt("destroy")
  /\ IF arrays = "dangling" THEN Undefined("free") ELSE at' = "free"
  /\ queue_destroy
  /\ node_destroy(Listed)
  /\ arrays' = IF arrays = "allocated" THEN "dangling" ELSE arrays
  /\ UNCHANGED <<pattern, rule_count, phase, created, todo, should_exit, nodes,
                 queue_count, input, outputs, dropped, log, handled, started,
                 joining, threadVars>>

(* free(pipeline): global_pipeline is static, and glibc aborts.            *)
FreePipeline ==
  /\ MainAt("free")
  /\ at' = "aborted"
  /\ UNCHANGED <<buildVars, log, handled, started, joining, threadVars, destroyed>>
-----------------------------------------------------------------------------
(* The signal handler.                                                     *)

Exists(t) == t \in Names => thread[t] = "running"

(* Is k about to join a node, or waiting for one?                          *)
Joins(k) ==
  \/ handlers[k].next = 1 /\ nodes # <<>>
  \/ \E n \in Names : joiner[n] = k

(* May thread t be inside printL(), with the mutex?  Its innermost handler *)
(* may, unless it joins; without one a node may at any time, and main()    *)
(* from the registration of the handler until the threads are started.     *)
Active(t) == {k \in 1..Len(handlers) : handlers[k].on = t /\ ~Returned(k)}
InPrintL(t) ==
  \/ /\ Active(t) = {}
     /\ t = Main => at \in {"signal", "load", "init", "build", "start"}
  \/ \E k \in Active(t) : ~Joins(k) /\ \A j \in Active(t) : j <= k

Signal ==
  /\ ~Gone
  /\ handled > 0
  /\ Len(handlers) < Len(Targets[pattern])
  /\ \E t \in Targets[pattern][Len(handlers) + 1] :
       /\ Exists(t)
       /\ handlers' = Append(handlers, [on |-> t, next |-> 0])
       /\ \/ UNCHANGED log
          \/ log = "open" /\ InPrintL(t) /\ log' = "held"
  /\ UNCHANGED <<buildVars, at, handled, started, joining, thread, joiner, destroyed>>

GoOn(k) == handlers' = [handlers EXCEPT ![k].next = @ + 1]

RequestExit_Forgotten == UNCHANGED should_exit

RequestExit == should_exit' = TRUE

(* The handler logs, and pipeline_stop() sets the flag and signals every   *)
(* queue, through arrays that may be gone.                                 *)
StopBegins(k) ==
  /\ Runs(k)
  /\ handlers[k].next = 0
  /\ CanLog
  /\ CASE log = "none" -> at' = "crashed"
       [] log # "none" /\ arrays = "dangling" /\ queue_count > 0 -> Undefined(at)
       [] OTHER -> UNCHANGED at
  /\ RequestExit
  /\ GoOn(k)
  /\ UNCHANGED <<pattern, rule_count, phase, created, todo, arrays, wiring, dropped,
                 log, handled, started, joining, thread, joiner, destroyed>>

(* node_stop() sets the flag again, joins and logs, here before the next.  *)
(* Which node to join, it must find out before; a join that has begun      *)
(* needs no memory of the pipeline.                                        *)
StopJoins(k) ==
  /\ Runs(k)
  /\ handlers[k].next \in 1..Len(nodes)
  /\ CanLog \/ Joins(k)
  /\ \/ /\ ~destroyed \/ joiner[nodes[handlers[k].next]] = k
        /\ Join(k, nodes[handlers[k].next], GoOn(k) /\ UNCHANGED joining)
     \/ /\ destroyed /\ joiner[nodes[handlers[k].next]] # k
        /\ Undefined(at)
        /\ GoOn(k)
        /\ UNCHANGED <<thread, joiner, joining>>
  /\ RequestExit
  /\ UNCHANGED <<pattern, rule_count, phase, created, todo, arrays, wiring, dropped,
                 log, handled, started, destroyed>>

(* The loop ends with the nodes there are at that time.                    *)
StopReturns(k) ==
  /\ Runs(k)
  /\ handlers[k].next > Len(nodes)
  /\ ~Returned(k)
  /\ CanLog
  /\ handlers' = [handlers EXCEPT ![k].next = Back]
  /\ UNCHANGED <<buildVars, at, log, handled, started, joining, thread, joiner,
                 destroyed>>
-----------------------------------------------------------------------------
(* The nodes' threads.                                                     *)

Wired(n) ==
  /\ pattern.kind[n] # "sniffer" => input[n] # 0
  /\ pattern.kind[n] = "dispatcher" => outputs[n] # <<>>

Free(n) ==
  /\ ~Gone
  /\ thread[n] = "running"
  /\ \A k \in 1..Len(handlers) : handlers[k].on = n => Returned(k)

Ends(n) == thread' = [thread EXCEPT ![n] = "ended"]

(* A thread ends when it sees the flag, or that it has nothing to read or, *)
(* as a dispatcher, nobody to send to, and logs that.                      *)
NodeEnds(n) ==
  /\ Free(n)
  /\ CanLog
  /\ should_exit \/ ~Wired(n)
  /\ Ends(n)
  /\ UNCHANGED <<buildVars, at, log, handled, started, joining, joiner, handlers,
                 destroyed>>

(* The sniffer and the sender end after too many errors, for all nodes.    *)
GivesUp(n) ==
  /\ Free(n)
  /\ CanLog
  /\ pattern.kind[n] \in {"sniffer", "sender"}
  /\ Wired(n)
  /\ should_exit' = TRUE
  /\ Ends(n)
  /\ UNCHANGED <<pattern, rule_count, phase, created, todo, arrays, wiring, dropped,
                 at, log, handled, started, joining, joiner, handlers, destroyed>>

(* A thread that still runs uses its queues after they were destroyed.     *)
UsesDestroyed(n) ==
  /\ Free(n)
  /\ destroyed
  /\ at' = "crashed"
  /\ UNCHANGED <<buildVars, log, handled, started, joining, threadVars, destroyed>>
-----------------------------------------------------------------------------
MainStep ==
  \/ StartLog \/ SetLimit \/ InstallHandler \/ FillTagRules \/ InitPipeline
  \/ BuildPipeline \/ StartNode \/ MainJoins
  \/ DestroyPipeline \/ FreePipeline

HandlerStep(k) ==
  k <= Len(handlers) /\ (StopBegins(k) \/ StopJoins(k) \/ StopReturns(k))

Next ==
  \/ MainStep \/ Signal
  \/ \E k \in 1..MaxSignals : HandlerStep(k)
  \/ \E n \in Names : NodeEnds(n) \/ GivesUp(n) \/ UsesDestroyed(n)

Spec == Init /\ [][Next]_vars

(* main() and the handlers are scheduled.  Nothing obliges a node to end:  *)
(* it may be blocked where it does not see the flag.                       *)
FairSpec ==
  /\ Spec
  /\ WF_vars(MainStep)
  /\ \A k \in 1..MaxSignals : WF_vars(HandlerStep(k))
-----------------------------------------------------------------------------
(* Properties.                                                             *)

StartFailed == started < Len(nodes)

(* main() does not destroy what a thread still uses: once the whole        *)
(* pipeline has been started, its queues and nodes go only when every      *)
(* node's thread has ended, although handlers on main()'s own thread may   *)
(* join some of them - or a handler on a node's thread is waiting for the  *)
(* one that runs: main()'s join of it then has failed, and main() goes on. *)
(* (After a failed start, main() destroys under the threads there are.)    *)
WaitedForByNode(n) ==
  \E k \in 1..Len(handlers) : joiner[n] = k /\ handlers[k].on \in Names

DestroyedOnlyWhenQuiet ==
  destroyed /\ ~StartFailed =>
    \A n \in Names : thread[n] = "running" => WaitedForByNode(n)

(* pipeline_destroy() frees each node exactly once, whichever step has     *)
(* failed: when it is called, the pipeline lists the nodes that are        *)
(* allocated, and none of them twice.                                      *)
FreedOnce ==
  at = "destroy" =>
    /\ alive = Listed
    /\ \A i, j \in 1..Len(nodes) : nodes[i] = nodes[j] => i = j

(* The first stop that is requested after pipeline_init() ends the daemon, *)
(* unless some node does not react to the flag, or the handler has         *)
(* interrupted printL(): as far as the joins go, the handler and main()    *)
(* do not get in each other's way.  (A stop that comes before              *)
(* pipeline_init() is forgotten; and after a second one, handlers on two   *)
(* nodes' threads can wait for each other.)                                *)
FirstStop ==
  /\ <>(phase # "none" /\ handlers = <<>>)
  /\ <>(handlers # <<>>)
  /\ [](Len(handlers) <= 1)

Deaf(n) == should_exit /\ Free(n) /\ CanLog
Ended == <>Gone \/ \E n \in Names : <>[]Deaf(n)

StopEnds == FirstStop /\ []CanLog => Ended

(* The same wherever the signal comes, also inside printL(): a test tells  *)
(* its user to stop the daemon by a signal, at any time.                   *)
StopAlwaysEnds == FirstStop => Ended
=============================================================================
