# Verification of vlan_tagger

vlan_tagger is a daemon that captures Ethernet frames on one interface, gives
each IPv4 frame the VLAN tag its destination address calls for, and sends it
out of another interface. It is built as a pipeline of nodes. Every node is a
thread with one input queue; nodes hand frames to each other through bounded
queues. This directory holds TLA+ models of the program, TLC configurations
that check them on small instances, and TLAPS proofs for every instance.

Paths below are relative to the repository's root.

## Inventory

| Component | State | Operations | Made correct by |
|---|---|---|---|
| Queue (`queue/queue.c`) | ring of slots, `sizes`, `front`, `rear`, mutex, condition variable | `init`, `push`, `pop`, `remove_front`, `front`, `back`, `send_signal_queue`, `queue_destroy` | it is a FIFO for any number of threads; the ring keeps no count, full and empty are read off `sizes`; no wakeup is lost |
| Tag rules (`config_parser.c`, `tagger_node.c`) | table of address ranges with a VLAN ID | `validate_rules`, `tagger_node_get_tag` | at most one rule per address |
| Config parser (`config_parser/config_parser.c`) | table being filled, count | `tag_rules_load` | loads what is written, or fails; never writes past the table |
| Node (`pipeline/node.c`) | input queue, output queues, thread, pointer to `should_exit` | create, connect, start, stop, `node_send_to_outputs` | each output gets each frame once, or loses it because it is full |
| Pipeline (`pipeline/pipeline.c`) | nodes, queues, `should_exit` | init, build, add, connect, connect shared, start, stop, destroy | wiring is what the pattern asks for, one reader per queue; stop ends every thread |
| Sniffer, Sender (`nodes/src`) | packet socket, error counter | receive loop, send loop | tolerate some errors in a row, then stop the whole pipeline |
| Dispatcher | strategy, `next_index`, `packets_sent` | choose one output per frame | every frame goes to one output; the statistic is right |
| Tagger | copy of the rules | filter, look up, insert tag | the frame leaves with exactly its rule's tag |
| PacketCounter, Logger, Collector | statistics | count, dump, forward | forward everything unchanged; count each frame once |
| IpModifier | new address, buffer | rewrite address and checksum | checksum is valid, nothing else changes |
| Patterns (`pipeline_patterns/patterns.c`) | – | two wirings | a pipeline is what its pattern draws |
| Log file (`logger/logger.c`) | file, mutex | `start_log`, `stop_log`, `printL` | lines are not mixed, every call gives the mutex back |
| Daemon (`main.c`) | global pipeline and rules, signal handler | start-up, handler, joins, cleanup | destroys what no thread uses, each node once; a signal ends it |

Interaction: `main` loads the rules, builds the pipeline with a pattern, starts
one thread per node and joins them. Nodes share nothing but queues and
`should_exit`, which the signal handler sets through `pipeline_stop`, and the
sniffer and the sender set when they give up. All components write the log.

What is hard to test: interleavings in the queue; overflow of a queue between
two nodes of different speed; a stop arriving at any point of any node's
iteration; a signal on any thread while `main` starts, joins or destroys the
pipeline or is inside `printL`; a step of the start-up failing in the middle; lines of several threads
in one stream; errors in a row up to their limit and one beyond; boundary values
of rules, lengths and checksums. `PROJECT.json` lists these hazards with their
lines.

## Modules

| Module | Models | State and actions |
|---|---|---|
| `BoundedFifo` | what `queue.h` promises | the content as a sequence and the latest result; one atomic action per outcome of a call |
| `PacketQueue` | `queue.c` | ring, mutex, wait set, and per thread the step it is at; one action per step between two points where another thread can interfere |
| `TagRules` | `validate_rules`, `tagger_node_get_tag` | operators |
| `Frames` | what the nodes read and write in a frame | operators |
| `PacketFlow` | the running pipeline: all process functions of the two patterns, `pipeline_start`, `pipeline_stop`, `node_stop`, `node_send_to_outputs` | a queue, buffer, position and context per node; one action per blocking call or push |
| `Patterns` | `patterns.c` | the two wirings, and the calls that are to produce them |
| `PipelineBuild` | `pipeline_init`, `pipeline_build`, `pipeline_add_node`, `pipeline_create_queue`, `pipeline_connect`, `pipeline_connect_shared`, `node_create` to `node_destroy` | nodes, queues, inputs and outputs, what is allocated; one action per step of a call, succeeding or failing |
| `Daemon` | `main`, the signal handler, `pipeline_start`, `pipeline_stop`, `pipeline_destroy`, `queue_destroy`, `start_log` as `main` uses them | position of `main`, threads, activations of the handler, who joins whom, whether the log's mutex can still be had; one action per step |
| `ConfigParser` | `tag_rules_load` | pieces left to read, rules read, result; one action per turn of the loop |
| `LineLog` | what `printL` promises | the text of the log and the status of each call |
| `LogFile` | `printL`, `get_time`, `stop_log` | the calls, mutex, static time, stream; one action per call of the C library |
| `IpModifier` | `ip_modifier_node.c` | the node's buffer and what it has sent; one action per iteration |
| `PacketQueueProofs`, `LogFileProofs` | – | proofs of invariants and of the refinement |
| `TagRulesProofs`, `ConfigParserProofs`, `DaemonProofs`, `IpModifierProofs` | – | proofs of invariants |
| `PacketFlowProofs`, `PathProofs` | – | proofs about `PacketFlow`: each node for itself and each frame for itself; how frames move and in which order |
| `MC*` | – | constants for TLC |

`PacketFlow` composes the parts of the running pipeline: it uses `TagRules` and
`Frames` for what a tagger does, takes push and pop as single steps on a bounded
sequence, which `QueueIsBoundedFifo` justifies, and runs the wirings of
`Patterns`. That these wirings are what the program builds is checked by
`Daemon`, which extends `PipelineBuild` and makes the calls of `Patterns`
(`BuiltAsPatterned`). `ConfigParser` fills the table the taggers use.

Operators with a suffix (`Lock_Unguarded`, `Popped_Peeks`, ...) are wrong
variants of the definition below them. Nothing uses them; substituting one for
the original makes a property fail, which shows that the property depends on
that code.

### How the models relate to the code

*Queue.* Each call is split at every point where the order of its memory
accesses could matter, so that a missing lock would show up. `pthread_cond_wait`
is split into falling asleep (with the release of the mutex) and waking up; it
may return spuriously or fail. A signal releases any one sleeper. Packet bytes
are one of a few values; `NoData` stands for memory never written. The argument
checks under `DEBUG` are left out. `uint16_t` indices do not overflow because
`Q_SIZE` is at most 65535, which `QueueAssumption` states.

*Pipeline.* A queue is named after its only reader. A node's `pc` says where
its iteration is; looking at `should_exit` is part of the end of the previous
iteration, and `LeaveLoop` lets a thread that has not entered the blocking call
yet see the flag later. `send_signal_queue` does not appear: the `pop` it wakes
finds the same queue and waits again. A push takes no frame that is too long
and none when the queue is full (`Accepts`); either way the frame is lost there,
recorded as "push failed". A frame may have any length up to the 1522 bytes of
`recvfrom`'s buffer; the tagger makes it 4 longer, and what lies behind its
buffer of 1522 bytes is not modelled. `captured`, `sent`, `tagged`, `lost` and
`late` are history variables that no action reads. The log lines are left out.

*Construction.* A pattern is a record: its nodes and their kinds, the order in
which it creates them, its calls (each a sequence of steps that is given up at
the first that fails) and the graph it is meant to build. Creating a node may
fail for any reason, and a tagger needs a rule; later allocations fail at most
`MaxDropped` times. `alive` are the nodes (with their arrays of outputs) that are
allocated, `contexts` the nodes whose context is: counters, a tagger's copy of
the rules, a socket. `node_destroy` frees the former only; the latter are never
freed, nor are their sockets closed on that way (the sniffer closes its socket
when its thread ends, the sender when its loop does). No text of the repository
says who is to free them, so there is no property about it.

*Daemon.* What a node does while it runs is left to `PacketFlow`: here it is a
thread that may end once it can see `should_exit`, or gives up as the sniffer
and the sender do, or ends at once because it has no input or, as a dispatcher,
no output. The handler is an activation on top of the thread it interrupts. A
handler that returns leaves its activation behind, marked `Back`, and its thread
goes on where it was; a thread runs only if all handlers on it have returned.
`pthread_join` is glibc's: it refuses to join the caller, a thread somebody
joins already, and a thread that joins the caller.

`printL` is part of the step that calls it, and takes no time. Its mutex matters
when a signal arrives inside: `Signal` may find its thread in a call (`InPrintL`),
and then the log is `"held"` from there on, because the handler's own call waits
for the thread it has interrupted. Every later step that logs is blocked
(`CanLog`), on all threads. A node's thread may be inside a call at any time,
`main` from the registration of the handler until the threads are started, a
handler unless it is joining. Where a step joins and then logs, the log line is
taken with the step that follows.

Undefined behaviour (memory that is gone, a second `free`, a second join) either
crashes the process or has no effect; a crash ends the model, although the
handler, which is installed for SIGSEGV too, would then run `pipeline_stop` once
more. `pipeline_destroy` ends with `free` of the static `global_pipeline`, at
which glibc aborts; nothing handles SIGABRT. That is the end of every daemon
that does not hang or crash before: `"Pipeline destroyed"` is never logged,
`stop_log` and `exit` are never reached, and they are not in this model. A stop
that comes before `pipeline_init` is forgotten (`pipeline/pipeline.c:23`): the
model does the same, and no property asks for the contrary: `StopEnds` is about
the first stop after it.

*Config parser.* A line is its meaning plus the pieces `fgets` returns for it; a
piece has two texts, cut at the first blank or `#`, and not cut. A text is the
number of its dashes and its parts; a part is what `inet_aton` and `strtol`
make of it. Addresses are the numbers `ntohl` yields. (In the code the loop of
`line_editor`, lines 101-108, can run past the terminating 0 when blanks nearly
fill the buffer; such lines are not in the model. `config_parser/README.MD`
describes functions that no longer exist, so nothing is compared with it.)

*Log file.* A line is five pieces. A time is represented by the call that has
read the clock, so that a line shows whose time it got. `stop_log` comes when no
call is active, which is its caller's obligation; `main` never gets as far as
calling it (see *Daemon*). libc's own lock in `localtime` is left out. In the
refinement a call's line is in the log from its last piece on.

*IP modifier.* A frame is a sequence of 16-bit words, so its length is even; an
address of the model is an offset of the code. The checksum covers as many words
as the header says it has, also beyond the end of the frame, where the buffer
keeps an earlier frame's. `type_field` is a `short`, so it never equals
`0x8100`: a tagged frame passes unchanged, although `README.md:36` of the
repository lists the node as modifying IP addresses, without that exception. No
pattern uses the node.

Assumptions, each a named `ASSUME` or a bound:

* captured frames have 1 to `MAX_PKG_SIZE` = 1522 bytes: `recvfrom` cuts longer
  ones;
* in `PacketFlow`, `pipeline_stop` is called after `pipeline_start` has
  returned, at most once, by a thread that is not a node's; stops at any other
  time, several at once and on nodes' threads are in `Daemon`;
* reads and writes of `should_exit`, a plain `int`, are atomic, and a thread
  reads it anew in each iteration, which the calls in the loop force;
* in `Daemon`, the test whether a thread may be joined and the beginning of the
  wait are one step, and `free` of a static object aborts, as glibc's does;
* there are finitely many threads.

## Runs

| Run | Instance | Shows |
|---|---|---|
| `Queue` | 2 pushers, 2 poppers, 2 slots, all functions, sizes 0, legal and too large | types, `RingWindow`, `TestsStayTrue`, `NoLostWakeup`; the queue implements `BoundedFifo`; `Drained`: nobody stays in `pop` while packets wait |
| `FlowSafety` | VLAN pipeline, random dispatch (which includes round-robin), queues of 1, 2 frames, covered or not, errors of `recvfrom` and `sendto` beyond the limit, a stop at any time | types, `Accounted`, `OrderKept`, `StatsAgree`, `AtMostOneLate`, `EndedMeansStopping` |
| `FlowDetailed` | detailed logging pipeline, queues of 1, a frame of any kind (also of 1519 bytes) and a covered one, rules with tag 0 and for address 0, a failed wait | `SentOnce`, `CopiesAgree`, `SentAsTheRuleSays`, `CoveredNotFiltered`, `FitsBuffer` |
| `FlowLiveness` | random dispatch (which includes round-robin), queues of 1, 2 frames, covered or not, a stop | `Delivered`, `StopQuiesces` |
| `ConfigLoad` | all files of up to 4 lines out of 17, room for 3 rules | types, `LoadedIsUnambiguous`, `LoadsWhatIsWritten`, `GoodFileLoads` |
| `Daemon` | both patterns, each step of the start-up succeeding or failing, up to 2 signals on `main` or a node | `OneReader`, `BuiltAsPatterned`, `DestroyedOnlyWhenQuiet`, `FreedOnce`, `StopEnds` |
| `LogFile` | 2 threads, 3 calls, 1 of them in a handler, 1 failure | `LineLogSpec`, `TimeFromOverlap`, `Durable`, `CallsReturn` |
| `IpModifier` | 2 frames in a row: IPv4 with and without options, truncated, tagged, other protocols | `ReaddressedValidly`, `NothingElseChanges` |

Four runs show where the program does not do what the repository says of it;
`PROJECT.json` quotes the lines.

| Run | Counterexample |
|---|---|
| `FlowStop` | `pipeline_stop` waits forever for a node in `pop`: the signal wakes it, the queue is empty, it waits again |
| `FlowFullSize` | a 1514-byte frame is 1518 bytes after tagging, and the sender skips it |
| `ConfigComment` | the rest of a comment longer than 99 characters is parsed as a rule |
| `DaemonStop` | a signal arrives inside `printL`: the handler waits for the mutex of its own thread, everybody who logs waits too, and the daemon does not end |

Further disagreements are in the models as the code has them, without a run of
their own; the properties that pass say what they leave out for them:

* `pipeline/pipeline.h:30` says that `pipeline_connect` creates a separate queue
  for each connection. It creates one for each target: the connections of both
  taggers to the counter share one (`ConnectNodes`). A node has one input, so
  with a queue for each connection all but the last would go unread; `OneReader`
  is what holds instead.
* `pipeline_patterns/patterns.c:45-51` does not look at what its connections
  return. After a failure `pipeline_build` succeeds, and `main` logs the complete
  pipeline (`main.c:138`) and starts an incomplete one. `BuiltAsPatterned` is about
  constructions without a failed call. `OneReader` holds after failures too, but
  says who reads a queue, not that the reader stays: a dispatcher without an
  output ends at once, and the sniffer fills a queue nobody empties.
* After a failed `pipeline_start`, `main` destroys queues under the threads that
  were started. `DestroyedOnlyWhenQuiet` does not speak of that, nor of a node for
  which a handler on a node's thread is waiting: `main`'s own join of it fails,
  and `main` goes on.
* `pipeline_destroy` frees a static object (`pipeline/pipeline.c:252`), so that
  the daemon ends by an abort; `FreedOnce` is about the nodes and their arrays,
  freed before that. Their contexts are never freed.
* VLAN ID 0 is allowed by `README.md:100` and accepted by the parser, but the
  tagger takes it for "no tag" and drops the frames; destination 0.0.0.0 meets
  the same fate as "no address". `CoveredNotFiltered` excepts the two.
* `tagger_node_edit_packet` writes a captured frame of more than 1518 bytes
  beyond the end of its 1522-byte buffer (`tagger_node.c:122`) before `push`
  refuses it. `FitsBuffer` excepts the tagger: no other node gets such a frame.

`StopEnds` is about the joins alone: it assumes that no handler has interrupted
`printL`. `StopAlwaysEnds` does not, and `DaemonStop` refutes it.

### Bounds, and why they are enough

* Queue: two slots make the ring wrap, be empty, full and in between; two
  threads on each side make threads compete on both. The proofs cover all other
  sizes, `Drained` excepted.
* Pipeline: two frames overfill a queue of 1, and can take the same lane or one
  lane each, as random dispatch chooses (`FlowDetailed` runs round-robin). The
  tolerated number of errors is 1 instead of 3: the counter's reset, its limit
  and the step beyond it all occur with two errors.
* Wiring: all runs of the pipeline use the two patterns.
  `Accounted` is checked on the VLAN pattern, where only dispatchers
  have a choice (`Linear`); the detailed one duplicates frames, and `SentOnce`
  takes its place. The detailed pipeline has no stop in its runs, which would
  take too many states; the proofs of `SentOnce` and `CopiesAgree` include stops
  at any time, also between two pushes of a frame.
* Frames: addresses on both ends of each range, next to them and in the gap;
  lengths 33 and 34 around the shortest IPv4 frame, 1513 just below the sender's
  limit, 1519 just beyond the room for a tag; a tagged, an IPv6 and an 802.3 frame.
* Config: three rules suffice for a pair that is not adjacent, four lines to go
  beyond the table. The rule lines have the longest legal length, 36.
* Daemon: one failing allocation after the nodes' creation leaves each single
  part of the wiring out; the limits of 32, 64 and 16 are the code's. Two
  signals are the fewest with which handlers can get in each other's way; all
  three registrations of the handler can fail.
* Log file: three calls are two that compete on the mutex and one more, in a
  handler or later on; one failure hits any call of the C library.
* IP modifier: frames of 22, 23 and 37 words are below, at and above the 46
  bytes the node asks for; fillers 0, 4660 and 65535 and the new address make
  sums without, with one and with two carries.

Deadlock is not checked where the system rightly comes to rest: the pipeline,
the log and the IP modifier after the last frame or call, the parser and the
daemon when they have ended. `Queue` checks it.

### Fairness

`PacketQueue` assumes weak fairness of each thread inside a call. The mutex is
not assumed to be fair, and no thread has to make a call. `PacketFlow` assumes
weak fairness of each node's own steps and of the main thread's starts and
joins: runnable threads are scheduled. Nothing obliges a frame to arrive, an
error to happen or a stop to be asked for; leaving a loop (`LeaveLoop`) is not
fair either, because the thread may already be blocked. `Daemon` assumes it of
`main` and the handlers only: a node may be blocked where it does not see
`should_exit` (`FlowStop`), and `StopEnds` makes an exception for that. `LogFile`
assumes it of the steps inside a call.

## Proofs

Each holds for every value of the constants that satisfies the named assumptions
of its module; where a theorem needs more, it says so below. What the
assumptions demand, beyond types:

* `QueueAssumption`: at least one slot, and no more than a `uint16_t` counts;
* `PatternAssumption`: a pattern creates at least one node and at most as many
  as the pipeline has room for, and its first calls add them, as both patterns do;
* `NodesAssumption`: a pattern's later calls add only nodes that it has created
  or dispatchers of their own, and no node twice;
* `DrawingAssumption`, for the wiring: a pattern's graph names the nodes in the
  order in which its steps add them and each node's targets in the order in
  which they are connected, and nothing besides;
* `FlowAssumption`: each queue has room, nodes are distinct, the rules are not
  empty and pass `validate_rules` (the daemon does not start with others),
  captured frames are at most as long as a packet of the queue;
* `WiringAssumption`, for `PacketFlow`: every way from a sniffer to a sender
  leads through exactly one tagger (`TaggedOnce`), and there is a path on which a
  frame has one way to go at each node that copies and any at a dispatcher
  (`MainPath`);
* `LaneAssumption`, for `OrderKept`: there is one sniffer, and from it to a
  sender a lane through each tagger. Up to the tagger each queue has one writer,
  and behind it a frame stays on the lane. Loggers and counters beside the path
  do not matter;
* `CountAssumption`, for `StatsAgree` and `CopiesAgree`: what the properties
  compare, each node has to itself. A dispatcher is the only one to push to its
  taggers and pushes to each once; so is a counter with one output to the only
  sender; and a node that copies frames to several ends is the only one to push
  to each, and a frame that has left it does not come back to it (`Cut`);
* `IpModifierAssumption`: a frame reaches up to its protocol field at least, and
  the buffer has room for it and for the longest header.

TLC evaluates all of them in the runs of the modules, with the patterns of
`patterns.c`.

*Queue.* `QueueInvariant`: `Spec => []QueueInv`. `RingWindow` is what makes the
queue right, but it is not inductive: `PushPublish` preserves it only if the
slot at `rear` is still free, and `Advance` only if the slot at `front` is still
occupied. These are facts a thread has tested some steps earlier
(`TestsStayTrue`). That they still hold needs the mutex to be held by the thread
(`MutexHeld`), and that the thread is at steps of the function it has called
(`StepOfCall`). `QueueInv` is the conjunction of the five, with types. Each
conjunct has its own lemma, by cases on the actions; `WindowPublish` and
`WindowAdvance` do the arithmetic of the wrapped window. `TypeCorrect`,
`RingWindowHolds` and `TestsStayTrueHolds` follow. `NoLostWakeupHolds` counts:
relative to `QueueInv` the bound itself is inductive, because each step moves at
most one thread in or out of the poppers or the signallers, and `Count` by the
same amount. `QueueIsBoundedFifo`: `Spec => FifoSpec`. The mapping takes the
window of occupied slots, from `front` on, for the abstract content;
`PushPublish` is `Put`, `Advance` is `Take` or `DropFront`, the steps that only
produce a result are the matching abstract outcomes and every other step
stutters.

*Rules and configuration.* `FirstMatchIsOnlyMatch`: in a table that passes
`validate_rules`, every rule that covers an address is the one
`tagger_node_get_tag` finds. `LoadInvariant` carries this to `tag_rules_load`
for any file: what is unread is well formed, so what is parsed is a rule; a
count is returned only for a validated table. `TableFits` and
`LoadedIsUnambiguousHolds` follow. `MeaningInvariant`: the table contains the
rules of the lines read so far, in order (`Follows`); a rule line is found by
its rank among the rule lines, so that no recursion over the file is needed.
`LoadsWhatIsWrittenHolds` and `GoodFileLoadsHolds` follow. The three have a
premise about the lines, `AllLegible`: `fgets` returns each in one piece, a rule
is at most 36 characters long and says what it means, and a line that is no rule,
comment or blank is no rule for the parser either. All lines of `ConfigLoad` are
legible; the long comment of `ConfigComment` is not.

*Pipeline: each node.* `FlowInvariant`, for any wiring: a node that is at its
blocking call has not been late, one that has been late has a frame in hand and
ends after it, and whoever has ended did so for a reason. `AtMostOneLateHolds`
and `EndedMeansStoppingHolds` follow; the latter assumes that every node is wired
and that no wait has failed, as a node ends by itself in both cases.

*Pipeline: each frame.* `FrameInvariant`: every frame in a buffer or queue up to
the tagger equals the captured one with its number; behind it, and on the wire,
it is that frame with the header of a rule that covers its address (`InHands`,
`InQueues`, `OnWire`). This needs that a node pushes only to its side of the
taggers, also in the middle of a series of pushes (`TodoOnSide`), and that its
`pc` says whether it holds a frame (`Phases`). `TypeOKHolds` follows: the size is
that of the captured frame, plus 4 behind the tagger, so a buffer is exceeded by
4 bytes at most, and no slot of a queue ever is, as `push` refuses what is too
long (`SlotsFit`). `FitsBufferHolds` follows for the other nodes' buffers, which
are filled from `recvfrom` and from queues only. `SentAsTheRuleSaysHolds` is read off `OnWire`. For
`CoveredNotFilteredHolds`, the lookup finds the rule of a covered frame with an
eligible size, by `FirstMatchIsOnlyMatch`; its tag and the address must not be 0,
which the property says.

*Pipeline: movement.* `PathInvariant`: on the path a captured frame is in exactly
one of its places, the buffers and queues of the path's nodes, what they let
go, and the wire (`InOnePlace`). It is inductive with three more facts: no
container has a frame twice, a series of pushes contains one to the path at
most, and a node beside the path pushes none to it. `SentOnceHolds` follows for
any wiring. For `AccountedHolds` the pipeline is `Linear`: all its nodes can be
taken for the path, and the four counts of `Places` are one and three zeros.

*Pipeline: order.* `OrderInvariant`: the buffers and queues of a lane, from the
sniffer to the wire, are stages, and a frame that is on a later stage than another
was captured earlier (`InLine`); within a queue and on the wire the earlier one
comes first (`QueueOrder`, `SentOrder`). Behind the tagger this holds of the
frames it has tagged only, since the other taggers' join them in the collector's
or the counter's queue; so the record of who tagged a frame must exist
(`Recorded`), and frames this tagger tagged must be on this lane (`OnLane`). A
step moves one frame to the next stage, or takes it off the lane.
`OrderKeptHolds` follows, given a lane for each tagger.

*Pipeline: counts.* `CountInvariant` is about sums of a node's statistic, what it
has in hand, what waits in its queue, what it has lost and tagged. A step moves
one frame and changes two of these numbers by the same amount, which is arithmetic
once it is known that the numbers change at all. The difficulty is that lost and
tagged frames are sets of numbers: a frame lost twice at one node would count
once. It is not, because frames go only forward: one that has left a part of the
pipeline to which nothing leads back (`Cut`) is in no buffer or queue of it again
(`PastKept`). For a tagger that part is what lies before it (`RawCut`); for an
end of the path `InOnePlace` suffices; for copies to an end beside the path it is
what `CountAssumption` asks for. `StatsAgreeHolds` and `CopiesAgreeHolds` follow.

*Construction: the graph.* `DrawnInvariant`: the construction is always at some
step of its pattern, the `k`-th of the `c`-th call (`AtPlace`), and unless a call
has failed the nodes and outputs are those that the steps before it drew
(`DrawnTo`). How many these are is a cardinality (`NodesBy`, `LinksBy`), and a
step adds one element to one of the sets. An output is a queue and the graph
names nodes, so `DrawnTo` says that the queue is the named node's input; inputs
never change once they are set. At the end, by `DrawingAssumption`, all that was
drawn is the whole graph; `BuiltAsPatternedHolds` follows.

*Construction and daemon.* `BuildInvariant`, for any patterns: the calls left
are well formed, each queue is the input of one node and each output one of the
queues. `pipeline_connect` preserves it because a new queue gets its reader in
the same call, and the only failure after that loses the output, not the
reader. Nothing in `Daemon` but the construction touches the wiring. Hence
`OneReaderHolds`.

`CleanInvariant`: what is allocated are the nodes created so far (`Allocated`),
and the pipeline lists them in the order of their creation, as far as their
calls have been made (`AddsInOrder`). When construction is over, whichever of its
steps have failed, what is listed is what is allocated, because adding a
pattern's nodes cannot fail: `PatternAssumption` says that they fit. That none is
listed twice needs to know where the construction is: each step before that place
has added its own node or none (`PlaceInv`), and by `NodesAssumption` no other
adds the same. `Progress` relates the two to the positions of `main`.
`FreedOnceHolds` follows. Contexts are in the invariant (those of all created
nodes, for ever) and not in the property.

`QuietInvariant`: once all threads were created, each node before the one at
`joining` has been joined or is waited for by a handler on a node's thread
(`Passed`). The handler's joins are the difficulty: a join of `main` may be
refused because a handler that has interrupted it is joining the same thread, but
only while that handler is active, and the handler goes on only when the thread
has ended (`Waits`). A handler on a node's thread is not above `main`, and `main`
goes on without it; hence the second case. `DestroyedOnlyWhenQuietHolds` follows.

*Log file.* `LogInvariant`: the holder of the mutex is the only call in the
critical section, and the end of the file is what it has written of its line; a
complete line stays where it is; the shared time was set by a call that had not
ended when the reader began. `DurableHolds` and `TimeFromOverlapHolds` follow.
`LogIsLineLog`: `Spec => LineLogSpec`. The abstract text is the file without the
pieces of a line in the making; the last piece is `PutLine`, a failing one after
the first is `Break`, returning is `Return`.

*IP modifier.* `ModifierInvariant`: the buffer keeps its length, so that the
rewriting stays inside it, and each frame that was sent differs from the one
taken in the words of the checksum and the address at most, and only if it is
untagged IPv4. The latter rests on the signed `type_field` (`ShortOf`): no word
reads as `0x8100`. `NothingElseChangesHolds` follows.

`ReaddressedValidlyHolds` is about headers of any length. Their sum and the
folding of its carries are recursive functions; that they exist, and what they
compute, is proved by induction on sets of numbers (`Induct`, `Least`), which
follows from the library's theorems on well-founded relations. Folding takes
multiples of 65535 from the sum (`CarriedIs`, `FoldedIs`), so the complement of
the result makes the sum a multiple of 65535 (`ChecksumIs`); the checksum's word
was zero in the header that was summed up, so writing it adds just that number
(`SumOfOneMore`); and the sum is not zero because the first word of a whole
header is not (`AddressIsNew`).

All invariants of the runs that pass are proved, and so are the two refinements.
Only model-checked is everything about liveness: `Drained`, `Delivered`,
`StopQuiesces`, `StopEnds`, `CallsReturn`. Liveness needs fairness and ENABLED,
which are out of the prover's reach.

## Not modelled

* `setup_packet_socket`: a sequence of system calls with nothing to interleave.
* The steps of `main` before the log is opened (`fork`, `setsid`, arguments):
  one thread, and no state the rest depends on.
* `log_packet_hex` and the text of log lines: formatting.
* `ip_modifier_node_create`'s parsing of its address, a call of `inet_aton`.
* What the up to four bytes overwrite that the tagger writes behind its buffer.
* The calls of `stop_log` and `exit` at the end of `main`, which are never reached
  (see *Daemon*); `stop_log` itself is in `LogFile`. The handler's run after a
  crash.
* The tests and scripts: not part of the program.

## Plan

Done: queue, rules, frames, running pipeline, config parser, construction,
daemon, log file, IP modifier, each with inductive invariants and proofs of
its safety properties; the refinements of the queue and the log.

Left: nothing that the tools reach. What liveness needs beyond model checking is
out of the prover's reach.
