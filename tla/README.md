# Formal verification of libbtrace

TLA+ models of libbtrace (a derivative of Babeltrace 2), the TLC runs which
check them on small instances, and the TLAPS proofs of what holds for every
instance.  Source paths are relative to the repository; `PROJECT.json` maps
every definition to the lines it models.

## The system

libbtrace processes traces with a *graph* of components.  Source components
create messages, filters transform them, sinks consume them.  A component is
user code (usually a plugin) behind an interface of methods; the library owns
the graph and the message iterators which pull messages through it.

```
          bt_graph_run()                    interrupters (any thread)
               |                                   |
  +------------v-----------------------------------v-----------+
  | graph (graph.c): components, ports, connections, queue of   |
  | sinks                                                       |
  +------------+------------------------------------------------+
               | consume
             sink --next/seek--> iterator --> filter --> iterator --> source
                                 (iterator.c) (muxer,    (iterator.c) (CTF files,
                                              trimmer)                 live, ...)
```

A call of `bt_graph_run()` makes the sinks consume in turn.  A sink calls
`bt_message_iterator_next()` on the iterator of its input port; this calls the
method of the component upstream, which does the same with its own upstream
iterators.  Everything runs in one thread but for two things: interrupters,
which any thread or signal handler may set, and the socket thread of the live
CTF source.  What makes the code hard is therefore less parallelism than
re-entrancy (user methods call the graph which called them), statuses which
arrive in the middle of an operation ("try again", errors), and seeks.

`PROJECT.json` lists all the components.  In short:

| Part | Source | Modelled |
|---|---|---|
| Graph, components, ports, connections, interrupters | `src/lib/graph/{graph,component,connection,port,interrupter}.c` | `Graph` |
| Message iterators, seeks | `src/lib/graph/iterator.c` | `MessageIterator` |
| Rules of message sequences and their checker | `src/lib/graph/iterator.c`, `include/babeltrace2/graph/message.h` | `MessageSequence` |
| Muxer filter, with the exceptions of the C++ bindings | `src/plugins/utils/muxer`, `src/cpp-common/bt2` | `Muxer`, `OrderedMerge` |
| Its heap, comparator and clock validator | `src/cpp-common/bt2c/prio-heap.hpp`, `src/plugins/common/muxing`, `src/clock-correlation-validator` | `PrioHeap`, `MessageComparator`, `ClockCorrelation`, `MuxerSelection` |
| Trimmer filter | `src/plugins/utils/trimmer` | `Trimmer` |
| CTF decoding: item sequences, then messages | `src/plugins/ctf/common/src/{item-seq,msg-iter.*}` | `ItemSequence`, `ItemSeqIter`, `CtfMsgIter` |
| Live CTF source | `src/plugins/ctf/live-src` | `LiveSource` |
| LTTng live source | `src/plugins/ctf/lttng-live` | `LttngLive` |
| CTF file source and sink | `src/plugins/ctf/{fs-src,fs-sink}` | no, see the end |
| Reference counts, object pools, fd cache, query executor | `src/lib`, `src/fd-cache` | no, see the end |
| Trace IR, values, metadata, plugins, CLI, bindings, text plugins, CTF writer | | no, see the end |

## Modules

| Module | Content |
|---|---|
| `Graph` | configuration, running and interruption of a graph |
| `MCGraph` | the ports of the chain instance |
| `GraphProofs` | the inductive invariant of `Graph` and its theorems |
| `GraphTurnProofs` | turns of the sinks, length of their queue, calls which abort (extends `GraphProofs`) |
| `MessageSequence` | messages, the rules of `message.h`, the checker's automaton |
| `MessageIterator` | one iterator between its user's methods and downstream (extends `MessageSequence`) |
| `MCIterator` | classes of streams for the instances |
| `IteratorLemmas` | what the checker, the fast-forward and the selection of events do with message sequences of any length |
| `IteratorSeeks` | what a seek of a time finds and replays (extends `IteratorLemmas`) |
| `IteratorSteps` | the inductive invariant of `MessageIterator`; upstream messages, batches, seeks of the beginning and failed calls preserve it (extends `IteratorSeeks`) |
| `IteratorProofs` | so do the seeks of a time and the fast-forward; the theorems (extends `IteratorSteps`) |
| `OrderedMerge` | what a muxer promises |
| `Muxer` | the muxer's iterator; refines `OrderedMerge` |
| `MuxerProofs` | the inductive invariant of `Muxer` and its theorems: its heap, what downstream gets, and that it implements `OrderedMerge` offline |
| `MessageComparator` | the order of messages which `Muxer` sees as a rank |
| `PrioHeap` | the array heap which `Muxer` sees as a bag (extends `MessageComparator`) |
| `ClockCorrelation` | which clock classes may follow which, of which `Muxer` sees one per iterator |
| `MuxerSelection` | the three together, as `_next()` uses them |
| `MCMuxerSelection` | messages and clock classes for its instance |
| `Trimmer` | the trimmer's iterator (extends `MessageSequence`) |
| `MCTrimmer` | bounds and clocks for its instance |
| `ItemSequence` | what the items of a data stream are: the reference which decodes the whole data at once |
| `ItemSeqIter` | the decoder, which gets its data in buffers (extends `ItemSequence`) |
| `CtfMsgIter` | the message iterator on top of it (extends `ItemSeqIter`) |
| `MCCtf` | metadata and data streams for the instance |
| `LiveSource` | the socket thread, the FIFOs and their readers |
| `LiveProofs` | the inductive invariant of `LiveSource` and its theorems |
| `LttngLive` | the message iterator of `src.ctf.lttng-live` and the relay daemon |
| `MCLttngLive` | the tracing sessions of the instance |

Operators named after another one with a suffix, preceded by a comment that
starts with "Mutant", are faulty variants of it.  Each property of a passing
run has one such variant under which TLC finds the property violated; the
pairs are in `PROJECT.json`.

### Graph

Almost every function of the graph calls user code, which may call the graph
again: the initialization method of a component adds ports, a "port added"
listener connects them or adds another component.  `stack` holds the graph
functions in progress.  A frame is pushed where the code enters user code and
popped when that code returns; it has the locals which are used after the
call, such as the value of `can_consume` to restore.  So each function is one
action up to its first user method and one more for each outcome of a method:
`AddComponent`, `AddComponentOk`, `AddComponentFailed`; `AddPort*`;
`ConnectPorts`, `UpstreamPortConnectedOk`, `DownstreamPortConnectedOk`,
`PortConnectedFailed`; `Call`, `ConfigureSinkOk`, `ConfigureSinkFailed`,
`ConfigureDone`, `ConsumeHead`, `ConsumeContinues`, `ConsumeEnded`,
`RunInterrupted`, `NothingToConsume`.  Preconditions of the interface are
guards: a program which breaks them is not modelled.

`sinks` is `sinks_to_consume`.  Its `length` field is the separate variable
`sinksLength`, because `consume_sink_node()` deletes a link which it has
already popped and so decrements it twice; it wraps modulo `GuintModulus`.
`since` is a history variable: who consumed since a sink's last turn.

### MessageSequence and MessageIterator

A trace is a sequence of messages which follows the rules of `message.h`; TLC
chooses it message by message as the iterator needs it (`ProduceMessage`,
`ProduceInactivity`, `Close`), so that a run covers all the legal traces up to
its bounds, in all the ways to cut them in batches.  `content` keeps the
trace, which is the same after a seek.

The iterator returns messages (`NextFromUser`, `NextEnds`), seeks the
beginning, and seeks a time, by itself (`SeekNsByItself`) or with the
library's automatic seek: `AutoSeek` seeks the beginning, each `FastForward`
handles one batch (`find_message_ge_ns_from_origin()` and
`auto_seek_handle_message()`), and `FinishSeek` replays the beginnings of the
streams and packets which are open, in any order of the hash table, then
installs `post_auto_seek_next()` (`swapped`).  Any user method may fail or ask
to try again.  `failed` records the assertion or developer mode postcondition
which aborts the program.

### Muxer, OrderedMerge and MuxerSelection

One step is one turn of the loop of `_ensureFullHeap()` (`FillReload`) or of
`_next()` (`MergeOldest` and the cases where it stops).  An upstream iterator
may give messages, end, ask to try again or fail at each `reload()`.
`Return` is the end of `bt2::UserMessageIterator::next()`, which turns an
exception into a success if there are messages, and saves errors (but not "try
again") for the next call.  `toReload` and `reloaded` are the members
`_mUpstreamMsgItersToReload` and `_mReloadedThisCycle`; `live` is the `live`
parameter, with which an empty heap starts a new cycle.  The contents and the
clock classes of the upstream iterators are chosen in the initial state.

`OrderedMerge` is the promise: deliver, one by one, a message which no other
iterator's next message goes before, and end when nothing is left.  The
refinement mapping is `merged <- delivered \o out`, and what is left of each
content.

`Muxer` sees its heap as a bag with any maximal element as its top.
`MuxerSelection` is the part of `_next()` below that: the array of
`bt2c::PrioHeap`, all the comparisons of `MessageComparator` and
`_HeapComparator` (with the conversion of a clock snapshot to a time), and the
expectations of the `ClockCorrelationValidator`.  `Fill` inserts an upstream
iterator, `Select` takes the top and puts its iterator back or removes it,
`Reject` is the exception of the validator, `SeekBeginning` clears the heap but
not the validator.  It shows that the top only depends on the messages in the
heap, so that the bag and the rank of `Muxer` are sound abstractions.

### Trimmer

The state functions of `trimmer_msg_iter_next()` are its steps: `SetBounds*`
looks for the date which completes bounds given as times of day, `Seek` makes
upstream seek, `Trim` handles one batch of upstream, `TrimQueue` and `Ending`
empty the queue.  Upstream makes up its messages as they are asked for, as in
`MessageIterator`, follows the same rules, and starts at the time sought.
`HandleMessage` and what it calls work on an accumulator, so that a batch whose
third message is past the end bound is one step: the messages before it, the
ends of all the open packets and streams in any order of the hash table, and
nothing of the rest.  A clock may be unable to tell the time of the end bound
(`clockOrigin`), so that ending a stream may fail after others were ended.

### ItemSequence, ItemSeqIter and CtfMsgIter

`ItemSequence` defines metadata (structures, arrays, optionals, variants,
fixed-length and variable-length integers, strings; with roles) and the items
of a data stream as a function of its bits.  `ItemSeqIter` is the code's state
machine: one handler runs at a time, and one which lacks data calls `Buf()`,
which answers with any buffer that is long enough, with the end, or with "try
again", which unwinds the call.  The states of the code, one for each
combination of length, alignment, byte order, role and saving, are grouped by
what their handlers do.  Lengths wrap like the unsigned numbers of the code.

`CtfMsgIter` turns items into messages: packets, events with the values of
their fields, discarded items from the counters, and the quirks (wrong
timestamps of some tracers).  It is checked against the reference too.

### LiveSource

Two threads, interleaved between any two accesses to shared state: the server
thread accepts a client, receives bytes and pushes each of them to each FIFO,
under the lock of the FIFO only; the graph's thread creates media, asks them
for bytes (two critical sections: `Drop`, then `Copy` or `NotEnough`), returns
messages or errors, and destroys the component, which shuts down, closes and
joins.  A byte is its position in what was sent.  `dangling` says that
`emplace_back()` moved `_mFifos` while the server's loop goes through it.

### LttngLive

`pos` says where a call of `lttng_live_msg_iter_next()` is in its loops over
sessions, traces and streams.  Each request to the relay daemon is a step,
since what the relay knows changes between two of them (`Tick`).  The relay is
external: it knows streams and metadata from some time on, packets once they
are complete, and answers with the flags and statuses which the client
handles.  The decoder is the script of messages which a stream becomes.
`fault` records an error for which the iterator stops, or an uncaught exception,
assertion or null object which ends the process: `EverythingIsSent` counts those
as an end, and asks for nothing more.  The build is one with the default minimal
log level: without `DEBUG` statements, a trace without metadata would make the
client ask for streams again (`metadata.cpp:70`) instead of reading a null
object.  `missed` records that a message was chosen without a stream or
without a session which exist.

## Runs

| Run | Question | Instance |
|---|---|---|
| `graph` | do all sinks consume, in turn, exclusively, once all are configured, until all end or an interruption; is "try again" returned; may a legal call abort; do connections stay sound, and the topology frozen, when methods and listeners re-enter the graph and fail | 3 sinks with 2 interrupters, or source, filter and sink with 4 ports |
| `graph_again` | violation, see below | 3 sinks |
| `iterator` | what downstream gets after seeks of all kinds, at any moment, with discarded events around the time sought; is the checker exact | 2 streams, 2 packets, 5 messages (4 with the second seek), 3 times, 2 seeks, one time which the user's method can seek |
| `muxer_offline` | does the muxer implement the ordered merge and deliver everything | 2 iterators of up to 2 messages |
| `muxer_failures` | "try again", errors, uncorrelated clocks, seeks which fail midway, with and without live mode | the same, 2 "try again", 1 error, 1 seek |
| `muxer_again` | violation, see below | 2 iterators |
| `muxer_selection` | does the message selected depend on the messages only; are the clocks let through comparable, whoever comes first | any 3 messages of 6 families, and 4 messages up to 7 times |
| `trimmer` | is what goes out legal, exact, within the bounds, and every stream ended | 2 streams, 3 messages and the ends of what they open, 3 times, all kinds of bounds |
| `ctf_decoder` | are items and messages those of the whole data, for every way to cut it | 49 data streams, any buffers, a "try again" at any request |
| `live_source` | do FIFOs and buffers have the bytes sent; does the destructor return and leak nothing | 2 iterators, 2 bytes, requests of 2 bytes, socket failures |
| `live_errors` | violation, see below | 1 iterator, 2 bytes |
| `lttng_live` | do times never decrease; are streams whole, packets decoded with their metadata; does all end | 2 sessions, 3 traces, 4 streams, time up to 4, 1 refused packet, all faults |

`TypeOK` of `Graph`, of `MessageIterator` and of `Muxer` are proved below; those
of the other modules say what the variables hold and are not in a run.  `HeapIsSound` and
`NoAssertionFails` of `Muxer` are proved, and not in a run either.

Why the bounds are enough:

- With three sinks the queue has a head, a middle and a tail, and two of them
  may end before the last one, which is the least for its length to wrap
  around (`GuintModulus` is 8 in place of 2^32; any value above the number of
  sinks behaves the same).  One interrupter is the default one, the other is
  added.
- The nesting of graph functions is bounded by the number of components and
  ports, as each of them is added once.
- A trace of five messages has a stream with two packets, or a packet with
  two events, one on each side of the time sought; three times make a before,
  an at and an after.  `BatchSize` 2 puts the message at the time sought first or
  last in its batch.  Two seeks make a seek follow another one.
- Two upstream iterators with two messages each meet all the orders of two
  heads, ties included; `Capacity` 2 makes a call stop because its array is
  full; `UpBatch` 2 makes an iterator have or not have messages left after
  `discard()`.
- Seven elements make a heap of three levels, with parents of no, one and two
  children.  An order which is not transitive, or a choice which depends on
  who came first, shows with three messages; each family has a message per
  thing compared, so that any two of these meet in some heap.
- The trimmer's bounds are absent, a time, or a time of day whose date is that
  of the first or of the second day (`DayLength` 2, times up to 2).  Three
  messages open a stream and a packet and go past the bound, or open both
  streams; the ends which follow are not counted.  The output queue gets up to
  four messages at once with a `Capacity` of one, so that calls find messages of
  earlier batches in it.  The five setups have each kind of beginning and of end
  bound, with clocks which tell all times and with a stream without a clock next
  to one whose clock starts late.
- The data streams of `ctf_decoder` are chosen: each kind of field, scope and
  role, empty and padded packets, clocks which wrap (`WordBits` is 15 in place
  of 64), wrong lengths, other data streams, each quirk.
- Two bytes and two iterators are enough for a byte to arrive before, during
  and after the creation of a medium, and between the two critical sections of
  a request.
- The clock classes of `muxer_selection` meet each expectation of the
  validator, with clocks of the same and of other identities and origins.
- The sessions of `lttng_live` have a trace whose metadata comes after its
  stream, a stream announced while a round is under way, a session which has
  nothing at first, an idle stream, and both kinds of discarded items.

`CHECK_DEADLOCK FALSE` is in the runs of the iterator, the muxer and the
trimmer: a trace, or the bounds on retries, end.  The sources and the decoder
have a step for where the program really stops (`Terminated`, `Finished`).  A graph can always be interrupted, so
its runs check deadlocks.  So does the run of `LttngLive`, which shows with it
that a stream never needs another update of its metadata right after one
(`NeedsUpdate`): no action goes on from such a state.

### Fairness

`Graph!FairSpec` has weak fairness of `RunStep`: `bt_graph_run()` goes on, and
the methods of the sinks return.  Nothing obliges the user to call a function
nor a thread to set an interrupter.  `Muxer!FairSpec` has weak fairness of the
steps of a call and of the call itself: its liveness property is about a
downstream user which calls `next()` until the end, as the sinks do.
`EverythingIsDelivered` is checked with upstream iterators which always
answer.  `CtfMsgIter` assumes that the caller calls again and that the medium
ends up answering.  `LiveSource` schedules both threads, lets clients be silent
for ever, and makes `accept()` and `recv()` return once their descriptor is
shut down or closed, as POSIX says.  Nothing obliges the graph to call an
iterator, nor to destroy the component.
`LttngLive` assumes that the graph calls again, that the relay answers, and
that time passes.

## Proofs

`GraphProofs` and `GraphTurnProofs` prove, for any sets of components, ports and
interrupters which satisfy the assumptions of `Graph`:

| Theorem | Statement |
|---|---|
| `GraphInvariance` | `Spec => []GraphInv` |
| `TypeCorrect` | `Spec => []TypeOK` |
| `SinksKept` | `Spec => []NoSinkLost` |
| `EndIsEnd` | `Spec => []EndMeansAllSinksEnded` |
| `ConsumptionIsExclusive` | `Spec => []ExclusiveConsumption` |
| `ConsumesConfigured` | `Spec => []ConsumeOnlyConfigured` |
| `TopologyIsFrozen` | `Spec => TopologyFrozen` |
| `ConnectionsAreSound` | `Spec => []ConnectionsSound` |
| `LegalRunsGoOn` | `Spec => []LegalRunNeverAborts` |
| `SinksTakeTurns` | `Spec => RoundRobin` |
| `AgainReturnsAlone` | `ASSUME SinksFit PROVE Spec => SingleSinkAgainReturns` |

None of the invariants is inductive by itself.  That no sink is lost when one
returns from its consuming method, for instance, needs that its frame is alone
on the stack and that its component is in the graph once.  `GraphInv` adds:

- `CallsOK`: a run function is alone on the stack, and the frames agree with
  the configuration state;
- `SavedOK`: only the outermost configuration function may have found
  `can_consume` set, so that those nested in it leave it false;
- `ComponentsOK`: components are in the graph once, ended sinks are
  initialized ones, and a component being added is in the graph but not
  initialized, and is being added once;
- `ReturnOK`: only a graph that was run has a status to report, and has none
  while it runs;
- `ConfiguredOK`: no sink of a configured graph is left to configure, also
  when the configuration took several calls.

The proof has a lemma per action; each shows the conjuncts that the action can
disturb.  `TopologyFrozen` is an action property which follows from `CallsOK`:
no configuration function is in progress once the graph was run.

`ConnectionsSound` is inductive together with `GraphInv`: a connection is only
added between two ports which are free, and ports are only removed with a
component whose failure makes the graph faulty.

`TurnInv` adds three things for the last three theorems:

- `TurnsOK`: each sink of the queue consumed after the last turn of those ahead
  of it, and the consuming one after all of them;
- `ReadyOK`: outside of any call `can_consume` is set, unless
  `bt_graph_run_once()` failed to configure the graph;
- `LengthOK`: the length of the queue is that of the list minus the number of
  ended sinks (modulo the width of a `guint`), for none and one of them.

`LengthOK` needs `SinksFit`: no array of distinct sinks is as long as a `guint`
can count.  It is a hypothesis of `AgainReturnsAlone` alone: the other theorems
hold for any number of sinks.

`MuxerProofs` proves, for any number of ports, contents, batch sizes,
capacities, modes, and numbers of retries, errors and seeks:

| Theorem | Statement |
|---|---|
| `HeapSoundness` | `Spec => []HeapIsSound` |
| `AssertionsHold` | `Spec => []NoAssertionFails` |

The inductive invariant `MuxerInv` adds where each upstream iterator is while
none failed (`InPlace`): its discard is pending exactly while it holds a
message, it is in the heap once exactly then, and only after the current cycle
has reloaded it, so that no cycle inserts it again.  A call in progress is one
of an active iterator.

It proves next, with lemmas on what the steps do with messages:

| Theorem | Statement |
|---|---|
| `DeliveryIsExact` | `Spec => []NothingLostOrRepeated` |
| `DeliveryIsOrdered` | `Spec => []DeliversInTimeOrder` |
| `OfflineRefinement` | `Offline => (Spec => ImplementsMerge)` |

`DeliveryInv` adds to `MuxerInv` that what the muxer holds of an iterator are
the last messages which this one returned (`Held`), and, out of live mode, that
nothing which is left of an iterator of the heap goes before a message which
downstream has (`OrderOK`).  "Downstream has the first n messages of an
iterator" is stated with the places they have in the output (`HasFirst`),
which grow with the messages; so no induction over the output is needed.

`Offline` says that the muxer isn't in live mode, and that its upstream
iterators neither fail nor ask to try again, and that downstream doesn't seek
(`muxer_again` shows why "try again" is excluded).  `OfflineInv` adds that an
iterator which was reloaded and of which nothing is held has ended.  The
initial states map to those of `OrderedMerge` (`RefinesInit`), a turn of
`_next()` is a delivery (`RefinesDeliver`: the top of the heap is not later
than the head of any other iterator, and what follows a head is not earlier
than it), an empty heap is the end (`RefinesEnd`), and every other step changes
nothing (`RefinesNext`).

`LiveProofs` proves, for any number of message iterators, any amount of data
and any requests:

| Theorem | Statement |
|---|---|
| `FifosGetEverything` | `Spec => []FifosAreComplete` |
| `BuffersGetTheirBytes` | `Spec => []BuffersAreExact` |

`LiveInv` relates the offset of a FIFO, what it holds, and what the server
thread still has to push to it in its current turn to what was received
(`QueueOK`), the offset to the last request (`AskedOK`), and says that a buffer
has what its request asked for (`BufOK`).  The thread and the callers
interleave, so that these hold between any two of their steps.

`IteratorProofs` proves, for any streams, classes of streams, traces, batch
sizes, times, and numbers of packets and seeks:

| Theorem | Statement |
|---|---|
| `IteratorTypes` | `Spec => []TypeOK` |
| `ChecksHold` | `Spec => []NoCheckFails` |
| `BeginningComesFirst` | `Spec => []BeginningIsFirst` |
| `SeekReachesItsTime` | `Spec => []SeekIsExact` |
| `CheckerFollowsTheRules` | `Spec => []CheckerIsExact` |

A seek is a promise about messages which downstream has not asked for yet, so
none of these is inductive.  `IterInv` (`IteratorSteps`) speaks of what downstream got, of `Rest`
(what it will get: the queue of an automatic seek, what the user's iterator
replays, then the trace from `pos` on), and of what the checker would say of
`Rest`:

- `TraceInv`: the checker accepts the trace as it is so far, and is then, for
  each stream, in the state which the phase of the stream stands for;
- `BusyInv`: during a fast-forward the checker has seen the trace up to `pos`,
  none of which has a clock snapshot at or after the time sought, the queued
  messages are discarded items of the trace which last until that time, and the
  state of a stream in `auto_seek_handle_message()` agrees with the checker's
  (`AllTracked`);
- `BeginningInv`: after a seek of the beginning, what downstream got and `Rest`
  make up the trace, and the checker would accept `Rest`;
- `SeekInv`: after a seek of a time, what downstream got and `Rest` have the
  events of the trace from that time on and nothing earlier, and the checker
  would accept `Rest`, unless discarded items last.  This is where the replay
  has to be right: the checker starts with no expectation, gets the beginnings
  of the open streams and packets in any order, and must then accept the trace
  from the middle on (`ReplayChecked`, `Resume`);
- `QueueInv`, `SettledInv` and `Types`.

`IterNext` has one step per action, with a lemma each (in `IteratorSteps`, or in
`IteratorProofs` for the seeks of a time).  The sequences have any
length, so that the lemmas on `CheckFrom`, `HandleFrom`, `Replay` and `Events`,
which are recursive functions, need induction.  The operator form of induction
is out of the provers' reach; `Least`, which says that a set of numbers has a
least element, is not, and gives induction over a *set* of sequences
(`AppendInduction`): each inductive lemma defines the set of the sequences for
which it holds.

`CheckerIsExact`, like the other three, does not speak of what follows a seek
which found messages of an automatic seek waiting (`undrained`): downstream
gets messages left from another place of the trace then.

Only model-checked:

- the liveness properties, since fairness and ENABLED are beyond the prover;
- `MuxerSelection`, `ItemSeqIter` and `CtfMsgIter`: `PrioHeap`, `ItemSequence`
  and the modules on top of them use recursive operators, with which the prover
  loses its SMT backend;
- `Trimmer` and `LttngLive`, whose invariants need what `IteratorLemmas` shows
  of message sequences for their own accumulators and scripts.

## Disagreements found while modelling

Three runs have a counterexample each:

- `muxer_again` (`muxer/msg-iter.cpp:178`): an upstream iterator which asks to
  try again in `_ensureFullHeap()` is not reloaded by the next call, since it
  stays in `_mReloadedThisCycle`; downstream gets the end although that
  iterator has messages.
- `graph_again` (`graph.c:500`): the link of a sink which ends is counted twice,
  so that the length of the queue wraps around once two have ended, and
  `bt_graph_run()` goes on calling the last sink instead of returning "try
  again".  `SingleSinkAgainReturns` says that it returns with at most one ended.
- `live_errors` (`live-src.cpp:251`): an error which comes after messages is
  saved for the next call, and nothing reads it; the next call goes on decoding.

The properties of the passing runs exclude these cases, each by a condition
(dropping it gives the counterexample).  `Straddling` is broader than its case:
it excludes any trace with discarded items which last, whatever the time sought
and also if their stream goes on.

| Where | What | Condition |
|---|---|---|
| `graph.c:666` | after `bt_graph_run_once()` failed to configure, a legal `bt_graph_run()` aborts | the state in `LegalRunNeverAborts` |
| `iterator.c:1863` | a discarded events message astride the time sought is queued although its stream ends before that time | `Straddling` in `NoCheckFails` |
| `iterator.c:2320` | a second automatic seek fails an assertion if replayed messages wait | `undrained` in `NoCheckFails` |
| `iterator.c:1622` | a seek of the beginning does not drop the replayed messages | `undrained` in `BeginningIsFirst` |
| `component-class-dev.hpp:552` | asking whether an iterator can seek forgets the saved error | `errors = 0` in `NoAssertionFails` of `Muxer` (not in a run) |
| `muxing.cpp:451` | the count of a discarded packets message is compared with itself, so that two of them which only differ by it tie, and the heap's history decides | the count in `Seen` of `MuxerSelection` |
| `lttng-live.cpp:1300` | "iterate over all the streams": streams found late in a round are not asked, so that a message may be late | `missed` in `LateIfMissed` |
| `trimmer.c:1519` | discarded items past the end bound mark their stream as active | the last line of `WasActive` |
| `trimmer.c:1746` | inactivity messages are compared with the time of an infinite end bound | `CutByInactivity` in `OutputIsLegal` |
| `trimmer.c:974` | an assertion fails if the seek of upstream asked to try again | `agains` in `NoAssertionFails` of `Trimmer` |
| `ctf/common/src/msg-iter.cpp:231` | the end of a packet of another data stream class is left out, so that its packet is still the current one when the next packet begins, which a debug assertion excludes | `shouldWork` in `OnPktBegin` (`NoAssertionFails` of `CtfMsgIter`) |
| `metadata.cpp:66` | the logger of the metadata is read before the test whether there is any | `MetadataIsMissing`, after which `EverythingIsSent` asks for nothing |
| `item-seq-iter.cpp:249` | a "try again" in the padding of a packet loses the end of its content | `lost` in `ItemSeqIter` |

Others can be reproduced by adding a property to a configuration:

| Where | What | How |
|---|---|---|
| `graph.c:726` | `bt_graph_run()` does not return on "try again" with several sinks, contrary to `graph.h:1302` | `AgainReturns` in `Graph.cfg` |
| `graph.c:1069` | a component connected within its failing initialization leaves a connection to its ports, contrary to `connection.h:25` | `ConnectedPortsExist` in `Graph.cfg` |
| `muxer/msg-iter.cpp:236` | after a seek of the beginning no upstream iterator is reloaded | `EndsWhenExhausted` in `MuxerFailures.cfg`, with no "try again" and no error |
| `muxer/msg-iter.cpp:90` | the end is returned while messages were just reloaded, in live mode | `EndsWhenExhausted` in `MuxerAgain.cfg` with `Modes = {TRUE}` and `MaxAgains = 2` |
| `muxer/msg-iter.cpp:76` | ended upstream iterators are reloaded in live mode | `EndedIsNotReloaded` in the same |
| `lttng-live.cpp:1300` | as above | `AllStreamsAreAsked` in `LttngLive.cfg` |
| `item-seq-iter.hpp:3650` | the length of a variable-length timestamp is read after its reset, so that the clock keeps the bits of its previous value | `VarLenTimestampsAreWhole` in `Ctf.cfg`, with `Traces <- MCVarTraces` |
| `socket.cpp:98` | while the destructor runs, the server thread may end the process instead of returning | `ReturnsToDestructor` in `Live.cfg`, with `Failures = FALSE` |

Read in the code and not checked: `_mFifos` is read by the server thread
without its lock; a reset connection or a failing `accept()` ends the process,
since the exception leaves the thread; `put_handle()` of the fd cache closes a
descriptor which the removal from the table closes again; a packet without end
timestamp has an empty optional dereferenced (`ctf/common/src/msg-iter.cpp`);
the interrupted status of a metadata request aborts (`metadata.cpp:134`).

## What would come next

1. `ObjectRef`: reference counts with parents, object pools, the finalization
   of iterators and the destruction of a graph; then the fd cache.
2. The CTF file source and sink, the query executor, the freezing of trace IR
   objects.
3. Proofs of the invariants of `Trimmer` (on top of `IteratorLemmas`) and `LttngLive`.

## Not modelled, and why

- Trace IR, values, range sets, field paths: data structures whose operations
  are single assignments or searches in trees.  Only the properties of stream
  classes which decide on messages are in the models.
- Metadata parsers and generators, text source and sinks, argument parsing:
  conversions of text without a state machine.
- In the modelled parts: weak memory ordering, `_mClientFd` closed twice, the
  splitting of large data requests, errors while a session is attached,
  content lengths shorter than what was read, classes without data streams or
  event record classes, arrays and variants of integers with roles; in the
  muxer, a clock snapshot whose time overflows, for which `reload()` throws after
  it has got a batch (`upstream-msg-iter.cpp:114`).
- Plugin loading, automatic discovery, DWARF lookups, file reading: I/O.
- Memory errors in the middle of a function are modelled where the code
  recovers from them (`AddComponentMemoryError`, `ConnectPortsMemoryError`).
- Logging, error causes, Python and C++ wrappers without state.
