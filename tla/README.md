# Verification of the clusterer

The repository clusters the hits of a Timepix3 pixel detector, online or from a
file: hits that touch in space and are close in time are signatures of one
particle. Work is spread over threads by cutting the stream of hits into slices
of time. This directory holds TLA+ models of its algorithms and of the dataflow
they run in, the TLC configurations that check them on small instances, and
proofs, checked by TLAPS, that some of their properties hold for every instance.

All paths below are relative to `src/include/` unless they start with `src/`.

## The system

`model_runner` turns an architecture string into a graph of nodes by
`model_factory`; `dataflow_controller` gives each node a thread, and `wait_all`
joins them. Nodes are joined by pipes. The default graph, and its simpler
variant, for n lanes:

    reader -> adapter_i (sorts) -> clusterer_i -> merger -> printer             (simple)
    reader -> adapter_i (sorts) -> clusterer_i -> merger_j -> combiner -> printer   (linear)

| Component | State | Operations | Talks to |
|---|---|---|---|
| pipes, readers, writers (`data_flow/pipe*.h`, `multi_*`) | a block being filled, a concurrent queue of blocks, the block being read, an atomic byte count | write, flush, close, read, peek, blocking enqueue and dequeue | two threads per pipe, by polling |
| the queue in a pipe (`src/moodycamel/concurrentqueue.h`) | indexes and claims, a block index, a pool and a free list of blocks | enqueue, try_dequeue | the threads of a pipe, without a lock |
| descriptors (`data_flow/pipe_descriptor.h`) | none | pipe index of an item, border test of a cluster | writers, mergers |
| controller (`data_flow/dataflow_controller.h`) | threads, `is_done_`, samples | start_all, wait_all, memory control | all nodes |
| hit_sorter, burda_to_mm_hit_adapter | min-heap on toa | push, periodic drain, flush | in and out pipe |
| pixel_list_clusterer | list of open clusters, a list of iterators per tile | add, merge, write old, write rest | in and out pipes |
| cluster_merging | deque of waiting clusters, distance to the last border cluster | process border or inner cluster, write old, write rest | pipes of all lanes |
| cluster_sorting_combiner | none but its readers | read earliest, write | pipes of all mergers |
| temporal_clusterer, cluster_splitter | one open cluster; matrix of times | two-step clustering | in and out pipe |
| trigger_clusterer, halo clusterers, filtering_clusterer, parallel_clusterer | as the clusterer, and filters | variants of clustering | in and out pipe |
| data_reader, repeating_data_reader | stream, buffer, `paused_` | read, memory check, repetition | file, controller |
| online readers, Katherine protocol (`comm.h`) | sockets, time offset, end flag | commands, datagrams, end of acquisition | detector, by UDP |
| trigger_node, window_feature_computer, window state | the current window, a buffer of hits | add, close, move a window, trigger | in and out pipe |
| clustering_validator | two deques of clusters | match | two pipes |
| data_printer, mm_write_stream | buffers of two files, offsets | append, flush | files |
| calibration, data types, utils | tables | conversion | - |
| model_factory, model_runner, arg_parser, benchmarks, experiments | - | set-up and measurement, single threaded | - |

What is hard in it:

* threads that share no lock: every pipe is a lock-free queue, polled, whose
  stream ends by an end token; one missing flush blocks the whole graph;
* inside that queue, blocks and index entries that are used again while another
  thread is on its way to them;
* the detector's data come by UDP: a datagram lost, late or dropped falsifies
  times, or keeps the reader waiting;
* order: the clusterer, the merger and the combiner are all correct only on
  time ordered input, and each of them has to produce time ordered output;
* the clusterer's linked structure: iterators into lists, kept in vectors that
  must stay parallel, redirected when clusters merge;
* the cut into slices: a particle that crosses the end of a slice comes out of
  two lanes in parts and has to be put together again;
* the end of the stream: everything held back anywhere must come out.

`PROJECT.json` lists the hazards one by one, each at its line of code, with the
properties that would catch it, or the reason why none does yet.

The factory has the window, trigger, validator, filtering and halo nodes commented
out (`execution/model_factory.h:205-250`): they are in the repository, but no graph
contains them at present.

## What makes each component correct

* **Pipes and combiner**: what goes in comes out once and in time order, the end
  token last; no reader waits for ever; the byte count never underflows.
* **Sorters**: a stream whose disorder is bounded leaves in order, complete.
* **Clusterer**: a hit joins all and only the open clusters it touches; no cluster
  is written while a later hit could join it; clusters leave ordered by first toa.
* **Merger**: no hit lost or doubled; only what belongs together is merged; a
  particle cut at the end of a slice is put together; the output is ordered.
* **Two-step clustering**: a group ends at a gap in time; a large one is cut into
  exactly its connected parts; no hit is lost, the matrix keeps nothing of a group.
* **Controller**: a run ends; nodes are freed after all threads; memory is bounded.
* **Windows and trigger**: every hit is counted in the window of its time; no
  window is left out; hits around a trigger are written once, in order.
* **Queue**: to its users a FIFO; no thread touches a block that was released.
* **Readout**: no acquisition starts unconfigured; a wrong time of a hit has a lost
  datagram as its cause, and a missing hit too; the reader ends unless the end is lost.
* **Files**: the index points at the pixels; what was printed is read back.

## Modules

| Module | What it is |
|---|---|
| `OrderedStream` | abstract: what any node promises that puts a stream in order |
| `HitSorter` | the two sorting nodes; implements `OrderedStream` |
| `ParallelDataflow` | threads, pipes, split and combination; implements `OrderedStream` |
| `FifoQueue` | abstract: the queue `ParallelDataflow` takes a pipe for |
| `MoodycamelQueue` | the lock-free queue in a pipe; implements `FifoQueue` |
| `KatherineReadout` | online readers, their protocol, network and detector |
| `ClusterFiles` | printer and the files, and the reader of them |
| `Clustering` | sensor, tiles, adjacency and the clustering rule |
| `OnlineClustering` | abstract: the clustering rule as a state machine over sets of hits |
| `PixelListClusterer` | the clusterer with its lists; implements `OnlineClustering` |
| `BorderMerging` | the merger's computations: boxes, the merging test, the deque |
| `ClusterMerger` | the mergers behind the lanes, in both architectures |
| `TwoStepClustering` | temporal clusterer and cluster splitter |
| `WindowTrigger` | window feature computer and trigger node |
| `DataflowControl` | the controller's start, memory check and end of a run |
| `HitSorterProofs`, `ParallelDataflowProofs`, `PixelListClustererProofs`, `ClusterMergerProofs`, `TwoStepClusteringProofs`, `WindowTriggerProofs`, `KatherineReadoutProofs`, `MoodycamelQueueProofs` | proofs about the module they extend; in their last parts, `ParallelDataflowProofs` about `DataflowControl` and `TwoStepClusteringProofs` about `ClusterFiles`, too, of which they have an instance (`Control`, `Disk`) |
| `MC*` | instances for TLC |

**HitSorter.** `hit_sorter::start` and the sorting half of
`burda_to_mm_hit_adapter` are the same loop with small differences (the check
counts the current hit or not; the final flush is inline or a function), so one
module models both and `node` picks one in `Init`. `ReadHit` is one turn of the
read loop up to the decision to drain; `DrainHit`/`DrainStop` are the turns of
the drain loop, `FlushHit` and `Close` the end. The heap is a set, because
`std::priority_queue` does not say which of two equal elements is on top. Times
are whole fast clock ticks, as in the detector, so nothing is rounded. The
environment (`WithinDisorder`) is the documented assumption on the data stream:
a hit is late by `DEQUEUE_TIME` at most.

**ParallelDataflow.** Source, one worker per lane, combiner: every graph the
factory builds consists of these three kinds of node. A thread's pipe operations
are broken up at each access to shared state: `write` fills the writer's private
block; when it is full, or at `close`, `Account` adds to `bytes_used_` and
`Enqueue` publishes the block; a reader's `Dequeue` takes a block and `Settle`
subtracts. `agenda` is the rest of the call a producer's thread is in. The
concurrent queue is a FIFO, which the next module justifies.
Reading an empty block in `peek` is undefined in the code; here it leads to the
state "undefined", which `PeekDefined` excludes. A worker passes items on
unchanged: what workers compute is in the other modules. The sum over the blocks of
a queue is a recursive function (`SumOf`), about which the prover can reason.

**FifoQueue, MoodycamelQueue.** Each pipe has one thread that enqueues and so one
implicit producer in its queue. `AddProducer` to `Publish` are `enqueue`, `SizeTail`
to `FreeBlock` a `try_dequeue`, each action one access to shared memory; the reader
polls, so a failed attempt starts again. Index entries have a number, and a ring
(`headers`) maps positions to numbers, as the code's rings share entries by
pointer. `Wrap` is the width of the indexes, of which `HalfRange` is half: counts of claims do
wrap in the run.
The queue is written for many readers, though a pipe has one; the model has a set,
which is where the claims matter. `contents` of the refinement are the elements between the two
indexes, `held` is what a reader that took an index has yet to be handed. Assumed:
memory is sequentially consistent; allocation succeeds; the free list, a stack
by compare and swap, is one atomic set. No liveness of single readers is
stated, because there is none: a reader that loaded `dequeueOvercommit` long ago can
invalidate another's claim, and two may do that to each other for ever. With the one
reader of a pipe there is no such pair.

**KatherineReadout.** `node` picks `online_sync_data_reader`, which the factory
uses, or `online_data_reader`. `SendCommand` and `GetReply` are a turn of
`sync_start_acq`; the asynchronous reader sends all at once. `ReceiveDatagram` is one datagram
parsed frame by frame (`ParseFrame`), with `process_packet`. The detector and the network are external:
hits come in time order with an offset frame at each new unit of time, and an
acquisition ends with the number of hits, and that of lost pixels before or behind it if any. The
network loses a datagram, delays one behind the next (`Overtake`), or the socket's buffer is
full (`Arrive`). The 32 bit product in `comm.h:65` is kept (`TimeOf`) but cannot
wrap: an acquisition lasts 10 s by a constant, and the range is 107 s (`ReadoutAssumption`).
The memory check of `process_packet` is in `DataflowControl`.

**ClusterFiles.** `PrintCluster` is a turn of `data_printer::start`, with the whole
`operator<<` of `mm_write_stream`; `Close` is the end token; `ReadCluster` and `ReadEnd` are
`mm_read_stream`'s `operator>>`, called by `data_reader` in a later run. A
`stringstream` has its text and the position it was read to, a file its failbit,
because both decide what a flush does and what `tellp` says. Text is abstracted to lines
with a length, numbers to what is read back of them (`AsRead`): `double_to_str`
writes a value below 0.1 without its point. Times are multiples of a tick of the detector's
clock (`burda_hit::toa`), and what is assumed is that a tick, 1.5625 ns at six digits,
gets its point (`FilesAssumption`); that every time does is a consequence (`ReadAsWritten` in
the proofs). Energies, which are printed with two digits and can be below 0.1, are not
modelled. On Windows a line end has one byte more
in the file than in the buffer; that is not modelled.

**PixelListClusterer.** `nodes[t]` is the iterator list of tile t, `owner` what a
list node points to, `unfinished` the list of open clusters; a cluster keeps its
hits and the parallel vector of iterators. A hit adds exactly one list node, so
the node is named by the hit. `selected` is local to a search and undone at its
end. Old clusters are written one at a time (`WriteOld`), as in the loop of
`write_old_clusters`. `Clustering!Joins` is the rule the search decides by, and
`OnlineClustering` the specification with nothing but sets of hits in it. The
search, the merging of all clusters found, and the removal from a list are loops in
the code and recursive functions here (`Neighboring`, `Merged`, `Without`).

**ClusterMerger, BorderMerging.** `Init` picks a stream of hits and one of the
architectures `add_merge_arch` builds: one merger behind all lanes (simple), or a
merger per lane (linear, the default), to which a lane and the one before it send
the clusters that begin in the first or the second half of a slice (`SendsTo`).
`Delivered` computes from the stream, by the clustering rule, what the clusterers
of all lanes make of it. `BorderMerging` holds what is computed on the deque. Each `Read` takes
the earliest head, as `multi_pipe_reader` does, and is followed in the same step
by the whole of `process_cluster`: insertion or merge, and `write_old_clusters`.
`borderingOffset` and the `offset` of the entries are the code's distances
between border clusters. Loops over a list are recursive functions (`Kept`, of what stays
of it; `Chain`, the places visited; `MergedEntry`, the merging of all found), about which
the prover can reason. That the toas of a stream are in order and its pixels on the sensor
(`MergerAssumption`) is what the sorters and the detector see to.

**TwoStepClustering.** `temporal_clusterer` and `cluster_splitter` read a stream
alike, so one module models both and `node` picks one in `Init`. `JoinGroup` and
`StartGroup` are the read loop. The temporal clusterer writes a group there; the
splitter goes on with `process_cluster`: `WriteCompact`, or `StoreToMatrix`, then
for each label `StartLabel` and the turns `Tag` of `dfs_tag`, then `Split`. The
stack of open nodes is a set, since all orders reach the same hits. `Area` keeps the
unsigned wrap-around: the splitter processes an empty group before its first one,
and only a product of two negative extents, taken as a huge area, keeps it from
being written as an end token (`NoEndTokenInside`). Both nodes take `lastToa = 0`
for "no hit yet", so the properties speak of hits after time 0. That a pixel is hit at
most `MaxSamePixel` times in a group is an assumption on the detector. `split_cluster` deals
the hits to their components in the order they have in the group: `Parts`, whose
k-th hit is that with k - 1 others of the component before it (`Nth`).

**DataflowControl.** The main thread (`start_all`, `wait_all`, `run`), the source
with its memory check, a consumer per lane and the monitor. A pipe is a number of
hits here; how it works is in `ParallelDataflow`. `get_used_memory` returns 1
before it adds up anything (`UsedMemory == 1`), as in the code. `is_done_` is a
plain bool; the monitor sleeps in a system call between two reads of it, so a
write is seen. `start_all` stores the controller in the source after it started its
thread, without synchronisation: `InTime` assumes the store comes before the first
memory check, a million hits later. The control of several sources' lanes in the
monitor's loop is left out: there is one source.

**WindowTrigger.** `window_feature_computer` and `trigger_node` read a stream with the
same window state; `node` picks one. `AddHit` is a hit within the open window;
`WriteWindow` and `DecideOnWindow` are one past it, for either node. A feature vector keeps
its hits, the lower bound of clusters and the last toa: all else is statistics, and
what the trigger says of them is any answer (`interesting`). `close` divides by the bound
of clusters, which is 0 when a window at time 0 has hits in its first 200 ns only:
`DivideByZero` is that end of the process. `found` is a history variable. A window
is a whole number of ns long and longer than `CLUSTERING_DT_`.

**Definitions marked "seeded bug"** are not the code's. Each is a mistaken
variant of the definition below it; `PROJECT.json` ("mutants") says which
property fails when it is put in that definition's place, which shows that the
property can fail.

## Runs

| Run | Instance | Shows |
|---|---|---|
| `hit_sorter` | 5 hits, 7 times, disorder 2, check every 2nd hit | order, completeness and refinement of `OrderedStream`, for both nodes |
| `dataflow` | 2 lanes, blocks of 2 items, up to 5 items, times 0..3 | order, completeness, no undefined peek, byte counts, termination |
| `clusterer` | 3 hit tiles of 2x2 pixels in a 6x6 sensor, 5 hits, times 0..6, max_dt 3, closing time 4, write every 2nd hit | linked structure, order, refinement of `OnlineClustering` |
| `merger` | 2 lanes, slices of 6, epsilon 2, max_dt 2, up to 5 hits on 3 pixels of a row, times 2 and 4..8, both architectures | conservation, order, chain, what is merged and what not |
| `two_step` | 4 pixels, 3 of them a diagonal row, 5 hits, times 0..4, join time 2, max_dt 3, the code's area limit 25 in a sensor of 256 | conservation, order, cleared matrix, exact components, for both nodes |
| `windows` | 6 hits, windows of 3, times 0..12, untrigger time 4, clustering dt 1 | windows and their hits, the buffer and what is written, for every trigger |
| `control` | 2 lanes, 7 hits, a check every 3rd, limit 2 | joins before frees, the end of every run |
| `queue` | 2 readers, 5 elements, blocks of 2, one block in the pool, a first index of 2 entries, indexes of 4 bits | safe access, owners of blocks, claims, how old a count of claims gets, refinement of `FifoQueue` |
| `readout` | 3 hits at times 0..4, an offset every 2 ticks, datagrams of 2 frames, a socket for 2, one fault, both readers | times, success rate, configuration, end |
| `files` | 4 clusters of 1 or 2 hits, flush interval 3, lines of 5 or 6 bytes, times of 0 or 1 tick of 1.5625 ns at 6 digits | positions of the index, reading back |
| `two_step_last_group` | as `two_step` with 4 hits | the violation below |
| `merger_overlap` | 2 lanes, slices of 7, max_dt 3, 7 hits around the end of a slice | the violation below |

The constants keep the relations of the real ones: the closing time exceeds
`max_dt` (300 and 200), the border zone is `max_dt` wide (200 and 200), a slice
is longer than both (256000), and the check and write intervals are more than
one, so hits arrive between two inspections. The bounds let the interesting
cases happen: five hits make a merge of two clusters with a hit before and one
after it, times span more than a closing time, and in `dataflow` the stream
passes both lanes twice, a lane may get nothing, and an end token may share a
block, fill one, or be alone in one. The times of `merger` lie
around the end of a slice at 6 and in the middle of one, where the linear
architecture changes from one merger to the next.

In `queue` five elements fill three blocks, so the index grows while a reader may
be in it, the block of the pool is used again, and others come from the heap and are destroyed; two
readers can claim the same element. In `readout` one fault is enough to falsify or stop
anything; overflow of the socket is not counted as one. In `files` both buffers
are flushed before, with and after each other.

No symmetry is used: times, ids and coordinates are ordered, and the states of `queue`
are few enough without it.

`TypeOK` is defined in each module but no cfg lists it: it is proved for `HitSorter`,
`ParallelDataflow`, `PixelListClusterer`, `TwoStepClustering`, `ClusterFiles`,
`ClusterMerger`, `DataflowControl` and `MoodycamelQueue`, and for the others the runs spend their time on what follows from more than the
shape of an assignment.

**Fairness.** `dataflow`, `control` and `readout` have a liveness property each (`Terminates`,
`RunEnds`, `ReaderEnds`). The first two assume weak fairness of each thread: they are `std::thread`s that
never wait on a lock, and a poll of a queue that is not empty succeeds. The input
is finite, which is what a run over a file is. In `control` the main thread waits in
`join`, which returns once the thread has ended. In `readout` the reader's thread goes on
unless it waits in a receive, the detector sends what it measured, and a datagram that was not lost arrives; the
property leaves out the runs in which a command, a reply or the last datagram is lost,
because then the code does wait for ever.

### Disagreements of code and comments

`cluster_merger.h:188` rejects two clusters if |first1 - last2| and
|last1 - first2| both exceed `merge_time`, "clusters are too far apart
timewise". If one cluster lies inside the time span of the other, both
differences can be large although the clusters overlap in time. The run
`merger_overlap` shows it happen: a merged cluster spans the times 4 to 12, and
one at 8 on a pixel next to its hit at 6 is kept apart. `ShortGroupsMerged`
holds because a group of hits that lasts no longer than `max_dt` cannot contain
such a pair.

`temporal_clusterer.h:61` (and `cluster_splitter` alike) closes its writer at the end
token without writing the open cluster: the last group of a run is lost. The run
`two_step_last_group` shows it. `HitsKept` counts that group as still open.

Three more were met in reading and are in the models as they are in the code,
without a run of their own. `trigger_node.h:129` moves to the next window for a
hit but does not update it with the hit, as `window_feature_computer.h:51` does:
each window lacks its first hit. `dataflow_controller.h:179` returns a memory
use of 1, so the source never pauses; its comment promises the memory of all
pipes. `online_data_reader.h:52` makes its memory check once per datagram and
only when the number of hits is a multiple of a million at that moment, which it
rarely is.

## Proofs

`HitSorterProofs` proves of the sorters, for every disorder, interval and number
of hits (`SorterAssumption` is all that is assumed):

* `SorterInvariant`: the inductive invariant. Types are not enough: it says that
  the heap and the output split what arrived, that what was written is older than
  every hit read by more than the waiting time or, after the end token, older
  than the rest of the heap, and that while draining the newest hit is in the heap;
* `SorterSafe`, `SorterHeapNotEmptyInDrain`: `TypeOK`, `NothingLost` and
  `HeapNotEmptyInDrain` follow from it;
* `SorterImplementsOrderedStream`: each step is a step of `OrderedStream` or a
  stutter; reading maps to `Accept`, whose guard (nothing handed on is later)
  needs the invariant, popping to `Emit`;
* `StreamInvariant`, of the abstract stream of hits itself: each is handed on at most
  once, nothing pending is earlier than what was handed on (`Frontier`), and all is
  handed on at the end. `StreamSorted`: so the output is in time order;
* `SorterOutputSorted`: by the two theorems before, with no argument of its own.

The last section of `ParallelDataflowProofs` proves of the controller of such a graph, for
any number of lanes and hits and any limits (`ControlSizes`, what `DataflowControl` assumes):

* `ControlInvariant`: the loop of `wait_all` has joined every thread before the one it is
  at, the monitor is told to end only after that loop, and after `wait_all`
  all are joined (`JoinedSoFar`). `FreedAfterThreads` alone is not inductive: it
  says nothing of the steps that lead to `remove_all`;
* `ControlSafe`: `TypeOK` and `FreedAfterThreads` follow.

`KatherineReadoutProofs` proves of the readout, for every acquisition, size of
datagrams and number of faults:

* `ReadoutHandshake`: the detector executed a prefix of the commands and, of the
  synchronous reader, at most one is unanswered; if that, or its reply, was lost, nothing
  more is sent. `StartsConfigured` does not say how far either side is, so it is
  not inductive;
* `ReadoutStartsConfigured`: a prefix with the start in it is all the commands;
* `ReadoutData`: the datagrams and what is not yet in one are the frames of the acquisition,
  cut into parts (`Cut`), no datagram is in two places (`Places`), and what was written
  are the hits of the datagrams received, each timed by what their own frames and the
  offsets received before leave in force (`Written`). The two properties speak only of
  what was received, so neither is inductive. It rests on lemmas about the two
  recursions of the model: `AcquisitionSent` (the detector sends each hit once, where the
  offset in force is the high part of its time, and the end after them), `FramesParsed` (what
  the parser makes of any datagram), and `InForceShifted`, which joins them;
* `ReadoutTimesFollowOffsets`: if the parser knows the offset the datagram was sent under, its
  hits get their low and high part back, and `AcqTime < TimeRange` keeps the product
  with the offset from wrapping around;
* `ReadoutRateIsTrue`: the frame with the total is behind all hits, so a parser that has it
  can only lack those of datagrams that were sent and not read.

`WindowTriggerProofs` proves of both window nodes, for every length of the windows
and every stream of hits in time order:

* `WindowInvariant`: the open window lies at time 0 or at least a window later, and not
  after the last hit, for which the division in `get_empty_count` must not skip too
  far (`NewWindowHoldsHit`); a vector without hits has no last time;
* `WindowDividesByZeroOnlyAtStart`: so the first hit of any window but the first
  is later than `CLUSTERING_DT_` and is counted;
* `WindowHitsInTheirWindow`: each vector holds hits of its own window, in order. Its
  invariant `WindowsHold` says it of the window being filled, which becomes a vector later;
* `TriggerHitsSettled`, `TriggerOutputInOrder`: what of the read hits is written, waits in
  the buffer, or was dropped, and that the output has no hit twice or late. `BufferHolds` is
  the strengthening: what is written, what waits and what was dropped make up the hits
  taken from the stream, what waits is behind all that is written, and nothing waits
  once triggered;
* `TriggerHistoryWritten`: a trigger writes all that the buffer remembered
  (`HistoryHolds`: what was dropped is older than the open window by more than a window,
  and every interesting window ends before the last hit).

`ParallelDataflowProofs` proves of the dataflow, for any number of lanes, size of
blocks and stream of items in time order (`DataflowAssumption`):

* `DataflowTypeOK`, `DataflowOrder`: the inductive invariant. An item of a lane is in one
  of ten places, from the source's private block to the output. The invariant says
  what the agenda of each thread has left to do (agendas), that the places of a
  lane, one after the other, hold what the source gave it, in order, with the end token
  last and nowhere else (lanes, blocks), and that nothing the combiner still can
  receive is earlier than its output (stream). Every pipe operation moves items from
  one place to the next one (`Moved`), which is proved once;
* `CombinerImplementsOrderedStream`: the combiner implements `OrderedStream`
  (`CombinesInOrder`); it can take the earliest head only as every lane has one or is at
  its end, which is what the invariant is for;
* `CombinerPeekDefined`: no thread looks at the head of an empty block, as none is
  handed on empty but for a worker's after its end token, when nobody looks;
* `DataflowBytesCoverQueue`: the byte count of a pipe is the sum of its queue, but for
  what the writer announced and has not published (`Announced`) and what the
  reader took and has not settled (`Unsettled`); so it never underflows.

`PixelListClustererProofs` proves of the clusterer, for any sensor, tile size,
tolerance and stream in time order (`SensorAssumption`, `ClustererAssumption`; the
latter has `MaxDt <= ClosingDt`, without which the code would close clusters too early):

* `PixelInvariant`: list, matrix, iterators and clusters agree. The strengthening that
  carries the algorithm is `TimesApart`: two open clusters with adjacent hits were
  last extended at least `MaxDt` apart. So at most one cluster in a tile, or in two
  that touch, is near in time to a hit, and the search may stop at the first match in
  each list. A hit restores it, as it joins every cluster that is near;
* `PixelMatrixMatchesClusters`, `PixelIteratorsMatchHits`, `PixelOldestLast`,
  `PixelOneMergeablePerTile`, and `PixelTypeOK`: they follow;
* `PixelImplementsOnlineClustering`: a hit that opens a cluster, joins one or merges
  several (one predicate, `Absorbs`, covers the three) maps to `AddHit`. The search
  finds what the rule joins (`SearchFacts`), which is a matter of the numbering of tiles:
  no tile is taken for a neighbor across the edge of the sensor (`TileFacts`). What was written is
  too old to be joined (`WrittenHolds`), and writing the last of the list is writing
  the oldest (`OldestLast`).

`ClusterMergerProofs` proves of the mergers, in both architectures, for any number of
lanes, length of slices, tolerances, sensor and stream in time order (`SensorAssumption`,
`MergerAssumption`; the latter has `MaxDt <= Epsilon`, which the defaults satisfy with
equality):

* `MergerInvariant`: the inductive invariant, in five parts. Both kinds of step place a
  cluster in a deque and then let entries leave its front (`Passes`); each part is
  shown to be kept by placing (`PlacedLeads`, `PlacedFirsts`, `PlacedHits`, `PlacedWhole`) and
  by leaving (`RestLeads`, `FrontOrder`, `FrontHits`, `FrontWhole`);
* `MergerChainReachesBorders`: the offset of an entry leads past no border cluster, and
  none is behind the place a search begins at (`Leads`), although merging leaves the entries
  it invalidated, and their offsets, in the deque. So the search visits all (`ChainReaches`);
* `MergerOutputSorted`: what was written is no later than what waits, and that no
  later than anything still to be read (`InOrder`). A merged cluster keeps its place because
  the oldest of those merged is the first of them, and all were read before;
* `MergerHitsConserved`: each cluster has a place (of a lane, in the deque, in the output) and
  each hit one cluster of one place (`Conserved`). A step moves clusters from place to place
  (`Moves`), and merging empties what it invalidates (`PlacedHits`). That the lanes deliver
  each hit once follows from the recursive functions that compute it (`LaneClustersFacts`);
* `MergerMergesOnlyNeighbors`: every cluster, waiting ones included, is held together by what
  the lanes delivered and by touching hits near in time (`Whole`). The test of `can_merge` finds
  such a pair of hits (`MergeableLinked`), and two connected sets with a link are one
  (`ConnectedUnion`);
* `MergerTypes` follows.

`TwoStepClusteringProofs` proves of temporal clusterer and splitter, for any
sensor, limit and stream (`SensorAssumption`, `TwoStepAssumption`):

* `TwoStepInvariant`: a group and what is in the matrix of it (`Shapes`, `InTurn`),
  labels given in turn (`LabelsInTurn`), each hit in one place (`EachInOnePlace`),
  and as much room left at a pixel as hits wait for it (`RoomForEach`);
* `TwoStepTypeOK`, `TwoStepNoEndTokenInside`, `TwoStepOutputSorted`,
  `TwoStepReferencesStayValid`, `TwoStepHitsKept` follow. For the second, a group of
  no hits counts as large whatever the limit (`EmptyIsLarge`); for the last, the parts of a
  group hold exactly its hits (`PartsFacts`).

The last part of `TwoStepClusteringProofs` proves of the files the clusters end up in, for any
flush interval and any run of clusters (`FilesAssumption`, a hypothesis there):

* `FilesInvariant`: clusters, entries of the index and lines of hits agree (`Agree`), in
  each file and its buffer together, so that handing on changes nothing of it. An
  entry begins where the one before ends (`Points`), the byte at which it does is the
  sum of the lengths of the lines before it (`BytesConcat`), and each counter of the writer says
  how much is in the file, the buffer, or both (`Writing`). That a file is never handed an empty
  buffer before its last one, which would make it refuse the rest, follows too (`HandedOn`);
* `FilesIndexPointsAtPixels`, `FilesBuffersBounded` (no buffer holds more than the interval,
  which no run asks), `FilesTypeOK` follow;
* `FilesReadsBack`: the reader stands in both files behind the same cluster
  (`Reading`), so the hits it needs are there and no "#" is among them (`HitsThere`). The time of
  the cluster it reads is the least of its hits, as it was written (`FirstToaLeast`).

`MoodycamelQueueProofs` proves of the queue, for any sizes of blocks, pool and index,
any number of elements and any finite set of readers (`QueueAssumption`: sizes are powers
of two, and elements and readers fewer than half the range of an index), all of it
under the hypothesis `[]NoReaderLags`:

* `QueueInvariant`: the inductive invariant, in five parts. Of the claims it says that
  the shared counts are what is left of the true ones after wrapping, and in which order
  claims may be found to hold (`ClaimOrder`): readers decide in any order, each with a count of
  given back claims that may be old, and still no more claims hold than there are
  elements. Of the index it says where each block's key is in the ring in use and in
  every ring a reader may still have (`Rings`), so the distance of two keys is that of
  their entries. Of the elements, that the block of each one not yet gone is
  in the index and in use (`BlocksLive`), and of the blocks that each has one owner (`Owners`);
* `QueueAccess`, `QueueClaims`, `QueueBlocks` and `QueueTypes`: `SafeAccess`, `ClaimsBalanced`,
  `BlocksAccounted` and `TypeOK` follow;
* `QueueRefinesFifo`: storing `tailIndex` maps to `Put`, taking an index to `Take`, moving
  the element out to `Deliver`, and every other step to none;
* `OneReaderNeverLags`: with one reading thread, as in a pipe, the hypothesis holds, since
  nobody else gives claims back (`Current`). So `OneReaderAccess`, `OneReaderClaims`,
  `OneReaderBlocks` and `OneReaderRefinesFifo` hold with no hypothesis: a pipe is the FIFO that
  `ParallelDataflow` takes it for.

The hypothesis is there because a reader could be suspended between its load of
`dequeueOvercommit` and its decision for as long as the others give back half the range of claims,
2^63 of them. Then its comparison would be wrong. The run shows that two readers
cannot do that to each other; with more it is a matter of time that nobody has.

The library's induction takes an operator as its parameter, which the provers here
cannot instantiate. Where a proof runs along a recursive function, it uses instead
that a set of naturals has a least member (`LeastElement`), which is proved from the
well-foundedness of finite sets under inclusion.

Only model-checked: `ShortGroupsMerged` of the merger, which needs of the clusterers of all
lanes together, and of the order in which clusters meet in a merger, that the links of a
group are all found; `NoReaderLags` for two readers (of more nothing is claimed);
`ClustersAreComponents`, which compares with connected components computed by a
recursive operator of the library and cannot be proved; liveness, which is out of the
prover's reach.

## Not modelled

Energies, calibration, formatting, logging, measurement and the command line: they
decide nothing the properties speak of. The nodes the factory has commented out, other than
the window nodes: trigger, halo, filtering and parallel clusterers, the
validator. They filter by statistics on doubles, or drive the modelled clusterer
by hand. `mapped_mm_stream.h` and `data_buffer.h` are used by no code. The
deletion of queues and producers happens after all threads were joined.

More than half of the lines under `src/` are vendored headers. Of
`onnxruntime` the program calls one function to evaluate a trained model, whose
answer is left open. Of `moodycamel` it uses one of four ways to enqueue and one of
four to dequeue; tokens, bulk operations, explicit producers and the reader-writer queue are
never reached. So the models can stand for a large part of the program's own code but
never for most of the lines in the repository.

A crash between two flushes of the files leaves an index ahead of the pixels, and
a reader would go on with uninitialised numbers. The code has no recovery, so there is
nothing to state of it.

`PROJECT.json` ("components") gives the reason for each part left out.

## Plan

1. *Repeating reader*: how far out of order the replayed stream is at a seam,
   against what the sorters assume.
2. *Memory control* of several sources' lanes in `DataflowControl`.
3. *Proofs*: `ShortGroupsMerged` of the merger: first that a lane's clusters are separated,
   then that both parts of a group meet in one merger while the first waits.
