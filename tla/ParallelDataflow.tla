--------------------------- MODULE ParallelDataflow ---------------------------
(***************************************************************************)
(* The dataflow graph every parallel architecture is built on, with its    *)
(* pipes: a source splits a time ordered stream over the lanes, a worker   *)
(* thread per lane passes its part on, and a combiner puts the lanes       *)
(* together again.                                                         *)
(*                                                                         *)
(*     source --> pipe --> worker --> pipe --\                             *)
(*            \-> pipe --> worker --> pipe ---+--> combiner                *)
(*                                                                         *)
(* Each node is a thread.  A pipe is the block its writer fills, an        *)
(* unbounded lock-free queue of blocks (moodycamel, external), the block   *)
(* its reader consumes, and an atomic count of the bytes queued.  There is *)
(* no lock and no condition variable: a reader that finds the queue empty  *)
(* sleeps and polls.  A stream ends with an end token in every pipe.       *)
(*                                                                         *)
(* What a worker computes is another module's business (HitSorter,         *)
(* PixelListClusterer); here it passes on what it reads, in order.         *)
(***************************************************************************)
EXTENDS Integers, Sequences

CONSTANTS Lanes,          \* number of lanes (n_workers)
          SwitchLen,      \* SWITCH_INTERVAL_LEN: a lane's slice of the time
          Capacity,       \* max_block_byte_size(): bytes that fill a block
          ItemSize,       \* bytes of an item
          EndSize,        \* bytes of the end token
          MaxTime,        \* bound: the time stamps of the stream
          MaxItems        \* bound: its length

ASSUME DataflowAssumption ==
    /\ {Lanes, SwitchLen, Capacity, ItemSize, EndSize} \subseteq Nat \ {0}
    /\ {MaxTime, MaxItems} \subseteq Nat

Lane == 1..Lanes

\* The pipe into a worker and the pipe out of it.
Pipes == {"in", "out"} \X Lane
In(i) == <<"in", i>>
Out(i) == <<"out", i>>

Producers == 0..Lanes       \* the source is node 0, then the workers
Combiner == Lanes + 1
Consumers == 1..Combiner    \* the workers and the combiner

Items == [id : 1..MaxItems, toa : 0..MaxTime]
End == [id |-> 0, toa |-> MaxTime + 1]
IsEnd(x) == x.id = 0
Blocks == Seq(Items \cup {End})

VARIABLES
    input,      \* what the source has not read yet
    read,       \* history: the items it has read
    agenda,     \* per producer: the pipe operations its thread has to do next
    wblock,     \* per pipe: data_block being filled (pipe_writer::block_)
    queue,      \* per pipe: the concurrent queue of blocks
    bytesUsed,  \* per pipe: bytes_used_, an atomic counter
    rblock,     \* per pipe: what is left of the reader's block
    pc,         \* per consumer: "read", "settle" (dequeued, count not yet
                \* adjusted), "done", or "undefined" after reading past a block
    reading,    \* per consumer: the pipe it dequeued from last
    output      \* what the combiner handed on

vars == <<input, read, agenda, wblock, queue, bytesUsed, rblock, pc, reading, output>>

-----------------------------------------------------------------------------
\* The sum of a sequence of numbers.
SumOf(s) == LET sum[k \in 0..Len(s)] == IF k = 0 THEN 0 ELSE sum[k - 1] + s[k]
            IN  sum[Len(s)]

\* byte_size() of an item, of a block and of the blocks of a pipe.
Size(x) == IF IsEnd(x) THEN EndSize ELSE ItemSize

Bytes(block) == SumOf([k \in 1..Len(block) |-> Size(block[k])])

QueueBytes(blocks) == SumOf([k \in 1..Len(blocks) |-> Bytes(blocks[k])])

\* temporal_hit_split_descriptor::get_pipe_index
PipeIndex(item) == ((item.toa % (Lanes * SwitchLen)) \div SwitchLen) + 1

\* What a producer's thread does, one access to shared state at a time.
Write(p, x) == [op |-> "write", pipe |-> p, item |-> x]
Account(p) == [op |-> "account", pipe |-> p, item |-> End]
Enqueue(p) == [op |-> "enqueue", pipe |-> p, item |-> End]

Operations ==
    [op : {"write", "account", "enqueue"}, pipe : Pipes, item : Items \cup {End}]

\* Definitions under a comment "seeded bug" are not the code's: each is what a
\* definition below it would be with a mistake in it, which a property detects.

\* Seeded bug in Flush: the bytes are counted after the block is out of hand.
FlushUncounted(p) == <<Enqueue(p), Account(p)>>

\* flush() calls blocking_enqueue, which counts the bytes before it enqueues.
Flush(p) == <<Account(p), Enqueue(p)>>

\* Seeded bugs in Close: the last items are flushed before the end token; the
\* end token is left in the block.
CloseFlushTwice(pipes) ==
    [k \in 1..(5 * Len(pipes)) |->
        LET p == pipes[(k + 4) \div 5]
        IN  (Flush(p) \o <<Write(p, End)>> \o Flush(p))[((k + 4) % 5) + 1]]

CloseUnflushed(pipes) == [k \in 1..Len(pipes) |-> Write(pipes[k], End)]

\* close(): end token and flush, pipe after pipe.
Close(pipes) ==
    [k \in 1..(3 * Len(pipes)) |->
        LET p == pipes[(k + 2) \div 3]
        IN  (<<Write(p, End)>> \o Flush(p))[((k + 2) % 3) + 1]]

\* The pipes a producer writes to.
OutPipes(n) == IF n = 0 THEN [i \in Lane |-> In(i)] ELSE <<Out(n)>>
InPipes(n) == IF n = Combiner THEN [i \in Lane |-> Out(i)] ELSE <<In(n)>>

\* The time stamps of a stream: sorted, as its node reads them from the file or
\* gets them from a sorter.
SortedTimes(n) == {t \in [1..n -> 0..MaxTime] : \A i \in 2..n : t[i - 1] <= t[i]}

-----------------------------------------------------------------------------
Init ==
    /\ \E n \in 0..MaxItems : \E t \in SortedTimes(n) :
            input = [i \in 1..n |-> [id |-> i, toa |-> t[i]]] \o <<End>>
    /\ read = {}
    /\ agenda = [n \in Producers |-> <<>>]
    /\ wblock = [p \in Pipes |-> <<>>]
    /\ queue = [p \in Pipes |-> <<>>]
    /\ bytesUsed = [p \in Pipes |-> 0]
    /\ rblock = [p \in Pipes |-> <<>>]
    /\ pc = [n \in Consumers |-> "read"]
    /\ reading = [n \in Consumers |-> InPipes(n)[1]]
    /\ output = <<>>

\* The source reads the next item of its stream and has it to write, or reads
\* the end and closes its pipes.
SourceRead ==
    /\ input # <<>>
    /\ agenda[0] = <<>>
    /\ LET x == Head(input) IN
         IF IsEnd(x)
         THEN /\ agenda' = [agenda EXCEPT ![0] = Close(OutPipes(0))]
              /\ UNCHANGED read
         ELSE /\ agenda' = [agenda EXCEPT ![0] = <<Write(In(PipeIndex(x)), x)>>]
              /\ read' = read \cup {x}
    /\ input' = Tail(input)
    /\ UNCHANGED <<wblock, queue, bytesUsed, rblock, pc, reading, output>>

\* pipe_writer::write: into the block, and flush it when that fills it.
DoWrite(n) ==
    /\ agenda[n] # <<>>
    /\ LET todo == Head(agenda[n])
           block == Append(wblock[todo.pipe], todo.item)
       IN  /\ todo.op = "write"
           /\ wblock' = [wblock EXCEPT ![todo.pipe] = block]
           /\ agenda' = [agenda EXCEPT ![n] =
                            (IF Bytes(block) < Capacity THEN <<>> ELSE Flush(todo.pipe))
                                \o Tail(@)]
    /\ UNCHANGED <<input, read, queue, bytesUsed, rblock, pc, reading, output>>

\* blocking_enqueue, first half: bytes_used_ += byte_size().
DoAccount(n) ==
    /\ agenda[n] # <<>>
    /\ LET todo == Head(agenda[n]) IN
         /\ todo.op = "account"
         /\ bytesUsed' = [bytesUsed EXCEPT ![todo.pipe] = @ + Bytes(wblock[todo.pipe])]
    /\ agenda' = [agenda EXCEPT ![n] = Tail(@)]
    /\ UNCHANGED <<input, read, wblock, queue, rblock, pc, reading, output>>

\* Second half: the block goes into the queue; the writer clears its own.
DoEnqueue(n) ==
    /\ agenda[n] # <<>>
    /\ LET todo == Head(agenda[n]) IN
         /\ todo.op = "enqueue"
         /\ queue' = [queue EXCEPT ![todo.pipe] = Append(@, wblock[todo.pipe])]
         /\ wblock' = [wblock EXCEPT ![todo.pipe] = <<>>]
    /\ agenda' = [agenda EXCEPT ![n] = Tail(@)]
    /\ UNCHANGED <<input, read, bytesUsed, rblock, pc, reading, output>>

-----------------------------------------------------------------------------
\* The pipe whose block consumer n has to refill before it can go on: the
\* first of its pipes, in their order, with nothing left to read or peek at.
Starving(n, p) ==
    \E i \in DOMAIN InPipes(n) :
        /\ InPipes(n)[i] = p
        /\ rblock[p] = <<>>
        /\ \A j \in 1..(i - 1) : rblock[InPipes(n)[j]] # <<>>

\* blocking_dequeue, first half: the poll that finds a block takes it.
Dequeue(n, p) ==
    /\ pc[n] = "read"
    /\ n # Combiner => agenda[n] = <<>>
    /\ Starving(n, p)
    /\ queue[p] # <<>>
    /\ rblock' = [rblock EXCEPT ![p] = Head(queue[p])]
    /\ queue' = [queue EXCEPT ![p] = Tail(@)]
    /\ reading' = [reading EXCEPT ![n] = p]
    /\ pc' = [pc EXCEPT ![n] = "settle"]
    /\ UNCHANGED <<input, read, agenda, wblock, bytesUsed, output>>

\* Second half: bytes_used_ -= byte_size().  pipe_reader::read tries again if
\* the block was empty; peek, which the combiner uses, does not.
Settle(n) ==
    /\ pc[n] = "settle"
    /\ LET p == reading[n] IN
         /\ bytesUsed' = [bytesUsed EXCEPT ![p] = @ - Bytes(rblock[p])]
         /\ pc' = [pc EXCEPT ![n] =
                      IF n = Combiner /\ rblock[p] = <<>> THEN "undefined" ELSE "read"]
    /\ UNCHANGED <<input, read, agenda, wblock, queue, rblock, reading, output>>

\* A worker takes the next item and has it to write, or closes at the end.
WorkerRead(n) ==
    LET p == In(n) IN
    /\ pc[n] = "read"
    /\ agenda[n] = <<>>
    /\ rblock[p] # <<>>
    /\ LET x == Head(rblock[p]) IN
         /\ agenda' = [agenda EXCEPT ![n] =
                          IF IsEnd(x) THEN Close(OutPipes(n)) ELSE <<Write(Out(n), x)>>]
         /\ pc' = [pc EXCEPT ![n] = IF IsEnd(x) THEN "done" ELSE "read"]
    /\ rblock' = [rblock EXCEPT ![p] = Tail(@)]
    /\ UNCHANGED <<input, read, wblock, queue, bytesUsed, reading, output>>

\* multi_pipe_reader::read: with a head of every pipe in sight, the earliest
\* is read, the first pipe's on a tie.
IsEarliest(i) ==
    LET head(j) == Head(rblock[Out(j)]) IN
    /\ ~IsEnd(head(i))
    /\ \A j \in Lane : \/ IsEnd(head(j))
                       \/ head(i).toa < head(j).toa
                       \/ head(i).toa = head(j).toa /\ i <= j

CombinerSeesAll ==
    /\ pc[Combiner] = "read"
    /\ \A i \in Lane : rblock[Out(i)] # <<>>

CombinerRead(i) ==
    /\ CombinerSeesAll
    /\ IsEarliest(i)
    /\ output' = Append(output, Head(rblock[Out(i)]))
    /\ rblock' = [rblock EXCEPT ![Out(i)] = Tail(@)]
    /\ UNCHANGED <<input, read, agenda, wblock, queue, bytesUsed, pc, reading>>

\* Seeded bug in CombinerEnd: the node stops at the first end token it sees.
CombinerEndEarly ==
    /\ CombinerSeesAll
    /\ \E i \in Lane : IsEnd(Head(rblock[Out(i)]))
    /\ rblock' = [rblock EXCEPT ![Out(1)] = Tail(@)]
    /\ pc' = [pc EXCEPT ![Combiner] = "done"]
    /\ UNCHANGED <<input, read, agenda, wblock, queue, bytesUsed, reading, output>>

\* All heads are end tokens: that of the first pipe is read and the node stops.
CombinerEnd ==
    /\ CombinerSeesAll
    /\ \A i \in Lane : IsEnd(Head(rblock[Out(i)]))
    /\ rblock' = [rblock EXCEPT ![Out(1)] = Tail(@)]
    /\ pc' = [pc EXCEPT ![Combiner] = "done"]
    /\ UNCHANGED <<input, read, agenda, wblock, queue, bytesUsed, reading, output>>

-----------------------------------------------------------------------------
Produce(n) == DoWrite(n) \/ DoAccount(n) \/ DoEnqueue(n)

Source == SourceRead \/ Produce(0)

Worker(n) == \/ Produce(n)
             \/ WorkerRead(n)
             \/ \E p \in Pipes : Dequeue(n, p)
             \/ Settle(n)

Combine == \/ \E p \in Pipes : Dequeue(Combiner, p)
           \/ Settle(Combiner)
           \/ \E i \in Lane : CombinerRead(i)
           \/ CombinerEnd

AllDone ==
    /\ input = <<>>
    /\ \A n \in Producers : agenda[n] = <<>>
    /\ \A n \in Consumers : pc[n] = "done"

\* Every thread has returned and was joined.
Finished == AllDone /\ UNCHANGED vars

Next == Source \/ (\E n \in Lane : Worker(n)) \/ Combine \/ Finished

\* The threads are std::threads the operating system keeps scheduling; a poll
\* of a queue that is not empty succeeds.
Fairness ==
    /\ WF_vars(Source)
    /\ \A n \in Lane : WF_vars(Worker(n))
    /\ WF_vars(Combine)

Spec == Init /\ [][Next]_vars /\ Fairness

-----------------------------------------------------------------------------
TypeOK ==
    /\ input \in Blocks
    /\ read \subseteq Items
    /\ agenda \in [Producers -> Seq(Operations)]
    /\ wblock \in [Pipes -> Blocks]
    /\ queue \in [Pipes -> Seq(Blocks)]
    /\ bytesUsed \in [Pipes -> Int]
    /\ rblock \in [Pipes -> Blocks]
    /\ pc \in [Consumers -> {"read", "settle", "done", "undefined"}]
    /\ reading \in [Consumers -> Pipes]
    /\ output \in Seq(Items)

\* peek() dequeues once and then looks at the first item of the block without
\* asking again, so no block that reaches the combiner may be empty.  One is
\* enqueued whenever the end token itself fills a block, because close() then
\* flushes twice; it must come after the end token and be left unread.
PeekDefined == pc[Combiner] # "undefined"

\* bytes_used_ is unsigned: were it ever decreased before it was increased for
\* the same block, the memory control would read almost 2^64 bytes.  It covers
\* what is queued, and is back to nothing when all threads are done.
BytesCoverQueue ==
    /\ \A p \in Pipes : bytesUsed[p] >= QueueBytes(queue[p])
    /\ AllDone => \A p \in Pipes : bytesUsed[p] = 0

\* The combiner hands on what the source read in time order, each item once,
\* and has handed on everything when it ends: the lanes, their batches and
\* their end tokens do not show.
Stream == INSTANCE OrderedStream
            WITH accepted <- read, emitted <- output,
                 ended <- (pc[Combiner] = "done")

CombinesInOrder == Stream!Spec

\* Every thread returns: no lane without data starves the combiner for good,
\* and every node gets the end token it waits for.
Terminates == <>AllDone
=============================================================================
