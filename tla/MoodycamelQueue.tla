--------------------------- MODULE MoodycamelQueue ---------------------------
(***************************************************************************)
(* The queue of a pipe: moodycamel::ConcurrentQueue as default_pipe uses   *)
(* it, enqueue() and a polled try_dequeue(), without tokens.  The thread   *)
(* that enqueues has one implicit producer of its own in the queue.        *)
(*                                                                         *)
(*     block index:   [key 0] [key 2] [key 4]          tail of the index   *)
(*                       |       |       |                                 *)
(*     blocks:          [x x]   [x x]   [x  ]                              *)
(*                     headIndex              tailIndex                    *)
(*                                                                         *)
(* An element has an index; the block it is in is found by way of the      *)
(* block index, a ring of entries which the producer doubles when it is    *)
(* full.  A block all of whose elements were removed leaves the index and  *)
(* is used again.  There is no lock: every action below is one access to   *)
(* shared memory, by one thread.  Memory is sequentially consistent here.  *)
(*                                                                         *)
(* A pipe has one reading thread.  The queue is written for several, who   *)
(* may each claim an element that is not there and have to give the claim  *)
(* back, so the readers are a set.                                         *)
(***************************************************************************)
EXTENDS Integers, Sequences, FiniteSets

CONSTANTS Readers,       \* threads that dequeue
          BLOCK_SIZE,    \* elements of a block
          PoolSize,      \* initialBlockPoolSize
          IndexSize,     \* IMPLICIT_INITIAL_INDEX_SIZE
          HalfRange,     \* half of the range of index_t, 2^63 in the code
          MaxItems       \* bound: how many elements are enqueued

IsPowerOfTwo(n) == \E k \in 0..n : n = 2^k

ASSUME QueueAssumption ==
    /\ {BLOCK_SIZE, PoolSize, IndexSize} \subseteq Nat \ {0}
    /\ {MaxItems, HalfRange} \subseteq Nat
    /\ IsFiniteSet(Readers)
    /\ MaxItems + Cardinality(Readers) < HalfRange
    /\ BLOCK_SIZE > 1 /\ IsPowerOfTwo(BLOCK_SIZE)
    /\ IndexSize > 1 /\ IsPowerOfTwo(IndexSize)

NULL == 0
INVALID_BLOCK_BASE == 1
Items == 1..MaxItems        \* the elements, in the order of their enqueuing
Slots == 0..(BLOCK_SIZE - 1)

\* The blocks there can be: those of the initial pool, and one from the heap
\* for each time the producer needs another.
Blocks == 1..(PoolSize + (MaxItems + BLOCK_SIZE - 1) \div BLOCK_SIZE)
InPool(b) == b <= PoolSize  \* ~dynamicallyAllocated

VARIABLES
    listed,          \* the producer is in the list of producers
    tailIndex, headIndex, dequeueOptimisticCount, dequeueOvercommit,
    tailBlock,
    blocks,          \* per block: its slots and elementsCompletelyDequeued
    initialBlockPoolIndex,
    freeList,        \* the free list, a lock-free stack, as a set
    heap,            \* blocks allocated and not yet destroyed
    allocations,     \* how many blocks were allocated
    entries,         \* the entries of all block indexes: key and value
    headers,         \* the block indexes, the last one is in use (blockIndex)
    producer,        \* the producer: what it does next, and its locals
    reader,          \* per reader: the same
    delivered        \* per reader: history, the elements it was handed

queueVars == <<listed, tailIndex, headIndex, dequeueOptimisticCount, dequeueOvercommit>>
blockVars == <<blocks, initialBlockPoolIndex, freeList, heap, allocations>>
indexVars == <<entries, headers>>
vars == <<queueVars, blockVars, indexVars, tailBlock, producer, reader, delivered>>

-----------------------------------------------------------------------------
\* Indexes and counts wrap around; circular_less_than compares them all the same,
\* as long as they are less than half the range apart.
Wrap(i) == i % (2 * HalfRange)
Before(i, j) == Wrap(i - j) > HalfRange

BlockBase(i) == i - (i % BLOCK_SIZE)

\* new_block_index: a ring of twice the capacity.  The old entries, oldest
\* first, keep their identity, so a reader with the old ring sees their values.
FirstHeader ==
    [capacity |-> IndexSize, tail |-> IndexSize - 1,
     index |-> [i \in 0..(IndexSize - 1) |-> i + 1]]

Doubled(h) ==
    [capacity |-> 2 * h.capacity,
     tail |-> h.capacity - 1,
     index |-> [i \in 0..(2 * h.capacity - 1) |->
                   IF i < h.capacity THEN h.index[(h.tail + 1 + i) % h.capacity]
                                     ELSE i + 1]]

NewEntries(n) == [i \in 1..n |-> [key |-> INVALID_BLOCK_BASE, value |-> NULL]]

blockIndex == Len(headers)
NextTail(h) == (headers[h].tail + 1) % headers[h].capacity

Idle == [at |-> "idle", entry |-> NULL, block |-> NULL]
Polling == [at |-> "poll", tail |-> 0, overcommit |-> 0, count |-> 0, index |-> 0,
            header |-> 0, position |-> 0, entry |-> NULL, block |-> NULL]

Init ==
    /\ listed = FALSE
    /\ tailIndex = 0
    /\ headIndex = 0
    /\ dequeueOptimisticCount = 0
    /\ dequeueOvercommit = 0
    /\ tailBlock = NULL
    /\ blocks = [b \in Blocks |-> [slots |-> [i \in Slots |-> NULL], emptied |-> 0]]
    /\ initialBlockPoolIndex = 0
    /\ freeList = {}
    /\ heap = {}
    /\ allocations = 0
    /\ entries = NewEntries(IndexSize)
    /\ headers = <<FirstHeader>>
    /\ producer = Idle
    /\ reader = [r \in Readers |-> Polling]
    /\ delivered = [r \in Readers |-> <<>>]

-----------------------------------------------------------------------------
(* enqueue                                                                 *)

ProducerAt(step) == producer.at = step
ProducerTo(step) == producer' = [producer EXCEPT !.at = step]

\* The first enqueue of a thread finds no producer of it in the hash, makes one
\* and links it into the list.
AddProducer ==
    /\ ProducerAt("idle")
    /\ tailIndex < MaxItems
    /\ ~listed
    /\ listed' = TRUE
    /\ UNCHANGED <<tailIndex, headIndex, dequeueOptimisticCount, dequeueOvercommit,
                   blockVars, indexVars, tailBlock, producer, reader, delivered>>

\* Within a block the element is constructed in its slot.
ConstructInTailBlock ==
    /\ ProducerAt("idle")
    /\ tailIndex < MaxItems
    /\ listed
    /\ tailIndex % BLOCK_SIZE # 0
    /\ blocks' = [blocks EXCEPT ![tailBlock].slots[tailIndex % BLOCK_SIZE] = tailIndex + 1]
    /\ ProducerTo("publish")
    /\ UNCHANGED <<queueVars, initialBlockPoolIndex, freeList, heap, allocations,
                   indexVars, tailBlock, reader, delivered>>

\* Seeded bug in EntryIsFree: the ring is taken to be large enough.
EntryIsNext(e) == TRUE

\* An entry never used, or one whose block was released.
EntryIsFree(e) == entries[e].key = INVALID_BLOCK_BASE \/ entries[e].value = NULL

\* At the end of a block a new one is needed (the queue has no limit, so it is not
\* refused).  insert_block_index_entry looks at the entry after the tail of the
\* ring.
FindEntry ==
    /\ ProducerAt("idle")
    /\ tailIndex < MaxItems
    /\ listed
    /\ tailIndex % BLOCK_SIZE = 0
    /\ LET e == headers[blockIndex].index[NextTail(blockIndex)] IN
         producer' = IF EntryIsFree(e)
                     THEN [producer EXCEPT !.at = "key", !.entry = e]
                     ELSE [producer EXCEPT !.at = "grow"]
    /\ UNCHANGED <<queueVars, blockVars, indexVars, tailBlock, reader, delivered>>

\* The ring is full.  The new one is built in private and published by one
\* store of blockIndex; its first new entry is taken.
NewBlockIndex ==
    /\ ProducerAt("grow")
    /\ LET h == Doubled(headers[blockIndex]) IN
         /\ headers' = Append(headers, h)
         /\ entries' = entries \o NewEntries(h.capacity - Len(entries))
         /\ producer' = [producer EXCEPT !.at = "key",
                                         !.entry = h.index[(h.tail + 1) % h.capacity]]
    /\ UNCHANGED <<queueVars, blockVars, tailBlock, reader, delivered>>

StoreKey ==
    /\ ProducerAt("key")
    /\ entries' = [entries EXCEPT ![producer.entry].key = tailIndex]
    /\ ProducerTo("tail")
    /\ UNCHANGED <<queueVars, blockVars, headers, tailBlock, reader, delivered>>

StoreIndexTail ==
    /\ ProducerAt("tail")
    /\ headers' = [headers EXCEPT ![blockIndex].tail = NextTail(blockIndex)]
    /\ ProducerTo("block")
    /\ UNCHANGED <<queueVars, blockVars, entries, tailBlock, reader, delivered>>

\* requisition_block: the rest of the pool, then the free list, then the heap.
FromPool(b) ==
    /\ initialBlockPoolIndex < PoolSize
    /\ b = initialBlockPoolIndex + 1
    /\ initialBlockPoolIndex' = b
    /\ UNCHANGED <<freeList, heap, allocations>>

FromFreeList(b) ==
    /\ initialBlockPoolIndex = PoolSize
    /\ b \in freeList
    /\ freeList' = freeList \ {b}
    /\ UNCHANGED <<initialBlockPoolIndex, heap, allocations>>

FromHeap(b) ==
    /\ initialBlockPoolIndex = PoolSize
    /\ freeList = {}
    /\ b = PoolSize + allocations + 1
    /\ allocations' = allocations + 1
    /\ heap' = heap \cup {b}
    /\ UNCHANGED <<initialBlockPoolIndex, freeList>>

\* Seeded bug in Emptied: a block that is used again keeps its count.
StillEmptied(b) == blocks[b].emptied

\* reset_empty
Emptied(b) == 0

\* The block is nobody else's yet: it is reset, and the element constructed.
RequisitionBlock ==
    /\ ProducerAt("block")
    /\ \E b \in Blocks :
         /\ FromPool(b) \/ FromFreeList(b) \/ FromHeap(b)
         /\ blocks' = [blocks EXCEPT ![b].emptied = Emptied(b),
                                     ![b].slots[tailIndex % BLOCK_SIZE] = tailIndex + 1]
         /\ producer' = [producer EXCEPT !.at = "link", !.block = b]
    /\ UNCHANGED <<queueVars, indexVars, tailBlock, reader, delivered>>

LinkBlock ==
    /\ ProducerAt("link")
    /\ entries' = [entries EXCEPT ![producer.entry].value = producer.block]
    /\ tailBlock' = producer.block
    /\ producer' = [Idle EXCEPT !.at = "publish"]
    /\ UNCHANGED <<queueVars, blockVars, headers, reader, delivered>>

\* Storing tailIndex is what enqueues the element.
Publish ==
    /\ ProducerAt("publish")
    /\ tailIndex' = Wrap(tailIndex + 1)
    /\ producer' = Idle
    /\ UNCHANGED <<listed, headIndex, dequeueOptimisticCount, dequeueOvercommit,
                   blockVars, indexVars, tailBlock, reader, delivered>>

-----------------------------------------------------------------------------
(* try_dequeue, again and again (default_pipe::blocking_dequeue)           *)

ReaderAt(r, step) == reader[r].at = step
ReaderTo(r, step) == reader' = [reader EXCEPT ![r].at = step]
PollAgain(r) == reader' = [reader EXCEPT ![r] = Polling]

\* size_approx of the producer: two loads.
SizeTail(r) ==
    /\ ReaderAt(r, "poll")
    /\ listed
    /\ reader' = [reader EXCEPT ![r].at = "size", ![r].tail = tailIndex]
    /\ UNCHANGED <<queueVars, blockVars, indexVars, tailBlock, producer, delivered>>

SizeHead(r) ==
    /\ ReaderAt(r, "size")
    /\ IF Before(headIndex, reader[r].tail)
       THEN reader' = [reader EXCEPT ![r] = [Polling EXCEPT !.at = "dequeue"]]
       ELSE PollAgain(r)
    /\ UNCHANGED <<queueVars, blockVars, indexVars, tailBlock, producer, delivered>>

\* dequeue: is there an element nobody claimed?
LoadTail(r) ==
    /\ ReaderAt(r, "dequeue")
    /\ reader' = [reader EXCEPT ![r].at = "overcommit", ![r].tail = tailIndex]
    /\ UNCHANGED <<queueVars, blockVars, indexVars, tailBlock, producer, delivered>>

LoadOvercommit(r) ==
    /\ ReaderAt(r, "overcommit")
    /\ reader' = [reader EXCEPT ![r].at = "look", ![r].overcommit = dequeueOvercommit]
    /\ UNCHANGED <<queueVars, blockVars, indexVars, tailBlock, producer, delivered>>

\* Seeded bug in LookForElement: the claim is made without looking first.
ClaimUnseen(r) ==
    /\ ReaderAt(r, "look")
    /\ ReaderTo(r, "claim")
    /\ UNCHANGED <<queueVars, blockVars, indexVars, tailBlock, producer, delivered>>

LookForElement(r) ==
    /\ ReaderAt(r, "look")
    /\ IF Before(dequeueOptimisticCount - reader[r].overcommit, reader[r].tail)
       THEN ReaderTo(r, "claim")
       ELSE PollAgain(r)
    /\ UNCHANGED <<queueVars, blockVars, indexVars, tailBlock, producer, delivered>>

Claim(r) ==
    /\ ReaderAt(r, "claim")
    /\ dequeueOptimisticCount' = Wrap(dequeueOptimisticCount + 1)
    /\ reader' = [reader EXCEPT ![r].at = "check", ![r].count = dequeueOptimisticCount]
    /\ UNCHANGED <<listed, tailIndex, headIndex, dequeueOvercommit,
                   blockVars, indexVars, tailBlock, producer, delivered>>

\* Another reader may have claimed the same element: the count tells.
CheckClaim(r) ==
    /\ ReaderAt(r, "check")
    /\ ReaderTo(r, IF Before(reader[r].count - reader[r].overcommit, tailIndex)
                   THEN "take" ELSE "giveback")
    /\ UNCHANGED <<queueVars, blockVars, indexVars, tailBlock, producer, delivered>>

\* Seeded bug in GiveBack: the claim is dropped without being counted.
GiveUp(r) ==
    /\ ReaderAt(r, "giveback")
    /\ PollAgain(r)
    /\ UNCHANGED <<queueVars, blockVars, indexVars, tailBlock, producer, delivered>>

GiveBack(r) ==
    /\ ReaderAt(r, "giveback")
    /\ dequeueOvercommit' = Wrap(dequeueOvercommit + 1)
    /\ PollAgain(r)
    /\ UNCHANGED <<listed, tailIndex, headIndex, dequeueOptimisticCount,
                   blockVars, indexVars, tailBlock, producer, delivered>>

\* A claim that holds gives the right to one element, which is taken here.
TakeIndex(r) ==
    /\ ReaderAt(r, "take")
    /\ headIndex' = Wrap(headIndex + 1)
    /\ reader' = [reader EXCEPT ![r] = [Polling EXCEPT !.at = "header", !.index = headIndex]]
    /\ UNCHANGED <<listed, tailIndex, dequeueOptimisticCount, dequeueOvercommit,
                   blockVars, indexVars, tailBlock, producer, delivered>>

\* get_block_index_entry_for_index: the ring, its tail, the base of the block
\* there, and from that the distance back to the block of this index.
LoadHeader(r) ==
    /\ ReaderAt(r, "header")
    /\ reader' = [reader EXCEPT ![r].at = "position", ![r].header = blockIndex]
    /\ UNCHANGED <<queueVars, blockVars, indexVars, tailBlock, producer, delivered>>

LoadIndexTail(r) ==
    /\ ReaderAt(r, "position")
    /\ reader' = [reader EXCEPT ![r].at = "key",
                                ![r].position = headers[reader[r].header].tail]
    /\ UNCHANGED <<queueVars, blockVars, indexVars, tailBlock, producer, delivered>>

LoadKey(r) ==
    /\ ReaderAt(r, "key")
    /\ LET h == headers[reader[r].header]
           tailBase == entries[h.index[reader[r].position]].key
           offset == (BlockBase(reader[r].index) - tailBase) \div BLOCK_SIZE
       IN  reader' = [reader EXCEPT
              ![r].at = "value", ![r].header = 0, ![r].position = 0,
              ![r].entry = h.index[(reader[r].position + offset) % h.capacity]]
    /\ UNCHANGED <<queueVars, blockVars, indexVars, tailBlock, producer, delivered>>

LoadBlock(r) ==
    /\ ReaderAt(r, "value")
    /\ reader' = [reader EXCEPT ![r].at = "move",
                                ![r].block = entries[reader[r].entry].value]
    /\ UNCHANGED <<queueVars, blockVars, indexVars, tailBlock, producer, delivered>>

\* The element is moved out of its slot and destroyed.  That there is a block is
\* SafeAccess.
MoveElement(r) ==
    /\ ReaderAt(r, "move")
    /\ reader[r].block # NULL
    /\ LET b == reader[r].block
           i == reader[r].index % BLOCK_SIZE
       IN  /\ delivered' = [delivered EXCEPT ![r] = Append(@, blocks[b].slots[i])]
           /\ blocks' = [blocks EXCEPT ![b].slots[i] = NULL]
    /\ ReaderTo(r, "empty")
    /\ UNCHANGED <<queueVars, initialBlockPoolIndex, freeList, heap, allocations,
                   indexVars, tailBlock, producer>>

\* Seeded bug in SetEmpty: the reader of a block's last slot frees it.
SetEmptyBySlot(r) ==
    /\ ReaderAt(r, "empty")
    /\ LET b == reader[r].block IN
         /\ blocks' = [blocks EXCEPT ![b].emptied = @ + 1]
         /\ reader' = [reader EXCEPT ![r] =
              IF reader[r].index % BLOCK_SIZE = BLOCK_SIZE - 1
              THEN [@ EXCEPT !.at = "unlink"] ELSE Polling]
    /\ UNCHANGED <<queueVars, initialBlockPoolIndex, freeList, heap, allocations,
                   indexVars, tailBlock, producer, delivered>>

\* set_empty: whoever empties the last slot of a block releases it.
SetEmpty(r) ==
    /\ ReaderAt(r, "empty")
    /\ LET b == reader[r].block IN
         /\ blocks' = [blocks EXCEPT ![b].emptied = @ + 1]
         /\ reader' = [reader EXCEPT ![r] =
              IF blocks[b].emptied = BLOCK_SIZE - 1
              THEN [@ EXCEPT !.at = "unlink"] ELSE Polling]
    /\ UNCHANGED <<queueVars, initialBlockPoolIndex, freeList, heap, allocations,
                   indexVars, tailBlock, producer, delivered>>

UnlinkBlock(r) ==
    /\ ReaderAt(r, "unlink")
    /\ entries' = [entries EXCEPT ![reader[r].entry].value = NULL]
    /\ ReaderTo(r, "free")
    /\ UNCHANGED <<queueVars, blockVars, headers, tailBlock, producer, delivered>>

\* add_block_to_free_list: blocks from the heap are destroyed instead.
FreeBlock(r) ==
    /\ ReaderAt(r, "free")
    /\ LET b == reader[r].block IN
         IF InPool(b)
         THEN /\ freeList' = freeList \cup {b}
              /\ UNCHANGED heap
         ELSE /\ heap' = heap \ {b}
              /\ UNCHANGED freeList
    /\ PollAgain(r)
    /\ UNCHANGED <<queueVars, blocks, initialBlockPoolIndex, allocations,
                   indexVars, tailBlock, producer, delivered>>

-----------------------------------------------------------------------------
Enqueue ==
    \/ AddProducer
    \/ ConstructInTailBlock
    \/ FindEntry \/ NewBlockIndex \/ StoreKey \/ StoreIndexTail
    \/ RequisitionBlock \/ LinkBlock
    \/ Publish

DequeueStep(r) ==
    \/ SizeTail(r) \/ SizeHead(r)
    \/ LoadTail(r) \/ LoadOvercommit(r) \/ LookForElement(r)
    \/ Claim(r) \/ CheckClaim(r) \/ GiveBack(r)
    \/ TakeIndex(r)
    \/ LoadHeader(r) \/ LoadIndexTail(r) \/ LoadKey(r) \/ LoadBlock(r)
    \/ MoveElement(r) \/ SetEmpty(r) \/ UnlinkBlock(r) \/ FreeBlock(r)

Next == Enqueue \/ (\E r \in Readers : DequeueStep(r))

\* Both are threads of the operating system; neither waits for a lock.
Fairness == WF_vars(Enqueue) /\ \A r \in Readers : WF_vars(DequeueStep(r))

Spec == Init /\ [][Next]_vars /\ Fairness

-----------------------------------------------------------------------------
Locals == [at : {"poll", "size", "dequeue", "overcommit", "look", "claim", "check",
                 "giveback", "take", "header", "position", "key", "value", "move",
                 "empty", "unlink", "free"},
           tail : 0..MaxItems, overcommit : Nat, count : Nat, index : 0..MaxItems,
           header : Nat, position : Nat, entry : Nat, block : Blocks \cup {NULL}]

\* Types; indexes do not wrap within the bound, counts do.
TypeOK ==
    /\ listed \in BOOLEAN
    /\ {tailIndex, headIndex} \subseteq 0..MaxItems
    /\ {dequeueOptimisticCount, dequeueOvercommit} \subseteq Nat
    /\ tailBlock \in Blocks \cup {NULL}
    /\ blocks \in [Blocks -> [slots : [Slots -> Items \cup {NULL}], emptied : 0..BLOCK_SIZE]]
    /\ initialBlockPoolIndex \in 0..PoolSize
    /\ freeList \subseteq {b \in Blocks : InPool(b)}
    /\ heap \subseteq {b \in Blocks : ~InPool(b)}
    /\ allocations \in 0..MaxItems
    /\ entries \in Seq([key : Nat, value : Blocks \cup {NULL}])
    /\ producer \in [at : {"idle", "grow", "key", "tail", "block", "link", "publish"},
                     entry : Nat, block : Blocks \cup {NULL}]
    /\ reader \in [Readers -> Locals]
    /\ delivered \in [Readers -> Seq(Items)]

\* A reader finds its element where it looks for it: the block it reached by way
\* of the block index is in use, whatever the producer and the other readers did
\* to the index and the block meanwhile, and holds the element of that index.
SafeAccess ==
    \A r \in Readers :
        ReaderAt(r, "move") =>
            /\ reader[r].block # NULL
            /\ InPool(reader[r].block) \/ reader[r].block \in heap
            /\ reader[r].block \notin freeList
            /\ blocks[reader[r].block].slots[reader[r].index % BLOCK_SIZE]
                  = reader[r].index + 1

\* A reader compares counts with the number of given back claims it has loaded.
\* Until it has decided, that number is out of date by less than the indexes can
\* tell, however many claims the others make and give back meanwhile.
NoReaderLags ==
    \A r \in Readers :
        reader[r].at \in {"look", "claim", "check"} =>
            Wrap(dequeueOvercommit - reader[r].overcommit) + Cardinality(Readers) <= HalfRange

Pending == {"check", "take", "giveback"}

\* Claims add up: each is an index taken, one given back, or pending.  Those that
\* passed the check are covered by elements, so no reader takes an index at which
\* nothing is; and once no claim is pending every element left can be claimed.
ClaimsBalanced ==
    LET readersAt(steps) == Cardinality({r \in Readers : reader[r].at \in steps}) IN
    /\ Wrap(dequeueOptimisticCount - dequeueOvercommit) = headIndex + readersAt(Pending)
    /\ headIndex + readersAt({"take"}) <= tailIndex

\* No block is lost or used twice: each one taken from the pool or the heap is on
\* the free list, in one entry of the block index, in the hands of the producer,
\* or in those of the reader who unlinked it; and in one of these places only.
\* And one whose elements are all gone does not stay in the index.
Linked(b) == {e \in DOMAIN entries : entries[e].value = b}
Releasing(b) == {r \in Readers : ReaderAt(r, "free") /\ reader[r].block = b}
Requisitioned(b) == ProducerAt("link") /\ producer.block = b

BlocksAccounted ==
    \A b \in (1..initialBlockPoolIndex) \cup heap :
        /\ Cardinality(Linked(b)) + Cardinality(Releasing(b))
             + (IF Requisitioned(b) THEN 1 ELSE 0) + (IF b \in freeList THEN 1 ELSE 0) = 1
        /\ Linked(b) # {} /\ blocks[b].emptied = BLOCK_SIZE =>
             \E r \in Readers : ReaderAt(r, "unlink") /\ reader[r].block = b

\* To its users it is a queue: an element is in it from the store of tailIndex
\* on, it is removed in the order of the indexes, and the reader that took an
\* index is handed the element that was enqueued at it.
Holding == {"header", "position", "key", "value", "move"}

Fifo == INSTANCE FifoQueue
          WITH Nothing <- NULL,
               contents <- [i \in 1..(tailIndex - headIndex) |-> headIndex + i],
               held <- [r \in Readers |-> IF reader[r].at \in Holding
                                          THEN reader[r].index + 1 ELSE NULL]

ImplementsFifo == Fifo!Spec
=============================================================================
