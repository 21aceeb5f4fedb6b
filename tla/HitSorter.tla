------------------------------ MODULE HitSorter ------------------------------
(***************************************************************************)
(* The two nodes that put the hits of one detector stream in time order:   *)
(* hit_sorter::start, and burda_to_mm_hit_adapter with should_sort set     *)
(* (enqueue_hit and write_out_remaining), which is what every parallel     *)
(* architecture places in front of a clusterer.  Both push each hit into a *)
(* min-heap on toa and look, every CheckInterval hits, whether the heap    *)
(* holds hits more than DequeueTime older than the one just pushed: those  *)
(* are written out.  The end token makes them write out the whole heap.    *)
(*                                                                         *)
(* A hit is its arrival number and its toa.  The toa is a whole number of  *)
(* fast clock ticks (1.5625 ns, of which 16 make one slow clock tick of    *)
(* 25 ns), so no arithmetic here is rounded.  The pixel, the energy and    *)
(* their calibration do not affect the order and are left out, and so is   *)
(* the repetition counter of the adapter: ignore_repeating_pixel is false  *)
(* and never set, so the counter is written and never decides anything.    *)
(*                                                                         *)
(* std::priority_queue pops hits of equal toa in an order of its own, so   *)
(* the heap is a set and its top is any hit of it with the least toa.      *)
(***************************************************************************)
EXTENDS Integers, Sequences

CONSTANTS Toas,           \* the time stamps a hit may carry
          DequeueTime,    \* maximal unorderedness of the data stream
          CheckInterval,  \* the heap is inspected once in so many hits
          MaxHits         \* bound: the hits of one stream

ASSUME SorterAssumption ==
    /\ Toas \subseteq Int
    /\ DequeueTime \in Nat
    /\ CheckInterval \in Nat \ {0}
    /\ MaxHits \in Nat

Hits == [id : 1..MaxHits, toa : Toas]

\* The default constructed hit the loop starts with; nothing looks at it.
NoHit == [id |-> 0, toa |-> 0]

Nodes == {"hit_sorter", "burda_to_mm_adapter"}

VARIABLES node,         \* which of the two nodes runs (never changes)
          pc,           \* where its loop stands
          processed,    \* hits read so far (processed, total_hits_processed_)
          hit,          \* the hit read last
          queue,        \* priority_queue_
          output,       \* what was written, in that order
          arrived       \* history: every hit read

vars == <<node, pc, processed, hit, queue, output, arrived>>

\* Definitions under a comment "seeded bug" are not the code's: each is what a
\* definition below it would be with a mistake in it, which a property detects.

\* priority_queue_.top(): with hits of equal toa, any of them.
IsTop(h) == h \in queue /\ \A g \in queue : h.toa <= g.toa

\* The loop's check interval. hit_sorter counts the current hit, the adapter
\* increments its counter after the check.
CheckDue ==
    LET count == IF node = "hit_sorter" THEN processed + 1 ELSE processed
    IN  count % CheckInterval = 0

\* The environment: the detector's stream is out of order by DequeueTime at most.
WithinDisorder(toa) == \A g \in arrived : g.toa - DequeueTime <= toa

-----------------------------------------------------------------------------
Init ==
    /\ node \in Nodes
    /\ pc = "read"
    /\ processed = 0
    /\ hit = NoHit
    /\ queue = {}
    /\ output = <<>>
    /\ arrived = {}

\* A valid hit is read and pushed; the heap is inspected when that is due.
ReadHit(toa) ==
    /\ pc = "read"
    /\ processed < MaxHits
    /\ WithinDisorder(toa)
    /\ hit' = [id |-> processed + 1, toa |-> toa]
    /\ processed' = processed + 1
    /\ queue' = queue \cup {hit'}
    /\ arrived' = arrived \cup {hit'}
    /\ pc' = IF CheckDue THEN "drain" ELSE "read"
    /\ UNCHANGED <<node, output>>

\* Seeded bug in Pop: the top is written but stays in the heap.
PopTopOnly(h) ==
    /\ IsTop(h)
    /\ output' = Append(output, h)
    /\ UNCHANGED queue

Pop(h) ==
    /\ IsTop(h)
    /\ output' = Append(output, h)
    /\ queue' = queue \ {h}

\* Seeded bug in TooOld: the sign of the waiting time.
TooOldAhead(h) == h.toa < hit.toa + DequeueTime

TooOld(h) == h.toa < hit.toa - DequeueTime

\* One turn of the loop that writes out what nothing can precede any more.
DrainHit(h) ==
    /\ pc = "drain"
    /\ TooOld(h)
    /\ Pop(h)
    /\ UNCHANGED <<node, pc, processed, hit, arrived>>

\* Its condition fails: the top of the heap is not old enough.
DrainStop(h) ==
    /\ pc = "drain"
    /\ IsTop(h)
    /\ ~TooOld(h)
    /\ pc' = "read"
    /\ UNCHANGED <<node, processed, hit, queue, output, arrived>>

\* The end token is read instead of a hit.
ReadEnd ==
    /\ pc = "read"
    /\ pc' = "flush"
    /\ UNCHANGED <<node, processed, hit, queue, output, arrived>>

\* One turn of the loop that empties the heap at the end of the stream.
FlushHit(h) ==
    /\ pc = "flush"
    /\ Pop(h)
    /\ UNCHANGED <<node, pc, processed, hit, arrived>>

\* Seeded bug in Close: the node closes without emptying the heap.
CloseAtOnce ==
    /\ pc = "flush"
    /\ pc' = "closed"
    /\ UNCHANGED <<node, processed, hit, queue, output, arrived>>

\* writer_.close(): the heap is empty, the end token is written.
Close ==
    /\ pc = "flush"
    /\ queue = {}
    /\ pc' = "closed"
    /\ UNCHANGED <<node, processed, hit, queue, output, arrived>>

\* start() has returned.
Finished == pc = "closed" /\ UNCHANGED vars

Step == \/ \E h \in queue : DrainHit(h) \/ DrainStop(h) \/ FlushHit(h)
        \/ Close

Next ==
    \/ \E toa \in Toas : ReadHit(toa)
    \/ ReadEnd
    \/ Step
    \/ Finished

Spec == Init /\ [][Next]_vars

-----------------------------------------------------------------------------
TypeOK ==
    /\ node \in Nodes
    /\ pc \in {"read", "drain", "flush", "closed"}
    /\ processed \in 0..MaxHits
    /\ hit \in Hits \cup {NoHit}
    /\ queue \subseteq Hits
    /\ output \in Seq(Hits)
    /\ arrived \subseteq Hits

Written == {output[i] : i \in DOMAIN output}

\* The drain loop never asks an empty heap for its top, which would be
\* undefined: the hit that was just pushed is still there to stop it.
HeapNotEmptyInDrain == pc = "drain" => hit \in queue

\* Every hit that was read is either still in the heap or written, not both:
\* the inspections and the final flush together lose and repeat nothing.
NothingLost ==
    /\ queue \cup Written = arrived
    /\ queue \cap Written = {}

\* The promise to the clusterer behind the sorter.
Stream == INSTANCE OrderedStream
            WITH Items <- Hits, accepted <- arrived, emitted <- output,
                 ended <- (pc = "closed")

\* The node hands its hits on as OrderedStream promises: in time order, each
\* once, none held back at the end token.
ImplementsOrderedStream == Stream!Spec

\* The hits leave in time order.
OutputSorted == Stream!Sorted
=============================================================================
