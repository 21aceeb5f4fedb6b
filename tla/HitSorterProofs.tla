--------------------------- MODULE HitSorterProofs ---------------------------
(***************************************************************************)
(* Both sorting nodes implement OrderedStream, for every set of time       *)
(* stamps, every disorder bound, inspection interval and stream length.    *)
(*                                                                         *)
(* The argument: a hit is written by an inspection only if it is more than *)
(* DequeueTime older than a hit that was read (WrittenIsSafe), and the     *)
(* stream's disorder keeps everything still to come within DequeueTime of  *)
(* all that was read.  Once the end token was read nothing is to come.     *)
(*                                                                         *)
(* The abstract stream of hits keeps time order by itself, and so do both. *)
(***************************************************************************)
EXTENDS HitSorter, TLAPS

\* What is written while the stream runs is out of reach of later hits.
WrittenIsSafe ==
    pc \in {"read", "drain"} =>
        \A w \in Written : \E g \in arrived : w.toa < g.toa - DequeueTime

\* Arrival numbers do not exceed the counter, so the next one is fresh.
Numbered == \A h \in arrived : h.id <= processed

Inv ==
    /\ TypeOK
    /\ NothingLost
    /\ HeapNotEmptyInDrain
    /\ WrittenIsSafe
    /\ Numbered
    /\ pc = "closed" => queue = {}

LEMMA HitsTyped == \A h \in Hits : h.toa \in Int /\ h.id \in Int
<1>1. SUFFICES ASSUME NEW h \in Hits PROVE h.toa \in Int /\ h.id \in Int
  OBVIOUS
<1>2. h.toa \in Toas /\ h.id \in 1..MaxHits
  BY DEF Hits
<1>3. \A n \in 1..MaxHits : n \in Int
  BY SorterAssumption
<1>4. \A t \in Toas : t \in Int
  BY SorterAssumption
<1>5. QED
  BY <1>2, <1>3, <1>4

\* Writing a hit adds it to what was written.
LEMMA WrittenAppend ==
  ASSUME TypeOK, NEW h \in Hits, output' = Append(output, h)
  PROVE  /\ Written' = Written \cup {h}
         /\ output' \in Seq(Hits)
<1>1. /\ output \in Seq(Hits)
      /\ output' \in Seq(Hits)
      /\ DOMAIN output = 1..Len(output)
      /\ Len(output) \in Nat
      /\ DOMAIN output' = 1..(Len(output) + 1)
      /\ output'[Len(output) + 1] = h
      /\ \A i \in DOMAIN output : output'[i] = output[i]
  BY DEF TypeOK
<1>2. \A i \in DOMAIN output' : i \in DOMAIN output \/ i = Len(output) + 1
  BY <1>1
<1>3. Len(output) + 1 \in DOMAIN output' /\ DOMAIN output \subseteq DOMAIN output'
  BY <1>1
<1>4. QED
  BY <1>1, <1>2, <1>3 DEF Written

LEMMA InitInv == Init => Inv
<1>1. SUFFICES ASSUME Init PROVE Inv
  OBVIOUS
<1>2. output \in Seq(Hits) /\ Written = {}
  BY <1>1 DEF Init, Written
<1>3. TypeOK
  BY <1>1, <1>2, SorterAssumption DEF Init, TypeOK, NoHit
<1>4. QED
  BY <1>1, <1>2, <1>3
     DEF Init, Inv, NothingLost, HeapNotEmptyInDrain, WrittenIsSafe, Numbered

\* The hit that is read is a new one.
LEMMA ReadHitFresh ==
  ASSUME Inv, NEW toa \in Toas, ReadHit(toa)
  PROVE  /\ hit' \in Hits
         /\ hit'.toa = toa
         /\ hit'.id = processed + 1
         /\ hit' \notin arrived
<1>1. hit' = [id |-> processed + 1, toa |-> toa] /\ processed + 1 \in 1..MaxHits
  BY SorterAssumption DEF ReadHit, Inv, TypeOK
<1>2. hit' \in Hits /\ hit'.toa = toa /\ hit'.id = processed + 1
  BY <1>1 DEF Hits
<1>3. processed \in Int
  BY DEF Inv, TypeOK
<1>4. QED
  BY <1>2, <1>3 DEF Inv, Numbered

LEMMA ReadHitInv ==
  ASSUME Inv, NEW toa \in Toas, ReadHit(toa)
  PROVE  Inv'
<1>1. /\ hit' \in Hits
      /\ hit'.id = processed + 1
      /\ hit' \notin arrived
  BY ReadHitFresh
<1>2. /\ Written' = Written
      /\ queue' = queue \cup {hit'}
      /\ arrived' = arrived \cup {hit'}
      /\ processed' = processed + 1
      /\ pc' \in {"read", "drain"}
      /\ pc = "read"
  BY DEF ReadHit, Written
<1>3. TypeOK'
  BY <1>1, <1>2, SorterAssumption DEF Inv, TypeOK, ReadHit
<1>4. NothingLost'
  BY <1>1, <1>2 DEF Inv, NothingLost
<1>5. HeapNotEmptyInDrain'
  BY <1>2 DEF HeapNotEmptyInDrain
<1>6. WrittenIsSafe'
  BY <1>2 DEF Inv, WrittenIsSafe
<1>7. Numbered'
  <2>1. \A h \in arrived : h \in Hits
    BY DEF Inv, TypeOK
  <2>2. QED
    BY <1>1, <1>2, <2>1, HitsTyped DEF Inv, TypeOK, Numbered
<1>8. QED
  BY <1>2, <1>3, <1>4, <1>5, <1>6, <1>7 DEF Inv

\* A drained or flushed hit goes from the heap to the output.
LEMMA PopMoves ==
  ASSUME Inv, NEW h \in queue, Pop(h), UNCHANGED arrived
  PROVE  /\ h \in Hits
         /\ Written' = Written \cup {h}
         /\ output' \in Seq(Hits)
         /\ queue' \subseteq Hits
         /\ NothingLost'
<1>1. h \in Hits
  BY DEF Inv, TypeOK
<1>2. Written' = Written \cup {h} /\ output' \in Seq(Hits)
  BY <1>1, WrittenAppend DEF Inv, Pop
<1>3. QED
  BY <1>1, <1>2 DEF Inv, TypeOK, Pop, NothingLost

LEMMA DrainHitInv ==
  ASSUME Inv, NEW h \in queue, DrainHit(h)
  PROVE  Inv'
<1>1. Pop(h) /\ UNCHANGED <<node, pc, processed, hit, arrived>> /\ pc = "drain" /\ TooOld(h)
  BY DEF DrainHit
<1>2. /\ h \in Hits
      /\ Written' = Written \cup {h}
      /\ output' \in Seq(Hits)
      /\ queue' \subseteq Hits
      /\ NothingLost'
  BY <1>1, PopMoves
<1>3. hit \in queue /\ hit \in arrived /\ hit \in Hits
  BY <1>1 DEF Inv, HeapNotEmptyInDrain, NothingLost, TypeOK
<1>4. TypeOK'
  BY <1>1, <1>2 DEF Inv, TypeOK
<1>5. HeapNotEmptyInDrain'
  <2>1. hit # h
    BY <1>1, <1>3, HitsTyped, SorterAssumption DEF TooOld
  <2>2. QED
    BY <1>1, <1>3, <2>1 DEF Pop, HeapNotEmptyInDrain
<1>6. WrittenIsSafe'
  BY <1>1, <1>2, <1>3 DEF TooOld, Inv, WrittenIsSafe
<1>7. Numbered'
  BY <1>1 DEF Inv, Numbered
<1>8. QED
  BY <1>1, <1>2, <1>4, <1>5, <1>6, <1>7 DEF Inv

LEMMA FlushHitInv ==
  ASSUME Inv, NEW h \in queue, FlushHit(h)
  PROVE  Inv'
<1>1. Pop(h) /\ UNCHANGED <<node, pc, processed, hit, arrived>> /\ pc = "flush"
  BY DEF FlushHit
<1>2. /\ output' \in Seq(Hits)
      /\ queue' \subseteq Hits
      /\ NothingLost'
  BY <1>1, PopMoves
<1>3. TypeOK'
  BY <1>1, <1>2 DEF Inv, TypeOK
<1>4. HeapNotEmptyInDrain' /\ WrittenIsSafe'
  BY <1>1 DEF HeapNotEmptyInDrain, WrittenIsSafe
<1>5. Numbered'
  BY <1>1 DEF Inv, Numbered
<1>6. QED
  BY <1>1, <1>2, <1>3, <1>4, <1>5 DEF Inv

\* The steps that only move the control keep the invariant.
LEMMA ControlInv ==
  ASSUME Inv,
         \/ \E h \in queue : DrainStop(h)
         \/ ReadEnd
         \/ Close
         \/ UNCHANGED vars
  PROVE  Inv'
<1>1. /\ UNCHANGED <<node, processed, hit, queue, output, arrived>>
      /\ pc' \in {"read", "drain", "flush", "closed"}
      /\ pc' = "drain" => pc = "drain"
      /\ pc' = "read" => pc \in {"read", "drain"}
      /\ pc' = "closed" => queue = {}
  BY DEF DrainStop, ReadEnd, Close, vars, Inv, TypeOK
<1>2. Written' = Written
  BY <1>1 DEF Written
<1>3. TypeOK'
  BY <1>1 DEF Inv, TypeOK
<1>4. NothingLost' /\ Numbered'
  BY <1>1, <1>2 DEF Inv, NothingLost, Numbered
<1>5. HeapNotEmptyInDrain' /\ WrittenIsSafe'
  BY <1>1, <1>2 DEF Inv, HeapNotEmptyInDrain, WrittenIsSafe
<1>6. QED
  BY <1>1, <1>3, <1>4, <1>5 DEF Inv

(***************************************************************************)
(* The invariant of the sorting nodes.                                     *)
(***************************************************************************)
THEOREM SorterInvariant == Spec => []Inv
<1>1. Inv /\ [Next]_vars => Inv'
  <2>1. SUFFICES ASSUME Inv, [Next]_vars PROVE Inv'
    OBVIOUS
  <2>2. CASE \E toa \in Toas : ReadHit(toa)
    BY <2>1, <2>2, ReadHitInv
  <2>3. CASE \E h \in queue : DrainHit(h)
    BY <2>1, <2>3, DrainHitInv
  <2>4. CASE \E h \in queue : FlushHit(h)
    BY <2>1, <2>4, FlushHitInv
  <2>5. CASE \/ \E h \in queue : DrainStop(h)
             \/ ReadEnd \/ Close \/ Finished \/ UNCHANGED vars
    BY <2>1, <2>5, ControlInv DEF Finished
  <2>6. QED
    BY <2>1, <2>2, <2>3, <2>4, <2>5 DEF Next, Step
<1>2. QED
  BY InitInv, <1>1, PTL DEF Spec

\* Types, and the hits read are split between the heap and the output.
THEOREM SorterSafe == Spec => [](TypeOK /\ NothingLost)
<1>1. Inv => TypeOK /\ NothingLost
  BY DEF Inv
<1>2. QED
  BY SorterInvariant, <1>1, PTL

\* The drain loop of a sorting node never asks an empty heap for its top: hits
\* too old are popped only while one that is not too old is behind them.
THEOREM SorterHeapNotEmptyInDrain == Spec => []HeapNotEmptyInDrain
<1>1. Inv => HeapNotEmptyInDrain
  BY DEF Inv
<1>2. QED
  BY SorterInvariant, <1>1, PTL

-----------------------------------------------------------------------------
LEMMA PendingIsQueue == Inv => Stream!Pending = queue /\ Stream!Emitted = Written
  BY DEF Inv, NothingLost, Stream!Pending, Stream!Emitted, Written

LEMMA InitRefines == Init => Stream!Init
  BY DEF Init, Stream!Init

LEMMA ReadHitRefines ==
  ASSUME Inv, NEW toa \in Toas, ReadHit(toa)
  PROVE  Stream!Next
<1>1. /\ hit' \in Hits
      /\ hit'.toa = toa
      /\ hit' \notin arrived
  BY ReadHitFresh
<1>2. /\ pc = "read"
      /\ pc' \in {"read", "drain"}
      /\ arrived' = arrived \cup {hit'}
      /\ output' = output
      /\ WithinDisorder(toa)
  BY DEF ReadHit
<1>3. ASSUME NEW w \in Written
      PROVE  w.toa <= toa
  <2>1. PICK g \in arrived : w.toa < g.toa - DequeueTime
    BY <1>2 DEF Inv, WrittenIsSafe
  <2>2. g.toa - DequeueTime <= toa
    BY <1>2 DEF WithinDisorder
  <2>3. w \in Hits /\ g \in Hits
    BY DEF Inv, NothingLost, TypeOK
  <2>4. w.toa \in Int /\ g.toa \in Int /\ toa \in Int /\ DequeueTime \in Int
    BY <2>3, HitsTyped, SorterAssumption
  <2>5. QED
    BY <2>1, <2>2, <2>4
<1>4. Stream!Accept(hit')
  BY <1>1, <1>2, <1>3, PendingIsQueue DEF Stream!Accept
<1>5. QED
  BY <1>1, <1>4 DEF Stream!Next

LEMMA PopRefines ==
  ASSUME Inv, NEW h \in queue, DrainHit(h) \/ FlushHit(h)
  PROVE  Stream!Next
<1>1. /\ h \in Hits
      /\ pc \in {"drain", "flush"}
      /\ UNCHANGED <<pc, arrived>>
      /\ output' = Append(output, h)
      /\ \A g \in queue : h.toa <= g.toa
  BY DEF DrainHit, FlushHit, Pop, IsTop, Inv, TypeOK
<1>2. Stream!Emit(h)
  BY <1>1, PendingIsQueue DEF Stream!Emit
<1>3. QED
  BY <1>1, <1>2 DEF Stream!Next

LEMMA CloseRefines ==
  ASSUME Inv, Close
  PROVE  Stream!Next
<1>1. Stream!End
  BY PendingIsQueue DEF Close, Stream!End
<1>2. QED
  BY <1>1 DEF Stream!Next

LEMMA ControlRefines ==
  ASSUME Inv, (\E h \in queue : DrainStop(h)) \/ ReadEnd \/ UNCHANGED vars
  PROVE  UNCHANGED Stream!vars
  BY DEF DrainStop, ReadEnd, vars, Stream!vars

(***************************************************************************)
(* hit_sorter and the sorting adapter keep the promise of OrderedStream:   *)
(* every hit of a stream whose disorder is at most DequeueTime is handed   *)
(* on once, in time order, and none is held back at the end token.         *)
(***************************************************************************)
THEOREM SorterImplementsOrderedStream == Spec => ImplementsOrderedStream
<1>1. Inv /\ [Next]_vars => [Stream!Next]_(Stream!vars)
  <2>1. SUFFICES ASSUME Inv, [Next]_vars PROVE [Stream!Next]_(Stream!vars)
    OBVIOUS
  <2>2. CASE \E toa \in Toas : ReadHit(toa)
    BY <2>1, <2>2, ReadHitRefines
  <2>3. CASE \E h \in queue : DrainHit(h) \/ FlushHit(h)
    BY <2>1, <2>3, PopRefines
  <2>4. CASE Close
    BY <2>1, <2>4, CloseRefines
  <2>5. CASE (\E h \in queue : DrainStop(h)) \/ ReadEnd \/ Finished \/ UNCHANGED vars
    BY <2>1, <2>5, ControlRefines DEF Finished
  <2>6. QED
    BY <2>1, <2>2, <2>3, <2>4, <2>5 DEF Next, Step
<1>2. QED
  BY SorterInvariant, InitRefines, <1>1, PTL DEF Spec, ImplementsOrderedStream, Stream!Spec

-----------------------------------------------------------------------------
(***************************************************************************)
(* Whatever implements OrderedStream hands its items on in time order and  *)
(* each once.  The invariant has to say more than the order of what was    *)
(* handed on: Frontier, that nothing pending is earlier, is what keeps the *)
(* order when the next item is appended.                                   *)
(***************************************************************************)
StreamInv ==
    /\ Stream!TypeOK
    /\ Stream!Sorted
    /\ Stream!EmittedOnce
    /\ Stream!Complete
    /\ Stream!Frontier

LEMMA StreamInit == Stream!Init => StreamInv
<1>1. SUFFICES ASSUME Stream!Init PROVE StreamInv
  OBVIOUS
<1>2. output \in Seq(Hits) /\ DOMAIN output = {} /\ Stream!Emitted = {}
  BY <1>1 DEF Stream!Init, Stream!Emitted
<1>3. Stream!TypeOK
  BY <1>1, <1>2 DEF Stream!Init, Stream!TypeOK
<1>4. Stream!Sorted /\ Stream!EmittedOnce
  BY <1>2 DEF Stream!Sorted, Stream!EmittedOnce
<1>5. Stream!Complete /\ Stream!Frontier
  BY <1>1, <1>2 DEF Stream!Init, Stream!Complete, Stream!Frontier
<1>6. QED
  BY <1>3, <1>4, <1>5 DEF StreamInv

\* Appending an item adds exactly that item to what was output.
LEMMA EmittedAppend ==
  ASSUME NEW s \in Seq(Hits), NEW h \in Hits
  PROVE  LET t == Append(s, h) IN
           /\ t \in Seq(Hits)
           /\ DOMAIN s = 1..Len(s)
           /\ DOMAIN t = 1..(Len(s) + 1)
           /\ \A i \in DOMAIN s : t[i] = s[i]
           /\ t[Len(s) + 1] = h
           /\ {t[i] : i \in DOMAIN t} = {s[i] : i \in DOMAIN s} \cup {h}
<1> DEFINE t == Append(s, h)
<1>1. /\ t \in Seq(Hits)
      /\ DOMAIN s = 1..Len(s)
      /\ Len(s) \in Nat
      /\ DOMAIN t = 1..(Len(s) + 1)
      /\ t[Len(s) + 1] = h
  OBVIOUS
<1>2. \A i \in DOMAIN s : t[i] = s[i]
  OBVIOUS
<1>3. {t[i] : i \in DOMAIN t} = {s[i] : i \in DOMAIN s} \cup {h}
  <2> HIDE DEF t
  <2>1. \A i \in DOMAIN t : i \in DOMAIN s \/ i = Len(s) + 1
    BY <1>1
  <2>2. Len(s) + 1 \in DOMAIN t /\ \A i \in DOMAIN s : i \in DOMAIN t
    BY <1>1
  <2>3. QED
    BY <1>1, <1>2, <2>1, <2>2
<1>4. QED
  BY <1>1, <1>2, <1>3

LEMMA StreamAccept ==
  ASSUME StreamInv, NEW h \in Hits, Stream!Accept(h)
  PROVE  StreamInv'
<1>1. Stream!Emitted' = Stream!Emitted /\ Stream!Emitted \subseteq arrived
  BY DEF Stream!Accept, Stream!Emitted, StreamInv, Stream!EmittedOnce
<1>2. Stream!Pending' = Stream!Pending \cup {h}
  BY <1>1 DEF Stream!Accept, Stream!Pending
<1>3. Stream!TypeOK'
  BY DEF StreamInv, Stream!TypeOK, Stream!Accept
<1>4. Stream!Sorted'
  BY DEF StreamInv, Stream!Sorted, Stream!Accept
<1>5. Stream!EmittedOnce'
  BY <1>1 DEF StreamInv, Stream!EmittedOnce, Stream!Accept
<1>6. Stream!Complete'
  BY DEF Stream!Complete, Stream!Accept
<1>7. Stream!Frontier'
  BY <1>1, <1>2 DEF StreamInv, Stream!Frontier, Stream!Accept
<1>8. QED
  BY <1>3, <1>4, <1>5, <1>6, <1>7 DEF StreamInv

LEMMA StreamEmit ==
  ASSUME StreamInv, NEW h \in Hits, Stream!Emit(h)
  PROVE  StreamInv'
<1> DEFINE n == Len(output)
<1>1. /\ output \in Seq(Hits)
      /\ output' = Append(output, h)
      /\ h \in arrived
      /\ h \notin Stream!Emitted
      /\ h \in Stream!Pending
      /\ \A p \in Stream!Pending : h.toa <= p.toa
  BY DEF Stream!Emit, StreamInv, Stream!TypeOK, Stream!Pending
<1>2. /\ output' \in Seq(Hits)
      /\ DOMAIN output = 1..n
      /\ DOMAIN output' = 1..(n + 1)
      /\ \A i \in DOMAIN output : output'[i] = output[i]
      /\ output'[n + 1] = h
      /\ n \in Nat
  BY <1>1, EmittedAppend
<1>3. Stream!Emitted' = Stream!Emitted \cup {h}
  BY <1>1, EmittedAppend DEF Stream!Emitted
<1>4. Stream!Pending' = Stream!Pending \ {h}
  BY <1>3 DEF Stream!Emit, Stream!Pending
<1>5. \A e \in Stream!Emitted : e.toa <= h.toa
  BY <1>1 DEF StreamInv, Stream!Frontier
<1>6. \A i \in DOMAIN output : output[i] \in Stream!Emitted
  BY DEF Stream!Emitted
<1>7. Stream!TypeOK'
  BY <1>2 DEF Stream!Emit, StreamInv, Stream!TypeOK
<1>8. Stream!Sorted'
  <2>1. SUFFICES ASSUME NEW i \in 1..(n + 1), NEW j \in 1..(n + 1), i < j
                 PROVE  output'[i].toa <= output'[j].toa
    BY <1>2 DEF Stream!Sorted
  <2>2. CASE j \in 1..n
    BY <2>1, <2>2, <1>2 DEF StreamInv, Stream!Sorted
  <2>3. CASE j = n + 1 /\ i \in 1..n
    BY <2>3, <1>2, <1>5, <1>6
  <2>4. CASE j = n + 1 /\ i = n + 1
    BY <2>1, <2>4, <1>1
  <2>5. QED
    BY <2>1, <2>2, <2>3, <2>4, <1>2
<1>9. Stream!EmittedOnce'
  <2>1. Stream!Emitted' \subseteq arrived'
    BY <1>1, <1>3 DEF Stream!Emit, StreamInv, Stream!EmittedOnce
  <2>2. ASSUME NEW i \in 1..(n + 1), NEW j \in 1..(n + 1), output'[i] = output'[j]
        PROVE  i = j
    <3>1. CASE i \in 1..n /\ j \in 1..n
      BY <2>2, <3>1, <1>2 DEF StreamInv, Stream!EmittedOnce
    <3>2. CASE i = n + 1 /\ j \in 1..n
      BY <2>2, <3>2, <1>1, <1>2, <1>6
    <3>3. CASE j = n + 1 /\ i \in 1..n
      BY <2>2, <3>3, <1>1, <1>2, <1>6
    <3>4. QED
      BY <1>2, <2>2, <3>1, <3>2, <3>3
  <2>3. QED
    BY <2>1, <2>2, <1>2 DEF Stream!EmittedOnce
<1>10. Stream!Complete'
  BY DEF Stream!Emit, Stream!Complete
<1>11. Stream!Frontier'
  BY <1>1, <1>3, <1>4 DEF StreamInv, Stream!Frontier
<1>12. QED
  BY <1>7, <1>8, <1>9, <1>10, <1>11 DEF StreamInv

LEMMA StreamEnd ==
  ASSUME StreamInv, Stream!End
  PROVE  StreamInv'
<1>1. Stream!Emitted' = Stream!Emitted /\ Stream!Pending' = Stream!Pending
  BY DEF Stream!End, Stream!Emitted, Stream!Pending
<1>2. Stream!Complete'
  BY <1>1 DEF Stream!End, Stream!Complete, Stream!Pending, StreamInv, Stream!EmittedOnce
<1>3. Stream!TypeOK' /\ Stream!Sorted' /\ Stream!EmittedOnce' /\ Stream!Frontier'
  BY <1>1 DEF Stream!End, StreamInv, Stream!TypeOK, Stream!Sorted, Stream!EmittedOnce, Stream!Frontier
<1>4. QED
  BY <1>2, <1>3 DEF StreamInv

LEMMA StreamStutter ==
  ASSUME StreamInv, UNCHANGED Stream!vars
  PROVE  StreamInv'
  BY DEF Stream!vars, StreamInv, Stream!TypeOK, Stream!Sorted, Stream!EmittedOnce, Stream!Complete, Stream!Frontier, Stream!Emitted, Stream!Pending

(***************************************************************************)
(* Every behaviour of the specification keeps the invariant; in            *)
(* particular the stream that is handed on is sorted by time, holds every  *)
(* item at most once, and is complete when the end token follows.          *)
(***************************************************************************)
THEOREM StreamInvariant == Stream!Spec => []StreamInv
<1>1. StreamInv /\ [Stream!Next]_(Stream!vars) => StreamInv'
  BY StreamAccept, StreamEmit, StreamEnd, StreamStutter DEF Stream!Next
<1>2. QED
  BY StreamInit, <1>1, PTL DEF Stream!Spec

\* What is handed on is in time order.
THEOREM StreamSorted == Stream!Spec => []Stream!Sorted
<1>1. StreamInv => Stream!Sorted
  BY DEF StreamInv
<1>2. QED
  BY StreamInvariant, <1>1, PTL

(***************************************************************************)
(* The clusterer behind a sorting node reads hits in time order: what      *)
(* OrderedStream guarantees, carried over by the refinement.               *)
(***************************************************************************)
THEOREM SorterOutputSorted == Spec => []OutputSorted
<1>1. Stream!Sorted <=> OutputSorted
  BY DEF OutputSorted
<1>2. QED
  BY SorterImplementsOrderedStream, StreamSorted, <1>1, PTL DEF ImplementsOrderedStream
=============================================================================
