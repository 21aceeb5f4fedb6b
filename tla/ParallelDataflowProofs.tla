------------------------ MODULE ParallelDataflowProofs ------------------------
(***************************************************************************)
(* The dataflow graph for any number of lanes, any size of block and any   *)
(* stream: the combiner hands on what the source read, each item once and  *)
(* in time order; it never looks into an empty block; and the bytes a pipe *)
(* counts cover what is in its queue.  The last section is about the       *)
(* threads of such a graph and the controller that joins them.             *)
(***************************************************************************)
EXTENDS ParallelDataflow, FiniteSetTheorems, WellFoundedInduction, TLAPS

\* The threads at the two ends of a pipe.
WriterOf(p) == IF p[1] = "in" THEN 0 ELSE p[2]
ReaderOf(p) == IF p[1] = "in" THEN p[2] ELSE Combiner

Entries(s) == {s[k] : k \in DOMAIN s}

-----------------------------------------------------------------------------
(***************************************************************************)
(* What a thread still has to do: every write, every account and every     *)
(* enqueue is for a pipe of its own; the bytes of a block are counted      *)
(* right before the block is enqueued; no pipe is written to twice.        *)
(***************************************************************************)
Paired(a) ==
    \A k \in DOMAIN a :
        /\ a[k].op = "account" =>
              k + 1 \in DOMAIN a /\ a[k + 1].op = "enqueue" /\ a[k + 1].pipe = a[k].pipe
        /\ a[k].op = "enqueue" /\ k > 1 =>
              a[k - 1].op = "account" /\ a[k - 1].pipe = a[k].pipe

OneWrite(a) ==
    \A k, l \in DOMAIN a :
        /\ a[k].op = "write"
        /\ a[l].op = "write"
        /\ a[k].pipe = a[l].pipe
        => k = l

GoodAgenda(n, a) ==
    /\ \A k \in DOMAIN a : WriterOf(a[k].pipe) = n
    /\ Paired(a)
    /\ OneWrite(a)

AgendasHold == \A n \in Producers : GoodAgenda(n, agenda[n])

-----------------------------------------------------------------------------
(***************************************************************************)
(* The order of a lane.  What is on its way through a lane is in one of    *)
(* ten places, from what the combiner handed on (0) over the two pipes     *)
(* (1 to 4 out of the worker, 5 to 8 into it) to what the source has not   *)
(* read yet (9).  A step takes the first of what is in a place to the      *)
(* place before it, and so the end token stays behind every item.          *)
(***************************************************************************)
Ord(x) == IF IsEnd(x) THEN MaxItems + 1 ELSE x.id

Handed(i) == {x \in Entries(output) : PipeIndex(x) = i}
                \cup {x \in {End} : pc[Combiner] = "done" /\ i = 1}

ToCome(i) == {x \in Entries(input) : IsEnd(x) \/ PipeIndex(x) = i}

WritesIn(a, p) ==
    {a[k].item : k \in {l \in DOMAIN a : a[l].op = "write" /\ a[l].pipe = p}}

Writes(p) == WritesIn(agenda[WriterOf(p)], p)

InBlocks(q) == UNION {Entries(q[k]) : k \in DOMAIN q}

Queued(p) == InBlocks(queue[p])

PipePart(p, k) ==
    IF k = 1 THEN Entries(rblock[p]) ELSE
    IF k = 2 THEN Queued(p) ELSE
    IF k = 3 THEN Entries(wblock[p]) ELSE Writes(p)

Part(i, s) ==
    IF s = 0 THEN Handed(i) ELSE
    IF s = 9 THEN ToCome(i) ELSE
    IF s <= 4 THEN PipePart(Out(i), s) ELSE PipePart(In(i), s - 4)

LaneOrdered(i) ==
    \A s, t \in 0..9 : s < t =>
        \A x \in Part(i, s), y \in Part(i, t) : Ord(x) < Ord(y)

\* Nothing strays from its lane, and the end token is somewhere in it.
InLane(i) ==
    /\ \A s \in 0..9 : \A x \in Part(i, s) :
            x \in Items \cup {End} /\ (IsEnd(x) \/ PipeIndex(x) = i)
    /\ \E s \in 0..9 : End \in Part(i, s)

\* What the source has read is on its way or handed on, and nothing else is.
NothingLost(i) ==
    /\ \A x \in read : PipeIndex(x) = i => \E s \in 0..8 : x \in Part(i, s)
    /\ \A s \in 0..8 : \A x \in Part(i, s) : IsEnd(x) \/ x \in read

\* A thread returns only when the end token has passed it.
EndsPassed(i) ==
    /\ pc[i] = "done" => \E s \in 0..4 : End \in Part(i, s)
    /\ pc[Combiner] = "done" => \E s \in 0..1 : End \in Part(i, s)

LanesHold ==
    \A i \in Lane : LaneOrdered(i) /\ InLane(i) /\ NothingLost(i) /\ EndsPassed(i)

\* Each block holds its items in their order, and so do the blocks of a queue.
Strict(s) == \A k, l \in DOMAIN s : k < l => Ord(s[k]) < Ord(s[l])

StrictQueue(q) ==
    /\ \A k \in DOMAIN q : Strict(q[k])
    /\ \A k, l \in DOMAIN q : k < l =>
          \A x \in Entries(q[k]), y \in Entries(q[l]) : Ord(x) < Ord(y)

BlocksHold ==
    \A p \in Pipes : Strict(rblock[p]) /\ StrictQueue(queue[p]) /\ Strict(wblock[p])

\* The stream comes in time order, and ends with the end token.
StreamHolds ==
    /\ Strict(input)
    /\ input # <<>> => End \in Entries(input)
    /\ \A x \in read, y \in Entries(input) : Ord(x) < Ord(y)
    /\ \A x, y \in read \cup Entries(input) : Ord(x) <= Ord(y) => x.toa <= y.toa

OrderHolds == AgendasHold /\ LanesHold /\ BlocksHold /\ StreamHolds

-----------------------------------------------------------------------------
(***************************************************************************)
(* Empty blocks.  The only block that is enqueued empty is the one close() *)
(* flushes after the end token has filled and flushed its block; the       *)
(* combiner finds the end token before it.                                 *)
(***************************************************************************)
EndIn(s) == End \in Entries(s)

\* The end token left the worker's block for the combiner.
EndSent(p) ==
    \/ pc[Combiner] = "done"
    \/ EndIn(rblock[p])
    \/ \E k \in DOMAIN queue[p] : EndIn(queue[p][k])

\* Flushing once more than the one flush of a block that is full.
Twice(p) == {<<Account(p), Enqueue(p), Account(p), Enqueue(p)>>,
             <<Enqueue(p), Account(p), Enqueue(p)>>}
Once(p) == {<<Account(p), Enqueue(p)>>, <<Enqueue(p)>>}
Writing(p) == {<<>>} \cup {<<Write(p, x)>> : x \in Items}
Closing(p) == {<<Write(p, End), Account(p), Enqueue(p)>>}

WorkerAgenda(p, a) ==
    /\ a \in Writing(p) \cup Closing(p) \cup Once(p) \cup Twice(p)
    /\ a \in Twice(p) => EndIn(wblock[p])
    /\ a \in Once(p) => wblock[p] # <<>> \/ EndSent(p)

EmptyAfterEnd(p) ==
    \A k \in DOMAIN queue[p] : queue[p][k] = <<>> =>
        \/ pc[Combiner] = "done"
        \/ EndIn(rblock[p])
        \/ \E j \in 1..(k - 1) : EndIn(queue[p][j])

PeeksHold ==
    /\ \A i \in Lane : WorkerAgenda(Out(i), agenda[i]) /\ EmptyAfterEnd(Out(i))
    /\ \A n \in Consumers : ReaderOf(reading[n]) = n
    /\ pc[Combiner] = "settle" => rblock[reading[Combiner]] # <<>>
    /\ pc[Combiner] # "undefined"

-----------------------------------------------------------------------------
(***************************************************************************)
(* The bytes of a pipe.  Counted are the blocks in its queue, the block    *)
(* about to be enqueued, and the block dequeued and not settled yet.       *)
(***************************************************************************)
Announced(p) ==
    LET a == agenda[WriterOf(p)]
    IN  IF a # <<>> /\ Head(a).op = "enqueue" /\ Head(a).pipe = p
        THEN Bytes(wblock[p]) ELSE 0

Unsettled(p) ==
    IF pc[ReaderOf(p)] = "settle" /\ reading[ReaderOf(p)] = p
    THEN Bytes(rblock[p]) ELSE 0

BytesHold ==
    \A p \in Pipes :
        bytesUsed[p] = QueueBytes(queue[p]) + Announced(p) + Unsettled(p)

-----------------------------------------------------------------------------
(***************************************************************************)
(* Sums.                                                                   *)
(***************************************************************************)

\* Induction over the naturals, for a set: a set of them has a least member.
LEMMA Induction ==
  ASSUME NEW S, 0 \in S, \A n \in Nat : n \in S => n + 1 \in S
  PROVE  Nat \subseteq S
<1> DEFINE T == {n \in Nat : n \notin S}
           F == {0..m : m \in T}
<1>1. SUFFICES ASSUME T # {} PROVE FALSE
  OBVIOUS
<1>2. PICK m \in T : \A k \in T : m <= k
  <2>1. F \subseteq FiniteSubsetsOf(Nat)
    <3>1. \A m \in T : 0..m \subseteq Nat /\ IsFiniteSet(0..m)
      BY FS_Interval
    <3>2. QED
      BY <3>1 DEF FiniteSubsetsOf
  <2>2. F # {}
    BY <1>1
  <2>3. PICK x \in F : \A y \in F : <<y, x>> \notin StrictSubsetOrdering(Nat)
    <3> HIDE DEF F
    <3>1. QED
      BY <2>1, <2>2, FS_StrictSubsetOrderingWellFounded, WFMin
  <2>4. PICK m \in T : x = 0..m
    BY <2>3
  <2>5. ASSUME NEW k \in T, ~(m <= k) PROVE FALSE
    <3>1. k \in Nat /\ m \in Nat /\ k < m
      BY <2>5
    <3>2. 0..k \subseteq 0..m /\ m \notin 0..k /\ m \in 0..m /\ 0..k \subseteq Nat /\ 0..m \subseteq Nat
      BY <3>1
    <3>3. 0..k \in F
      OBVIOUS
    <3>4. <<0..k, 0..m>> \in StrictSubsetOrdering(Nat)
      BY <3>2 DEF StrictSubsetOrdering
    <3>5. QED
      BY <3>3, <3>4, <2>3, <2>4
  <2>6. QED
    BY <2>5
<1>3. m # 0 /\ m - 1 \in Nat
  BY <1>2
<1>4. m - 1 \in S
  BY <1>2, <1>3
<1>5. QED
  BY <1>2, <1>3, <1>4

\* The sums of the first numbers of a sequence.
SumsTo(s, n, f) ==
    /\ f[0] = 0
    /\ \A k \in 1..n : f[k] = f[k - 1] + s[k]

Sums(s, f) ==
    /\ f \in [0..Len(s) -> Nat]
    /\ SumsTo(s, Len(s), f)

LEMMA SumsUnique ==
  ASSUME NEW s \in Seq(Nat), NEW f, NEW g, NEW m \in Nat,
         SumsTo(s, m, f), SumsTo(s, m, g)
  PROVE  \A k \in 0..m : f[k] = g[k]
<1> DEFINE S == {n \in Nat : n <= m => f[n] = g[n]}
<1>1. 0 \in S
  BY DEF SumsTo
<1>2. ASSUME NEW n \in Nat, n \in S PROVE n + 1 \in S
  <2>1. CASE n + 1 <= m
    <3>1. n + 1 \in 1..m /\ (n + 1) - 1 = n /\ n <= m
      BY <2>1
    <3>2. f[n + 1] = f[n] + s[n + 1] /\ g[n + 1] = g[n] + s[n + 1] /\ f[n] = g[n]
      BY <3>1, <1>2 DEF SumsTo
    <3>3. QED
      BY <3>2
  <2>2. QED
    BY <2>1
<1>3. Nat \subseteq S
  <2> HIDE DEF S
  <2>1. QED
    BY <1>1, <1>2, Induction
<1>4. QED
  BY <1>3

LEMMA SumsExist ==
  ASSUME NEW s \in Seq(Nat)
  PROVE  \E f : Sums(s, f)
<1> DEFINE P(n, f) == f \in [0..n -> Nat] /\ SumsTo(s, n, f)
           S == {n \in Nat : n <= Len(s) => \E f : P(n, f)}
<1>1. 0 \in S
  <2>1. P(0, [k \in 0..0 |-> 0])
    BY DEF SumsTo
  <2> HIDE DEF P
  <2>2. QED
    BY <2>1
<1>2. ASSUME NEW n \in Nat, n \in S PROVE n + 1 \in S
  <2>1. CASE n + 1 <= Len(s)
    <3>1. PICK f : P(n, f)
      <4> HIDE DEF P
      <4>1. QED
        BY <1>2, <2>1
    <3>2. s[n + 1] \in Nat /\ f[n] \in Nat
      BY <2>1, <3>1
    <3> DEFINE g == [k \in 0..(n + 1) |-> IF k = n + 1 THEN f[n] + s[n + 1] ELSE f[k]]
    <3>3. g \in [0..(n + 1) -> Nat]
      BY <3>1, <3>2
    <3>4. g[0] = 0 /\ \A k \in 0..n : g[k] = f[k]
      BY <3>1 DEF SumsTo
    <3>5. g[n + 1] = g[n] + s[n + 1]
      BY <3>4
    <3>6. ASSUME NEW k \in 1..(n + 1) PROVE g[k] = g[k - 1] + s[k]
      <4>1. CASE k = n + 1
        BY <4>1, <3>5
      <4>2. CASE k # n + 1
        <5>1. k \in 1..n /\ k \in 0..n /\ k - 1 \in 0..n
          BY <4>2
        <5>2. f[k] = f[k - 1] + s[k]
          BY <5>1, <3>1 DEF SumsTo
        <5>3. QED
          BY <5>1, <5>2, <3>4
      <4>3. QED
        BY <4>1, <4>2
    <3> HIDE DEF g
    <3>7. P(n + 1, g)
      BY <3>3, <3>4, <3>6 DEF SumsTo
    <3> HIDE DEF P
    <3>8. QED
      BY <3>7
  <2> HIDE DEF P
  <2>2. QED
    BY <2>1
<1>3. Nat \subseteq S
  <2> HIDE DEF S
  <2>1. QED
    BY <1>1, <1>2, Induction
<1>4. Len(s) \in Nat
  OBVIOUS
<1>5. \E f : P(Len(s), f)
  <2> HIDE DEF P
  <2>1. QED
    BY <1>3, <1>4
<1>6. QED
  BY <1>5 DEF Sums

\* The recursive function SumOf is defined by gives these sums.
LEMMA SumOfSums ==
  ASSUME NEW s \in Seq(Nat), NEW f, Sums(s, f)
  PROVE  SumOf(s) = f[Len(s)]
<1> DEFINE Rule(g) == [k \in 0..Len(s) |-> IF k = 0 THEN 0 ELSE g[k - 1] + s[k]]
           sum == CHOOSE g : g = Rule(g)
<1>1. Len(s) \in Nat
  OBVIOUS
<1>2. f = Rule(f)
  BY <1>1 DEF Sums, SumsTo
<1>3. sum = Rule(sum)
  BY <1>2
<1>4. SumsTo(s, Len(s), sum)
  <2> HIDE DEF sum
  <2>1. \A k \in 0..Len(s) : sum[k] = IF k = 0 THEN 0 ELSE sum[k - 1] + s[k]
    BY <1>3
  <2>2. 0 \in 0..Len(s) /\ \A k \in 1..Len(s) : k \in 0..Len(s) /\ k # 0
    BY <1>1
  <2>3. QED
    BY <2>1, <2>2 DEF SumsTo
<1>5. \A k \in 0..Len(s) : sum[k] = f[k]
  <2> HIDE DEF sum
  <2>1. QED
    BY <1>1, <1>4, SumsUnique DEF Sums
<1>6. SumOf(s) = sum[Len(s)]
  BY DEF SumOf
<1>7. QED
  BY <1>1, <1>5, <1>6

LEMMA SumEmpty == SumOf(<<>>) = 0
<1>1. << >> \in Seq(Nat) /\ Len(<< >>) = 0
  OBVIOUS
<1>2. PICK f : Sums(<< >>, f)
  BY <1>1, SumsExist
<1>3. QED
  BY <1>1, <1>2, SumOfSums DEF Sums, SumsTo

LEMMA SumNat ==
  ASSUME NEW s \in Seq(Nat)
  PROVE  SumOf(s) \in Nat
<1>1. PICK f : Sums(s, f)
  BY SumsExist
<1>2. QED
  BY <1>1, SumOfSums DEF Sums, SumsTo

LEMMA SumAppend ==
  ASSUME NEW s \in Seq(Nat), NEW x \in Nat
  PROVE  SumOf(Append(s, x)) = SumOf(s) + x
<1> DEFINE t == Append(s, x)
           n == Len(s)
<1>1. /\ t \in Seq(Nat)
      /\ n \in Nat
      /\ Len(t) = n + 1
      /\ \A k \in 1..n : t[k] = s[k]
      /\ t[n + 1] = x
  OBVIOUS
<1>2. PICK f : Sums(t, f)
  BY <1>1, SumsExist
<1>3. PICK g : Sums(s, g)
  BY SumsExist
<1> HIDE DEF t
<1>4. \A k \in 0..n : f[k] = g[k]
  <2>1. SumsTo(s, n, f)
    BY <1>1, <1>2 DEF Sums, SumsTo
  <2>2. SumsTo(s, n, g)
    BY <1>3 DEF Sums
  <2>3. QED
    BY <1>1, <2>1, <2>2, SumsUnique
<1>5. f[n + 1] = f[(n + 1) - 1] + t[n + 1] /\ (n + 1) - 1 = n
  BY <1>1, <1>2 DEF Sums, SumsTo
<1>6. SumOf(t) = f[n + 1] /\ SumOf(s) = g[n]
  BY <1>1, <1>2, <1>3, SumOfSums
<1>7. f[n] = g[n]
  BY <1>1, <1>4
<1>8. QED
  BY <1>1, <1>5, <1>6, <1>7 DEF t

LEMMA SumTail ==
  ASSUME NEW s \in Seq(Nat), s # <<>>
  PROVE  SumOf(s) = Head(s) + SumOf(Tail(s))
<1> DEFINE t == Tail(s)
           n == Len(s)
           h == Head(s)
<1>1. /\ t \in Seq(Nat)
      /\ n \in Nat \ {0}
      /\ Len(t) = n - 1
      /\ \A k \in 1..(n - 1) : t[k] = s[k + 1]
      /\ h = s[1] /\ h \in Nat
  OBVIOUS
<1>2. PICK f : Sums(s, f)
  BY SumsExist
<1>3. PICK g : Sums(t, g)
  BY <1>1, SumsExist
<1> HIDE DEF t, h
<1> DEFINE e == [k \in 0..n |-> IF k = 0 THEN 0 ELSE h + g[k - 1]]
<1>4. e[0] = 0 /\ \A k \in 1..n : e[k] = h + g[k - 1]
  BY <1>1
<1>5. ASSUME NEW k \in 1..n PROVE e[k] = e[k - 1] + s[k]
  <2>1. CASE k = 1
    <3>1. e[1] = h + g[0] /\ g[0] = 0 /\ e[0] = 0 /\ s[1] = h
      BY <2>1, <1>1, <1>3, <1>4 DEF Sums, SumsTo
    <3>2. QED
      BY <3>1, <2>1, <1>1
  <2>2. CASE k # 1
    <3>1. k - 1 \in 1..n /\ k - 1 \in 1..(n - 1) /\ (k - 1) + 1 = k
      BY <2>2, <1>1
    <3>2. e[k] = h + g[k - 1] /\ e[k - 1] = h + g[(k - 1) - 1]
      BY <3>1, <1>4
    <3>3. g[k - 1] = g[(k - 1) - 1] + t[k - 1] /\ t[k - 1] = s[k]
      <4>1. t[k - 1] = s[(k - 1) + 1]
        BY <3>1, <1>1
      <4>2. QED
        BY <3>1, <4>1, <1>1, <1>3 DEF Sums, SumsTo
    <3>4. g[k - 1] \in Nat /\ g[(k - 1) - 1] \in Nat /\ s[k] \in Nat
      <4>1. k - 1 \in 0..(n - 1) /\ (k - 1) - 1 \in 0..(n - 1)
        BY <3>1, <1>1
      <4>2. g \in [0..(n - 1) -> Nat]
        BY <1>1, <1>3 DEF Sums
      <4>3. s[k] \in Nat
        OBVIOUS
      <4>4. QED
        BY <4>1, <4>2, <4>3
    <3>5. QED
      BY <3>2, <3>3, <3>4, <1>1
  <2>3. QED
    BY <2>1, <2>2
<1>6. \A k \in 0..n : f[k] = e[k]
  <2> HIDE DEF e
  <2>1. SumsTo(s, n, f) /\ SumsTo(s, n, e)
    BY <1>2, <1>4, <1>5 DEF Sums, SumsTo
  <2>2. QED
    BY <1>1, <2>1, SumsUnique
<1>7. SumOf(s) = f[n] /\ SumOf(t) = g[n - 1]
  BY <1>1, <1>2, <1>3, SumOfSums
<1>8. f[n] = h + g[n - 1]
  BY <1>1, <1>4, <1>6
<1>9. QED
  BY <1>7, <1>8 DEF t, h

\* A sum of nothing but zeros.
LEMMA SumZero ==
  ASSUME NEW s \in Seq(Nat), \A k \in 1..Len(s) : s[k] = 0
  PROVE  SumOf(s) = 0
<1> DEFINE z == [k \in 0..Len(s) |-> 0]
<1>1. Len(s) \in Nat
  OBVIOUS
<1>2. Sums(s, z)
  BY <1>1 DEF Sums, SumsTo
<1>3. z[Len(s)] = 0
  BY <1>1
<1>4. QED
  BY <1>2, <1>3, SumOfSums

-----------------------------------------------------------------------------
(***************************************************************************)
(* Types.                                                                  *)
(***************************************************************************)
LEMMA Sizes ==
  /\ Lanes \in Nat \ {0} /\ SwitchLen \in Nat \ {0}
  /\ Capacity \in Nat \ {0} /\ ItemSize \in Nat \ {0} /\ EndSize \in Nat \ {0}
  /\ MaxTime \in Nat /\ MaxItems \in Nat
  /\ 1 \in Lane /\ 0 \in Producers
  /\ Combiner \in Consumers /\ Combiner \notin Lane
  /\ \A i \in Lane : i \in Producers /\ i \in Consumers /\ i \in Nat /\ i # 0
  BY DataflowAssumption DEF Lane, Producers, Consumers, Combiner

\* The pipes, and the threads at their ends.
LEMMA PipeEnds ==
  /\ \A i \in Lane : /\ In(i) \in Pipes /\ WriterOf(In(i)) = 0 /\ ReaderOf(In(i)) = i
                     /\ Out(i) \in Pipes /\ WriterOf(Out(i)) = i
                     /\ ReaderOf(Out(i)) = Combiner
  /\ \A i, j \in Lane : In(i) # Out(j)
  /\ \A i, j \in Lane : In(i) = In(j) => i = j
  /\ \A i, j \in Lane : Out(i) = Out(j) => i = j
  /\ \A p \in Pipes : WriterOf(p) \in Producers /\ ReaderOf(p) \in Consumers
  /\ \A p \in Pipes : \E i \in Lane : p = In(i) \/ p = Out(i)
<1>1. \A i \in Lane : In(i) \in Pipes /\ Out(i) \in Pipes
  BY DEF Pipes, In, Out
<1>2. \A i \in Lane : /\ WriterOf(In(i)) = 0 /\ ReaderOf(In(i)) = i
                      /\ WriterOf(Out(i)) = i /\ ReaderOf(Out(i)) = Combiner
  BY DEF In, Out, WriterOf, ReaderOf
<1>3. \A i, j \in Lane : In(i) # Out(j)
  BY DEF In, Out
<1>4. \A i, j \in Lane : (In(i) = In(j) => i = j) /\ (Out(i) = Out(j) => i = j)
  BY DEF In, Out
<1>5. \A p \in Pipes : \E i \in Lane : p = In(i) \/ p = Out(i)
  BY DEF Pipes, In, Out
<1>6. \A p \in Pipes : WriterOf(p) \in Producers /\ ReaderOf(p) \in Consumers
  BY <1>2, <1>5, Sizes
<1>7. QED
  BY <1>1, <1>2, <1>3, <1>4, <1>5, <1>6

\* The lane an item is for.
LEMMA Division ==
  ASSUME NEW r \in Nat, NEW s \in Nat \ {0}, NEW n \in Nat \ {0}, r < n * s
  PROVE  r \div s \in 0..(n - 1)
<1> DEFINE q == r \div s
<1>1. q \in Nat
  OBVIOUS
<1>2. r = s * q + (r % s) /\ r % s \in 0..(s - 1)
  OBVIOUS
<1>3. ASSUME q >= n PROVE FALSE
  <2> HIDE DEF q
  <2>1. PICK d \in Nat : q = n + d
    <3>1. q - n \in Nat /\ q = n + (q - n)
      BY <1>1, <1>3
    <3>2. QED
      BY <3>1
  <2>2. s * q = n * s + s * d
    BY <2>1
  <2>3. s * d \in Nat /\ n * s \in Nat
    BY <2>1
  <2> DEFINE a == s * q  b == n * s  c == s * d
  <2>4. a = b + c /\ b \in Nat /\ c \in Nat /\ r = a + (r % s) /\ r < b /\ r % s \in Nat
    BY <1>2, <2>2, <2>3
  <2> HIDE DEF a, b, c
  <2>5. QED
    BY <2>4
<1>4. QED
  <2> HIDE DEF q
  <2>1. q \in 0..(n - 1)
    BY <1>1, <1>3
  <2>2. QED
    BY <2>1 DEF q

LEMMA PipeIndexType ==
  ASSUME NEW x \in Items
  PROVE  PipeIndex(x) \in Lane
<1> DEFINE m == Lanes * SwitchLen
           r == x.toa % m
<1>1. m \in Nat \ {0}
  BY Sizes
<1>2. x.toa \in Nat
  BY Sizes DEF Items
<1>3. r \in Nat /\ r < m
  <2> HIDE DEF m
  <2>1. QED
    BY <1>1, <1>2
<1>4. r \div SwitchLen \in 0..(Lanes - 1)
  <2> HIDE DEF r
  <2>1. QED
    BY <1>3, Sizes, Division
<1>5. PipeIndex(x) = (r \div SwitchLen) + 1
  BY DEF PipeIndex
<1>6. QED
  <2> HIDE DEF r
  <2>1. QED
    BY <1>4, <1>5, Sizes DEF Lane

\* An item, and the end token.
LEMMA Tokens ==
  /\ IsEnd(End) /\ End \notin Items
  /\ \A x \in Items : ~IsEnd(x)
  /\ \A x \in Items \cup {End} : IsEnd(x) => x = End
  /\ \A x \in Items : Ord(x) = x.id /\ Ord(x) \in 1..MaxItems
  /\ Ord(End) = MaxItems + 1
  /\ \A x \in Items \cup {End} : Ord(x) \in 1..(MaxItems + 1)
<1>1. \A x \in Items : x.id \in 1..MaxItems
  BY DEF Items
<1>2. End.id = 0
  BY DEF End
<1>3. QED
  BY <1>1, <1>2, Sizes DEF IsEnd, Ord

LEMMA BytesType ==
  /\ Bytes(<<>>) = 0
  /\ \A b \in Blocks : Bytes(b) \in Nat
<1>1. Bytes(<<>>) = 0
  <2>1. [k \in 1..Len(<<>>) |-> Size(<<>>[k])] = <<>>
    OBVIOUS
  <2>2. QED
    BY <2>1, SumEmpty DEF Bytes
<1>2. ASSUME NEW b \in Blocks PROVE Bytes(b) \in Nat
  <2>1. Len(b) \in Nat /\ \A k \in 1..Len(b) : Size(b[k]) \in Nat
    BY Sizes DEF Size, Blocks
  <2>2. [k \in 1..Len(b) |-> Size(b[k])] \in Seq(Nat)
    BY <2>1
  <2>3. QED
    BY <2>2, SumNat DEF Bytes
<1>3. QED
  BY <1>1, <1>2

LEMMA OperationTypes ==
  ASSUME NEW p \in Pipes, NEW x \in Items \cup {End}
  PROVE  /\ Write(p, x) \in Operations
         /\ Account(p) \in Operations /\ Enqueue(p) \in Operations
         /\ Flush(p) \in Seq(Operations)
  BY DEF Write, Account, Enqueue, Operations, Flush

LEMMA OutPipesType ==
  ASSUME NEW n \in Producers
  PROVE  /\ OutPipes(n) \in Seq(Pipes)
         /\ \A k \in 1..Len(OutPipes(n)) : WriterOf(OutPipes(n)[k]) = n
         /\ \A k, l \in 1..Len(OutPipes(n)) : OutPipes(n)[k] = OutPipes(n)[l] => k = l
<1>1. CASE n = 0
  <2>1. OutPipes(n) = [i \in 1..Lanes |-> In(i)]
    BY <1>1 DEF OutPipes, Lane
  <2>2. OutPipes(n) \in Seq(Pipes) /\ Len(OutPipes(n)) = Lanes
    BY <2>1, Sizes, PipeEnds DEF Lane
  <2>3. QED
    BY <1>1, <2>1, <2>2, PipeEnds DEF Lane
<1>2. CASE n # 0
  <2>1. n \in Lane /\ OutPipes(n) = <<Out(n)>>
    BY <1>2 DEF OutPipes, Producers, Lane
  <2>2. QED
    BY <2>1, PipeEnds
<1>3. QED
  BY <1>1, <1>2

\* The operations close() has for the k-th of some pipes.
LEMMA CloseOps ==
  ASSUME NEW q \in Seq(Pipes)
  PROVE  /\ Close(q) \in Seq(Operations)
         /\ Len(Close(q)) = 3 * Len(q)
         /\ \A k \in 1..Len(q) : /\ Close(q)[3 * k - 2] = Write(q[k], End)
                                 /\ Close(q)[3 * k - 1] = Account(q[k])
                                 /\ Close(q)[3 * k] = Enqueue(q[k])
         /\ \A l \in 1..(3 * Len(q)) : \E k \in 1..Len(q) :
                l = 3 * k - 2 \/ l = 3 * k - 1 \/ l = 3 * k
<1> DEFINE n == Len(q)
           Three(p) == <<Write(p, End)>> \o Flush(p)
           Op(l) == Three(q[(l + 2) \div 3])[((l + 2) % 3) + 1]
<1>1. n \in Nat
  OBVIOUS
<1>2. ASSUME NEW p \in Pipes
      PROVE  Three(p)[1] = Write(p, End) /\ Three(p)[2] = Account(p) /\ Three(p)[3] = Enqueue(p)
  <2>1. End \in Items \cup {End}
    OBVIOUS
  <2>2. <<Write(p, End)>> \in Seq(Operations) /\ Flush(p) \in Seq(Operations)
    BY <2>1, OperationTypes
  <2>3. Len(<<Write(p, End)>>) = 1 /\ Len(Flush(p)) = 2 /\ Flush(p)[1] = Account(p) /\ Flush(p)[2] = Enqueue(p)
    BY DEF Flush
  <2>4. QED
    BY <2>2, <2>3
<1>3. ASSUME NEW k \in 1..n
      PROVE  /\ Op(3 * k - 2) = Write(q[k], End)
             /\ Op(3 * k - 1) = Account(q[k])
             /\ Op(3 * k) = Enqueue(q[k])
  <2> HIDE DEF Three
  <2>1. q[k] \in Pipes
    OBVIOUS
  <2>2. k \in Int
    BY <1>1
  <2>3. /\ ((3 * k - 2) + 2) \div 3 = k /\ (((3 * k - 2) + 2) % 3) + 1 = 1
        /\ ((3 * k - 1) + 2) \div 3 = k /\ (((3 * k - 1) + 2) % 3) + 1 = 2
        /\ (3 * k + 2) \div 3 = k /\ ((3 * k + 2) % 3) + 1 = 3
    BY <2>2
  <2>4. Op(3 * k - 2) = Three(q[k])[1] /\ Op(3 * k - 1) = Three(q[k])[2] /\ Op(3 * k) = Three(q[k])[3]
    BY <2>3
  <2>5. QED
    BY <1>2, <2>1, <2>4
<1>4. ASSUME NEW l \in 1..(3 * n)
      PROVE  \E k \in 1..n : l = 3 * k - 2 \/ l = 3 * k - 1 \/ l = 3 * k
  <2> DEFINE k == (l + 2) \div 3
  <2>1. k \in 1..n /\ (l = 3 * k - 2 \/ l = 3 * k - 1 \/ l = 3 * k)
    BY <1>1
  <2> HIDE DEF k
  <2>2. QED
    BY <2>1
<1>5. Close(q) = [l \in 1..(3 * n) |-> Op(l)]
  BY DEF Close
<1>6. ASSUME NEW l \in 1..(3 * n) PROVE Op(l) \in Operations
  <2>1. PICK k \in 1..n : l = 3 * k - 2 \/ l = 3 * k - 1 \/ l = 3 * k
    BY <1>4
  <2>2. q[k] \in Pipes /\ End \in Items \cup {End}
    OBVIOUS
  <2>3. /\ Write(q[k], End) \in Operations /\ Account(q[k]) \in Operations
        /\ Enqueue(q[k]) \in Operations
    BY <2>2, OperationTypes
  <2> HIDE DEF Op
  <2>4. QED
    BY <1>3, <2>1, <2>3
<1> HIDE DEF Op
<1>7. Close(q) \in Seq(Operations) /\ Len(Close(q)) = 3 * n
  BY <1>1, <1>5, <1>6
<1>8. \A k \in 1..n : 3 * k - 2 \in 1..(3 * n) /\ 3 * k - 1 \in 1..(3 * n) /\ 3 * k \in 1..(3 * n)
  BY <1>1
<1>9. \A k \in 1..n : /\ Close(q)[3 * k - 2] = Write(q[k], End)
                      /\ Close(q)[3 * k - 1] = Account(q[k])
                      /\ Close(q)[3 * k] = Enqueue(q[k])
  BY <1>3, <1>5, <1>8
<1>10. QED
  BY <1>4, <1>7, <1>9

\* The steps of all threads, by what they do.
LEMMA Steps ==
  ASSUME [Next]_vars
  PROVE  \/ SourceRead
         \/ \E n \in Producers : DoWrite(n) \/ DoAccount(n) \/ DoEnqueue(n)
         \/ \E n \in Consumers, p \in Pipes : Dequeue(n, p)
         \/ \E n \in Consumers : Settle(n)
         \/ \E n \in Lane : WorkerRead(n)
         \/ \E i \in Lane : CombinerRead(i)
         \/ CombinerEnd
         \/ UNCHANGED vars
<1>1. CASE Source
  BY <1>1, Sizes DEF Source, Produce
<1>2. ASSUME NEW n \in Lane, Worker(n)
      PROVE  \/ DoWrite(n) \/ DoAccount(n) \/ DoEnqueue(n)
             \/ WorkerRead(n) \/ (\E p \in Pipes : Dequeue(n, p)) \/ Settle(n)
  BY <1>2 DEF Worker, Produce
<1>3. CASE Combine
  BY <1>3, Sizes DEF Combine
<1>4. QED
  BY <1>1, <1>2, <1>3, Sizes DEF Next, Finished

LEMMA TypeInit == Init => TypeOK
<1> SUFFICES ASSUME Init PROVE TypeOK
  OBVIOUS
<1>1. input \in Blocks
  <2>1. PICK n \in 0..MaxItems : \E t \in SortedTimes(n) :
            input = [i \in 1..n |-> [id |-> i, toa |-> t[i]]] \o <<End>>
    BY DEF Init
  <2>1a. PICK t \in SortedTimes(n) : input = [i \in 1..n |-> [id |-> i, toa |-> t[i]]] \o <<End>>
    BY <2>1
  <2>2. n \in Nat /\ \A i \in 1..n : i \in 1..MaxItems /\ t[i] \in 0..MaxTime
    BY <2>1a, Sizes DEF SortedTimes
  <2> DEFINE s == [i \in 1..n |-> [id |-> i, toa |-> t[i]]]
  <2>3. s \in Seq(Items)
    BY <2>2 DEF Items
  <2> HIDE DEF s
  <2>4. s \in Seq(Items \cup {End}) /\ <<End>> \in Seq(Items \cup {End})
    BY <2>3
  <2>5. s \o <<End>> \in Seq(Items \cup {End})
    BY <2>4
  <2>6. QED
    BY <2>1a, <2>5 DEF s, Blocks
<1>2. \A n \in Consumers : InPipes(n)[1] \in Pipes
  <2>1. \A n \in Consumers : n # Combiner => n \in Lane
    BY Sizes DEF Consumers, Combiner, Lane
  <2>2. \A n \in Consumers : InPipes(n)[1] = IF n = Combiner THEN Out(1) ELSE In(n)
    BY Sizes DEF InPipes
  <2>3. QED
    BY <2>1, <2>2, PipeEnds, Sizes
<1>3. <<>> \in Blocks /\ <<>> \in Seq(Blocks) /\ <<>> \in Seq(Operations) /\ <<>> \in Seq(Items)
  BY DEF Blocks
<1>4. QED
  BY <1>1, <1>2, <1>3 DEF Init, TypeOK

LEMMA TypeStep ==
  ASSUME TypeOK, [Next]_vars
  PROVE  TypeOK'
<1> USE DEF TypeOK
<1>1. CASE SourceRead
  <2>1. input # <<>> /\ input \in Seq(Items \cup {End})
    BY <1>1 DEF SourceRead, Blocks
  <2>2. Head(input) \in Items \cup {End} /\ Tail(input) \in Blocks
    BY <2>1 DEF Blocks
  <2>3. input' \in Blocks
    BY <1>1, <2>2 DEF SourceRead
  <2>4. agenda' \in [Producers -> Seq(Operations)] /\ read' \subseteq Items
    <3> DEFINE x == Head(input)
    <3>1. CASE IsEnd(x)
      <4>1. Close(OutPipes(0)) \in Seq(Operations)
        BY Sizes, OutPipesType, CloseOps
      <4>2. QED
        BY <1>1, <3>1, <4>1 DEF SourceRead
    <3>2. CASE ~IsEnd(x)
      <4>1. x \in Items
        BY <2>2, <3>2, Tokens
      <4>2. In(PipeIndex(x)) \in Pipes
        BY <4>1, PipeIndexType, PipeEnds
      <4>3. <<Write(In(PipeIndex(x)), x)>> \in Seq(Operations)
        BY <4>1, <4>2, OperationTypes
      <4>4. QED
        BY <1>1, <3>2, <4>1, <4>3 DEF SourceRead
    <3>3. QED
      BY <3>1, <3>2
  <2>5. QED
    BY <1>1, <2>3, <2>4 DEF SourceRead
<1>2. ASSUME NEW n \in Producers, DoWrite(n) \/ DoAccount(n) \/ DoEnqueue(n)
      PROVE  TypeOK'
  <2>1. agenda[n] \in Seq(Operations) /\ agenda[n] # <<>>
    BY <1>2 DEF DoWrite, DoAccount, DoEnqueue
  <2>2. Head(agenda[n]) \in Operations /\ Tail(agenda[n]) \in Seq(Operations)
    BY <2>1
  <2> DEFINE todo == Head(agenda[n])
  <2>3. todo.pipe \in Pipes /\ todo.item \in Items \cup {End}
    BY <2>2 DEF Operations
  <2>4. wblock[todo.pipe] \in Blocks /\ queue[todo.pipe] \in Seq(Blocks)
    BY <2>3
  <2>5. CASE DoWrite(n)
    <3> DEFINE block == Append(wblock[todo.pipe], todo.item)
               flush == IF Bytes(block) < Capacity THEN <<>> ELSE Flush(todo.pipe)
    <3>1. block \in Blocks
      BY <2>3, <2>4 DEF Blocks
    <3>2. flush \in Seq(Operations)
      BY <2>3, OperationTypes
    <3>3. flush \o Tail(agenda[n]) \in Seq(Operations)
      <4> HIDE DEF flush
      <4>1. QED
        BY <2>2, <3>2
    <3>4. wblock' \in [Pipes -> Blocks]
      BY <2>5, <2>3, <3>1 DEF DoWrite
    <3>5. agenda' \in [Producers -> Seq(Operations)]
      BY <2>5, <3>3 DEF DoWrite
    <3>6. QED
      BY <2>5, <3>4, <3>5 DEF DoWrite
  <2>6. CASE DoAccount(n)
    <3>1. agenda' \in [Producers -> Seq(Operations)]
      BY <2>2, <2>6 DEF DoAccount
    <3>2. bytesUsed' \in [Pipes -> Int]
      BY <2>3, <2>4, <2>6, BytesType DEF DoAccount
    <3>3. QED
      BY <2>6, <3>1, <3>2 DEF DoAccount
  <2>7. CASE DoEnqueue(n)
    <3>1. agenda' \in [Producers -> Seq(Operations)]
      BY <2>2, <2>7 DEF DoEnqueue
    <3>2. Append(queue[todo.pipe], wblock[todo.pipe]) \in Seq(Blocks) /\ <<>> \in Blocks
      BY <2>4 DEF Blocks
    <3>3. queue' \in [Pipes -> Seq(Blocks)] /\ wblock' \in [Pipes -> Blocks]
      BY <2>3, <2>7, <3>2 DEF DoEnqueue
    <3>4. QED
      BY <2>7, <3>1, <3>3 DEF DoEnqueue
  <2>8. QED
    BY <1>2, <2>5, <2>6, <2>7
<1>3. ASSUME NEW n \in Consumers, NEW p \in Pipes, Dequeue(n, p)
      PROVE  TypeOK'
  <2>1. queue[p] \in Seq(Blocks) /\ queue[p] # <<>>
    BY <1>3 DEF Dequeue
  <2>2. Head(queue[p]) \in Blocks /\ Tail(queue[p]) \in Seq(Blocks)
    BY <2>1
  <2>3. QED
    BY <1>3, <2>2 DEF Dequeue
<1>4. ASSUME NEW n \in Consumers, Settle(n)
      PROVE  TypeOK'
  <2>1. reading[n] \in Pipes /\ rblock[reading[n]] \in Blocks
    OBVIOUS
  <2>2. QED
    BY <1>4, <2>1, BytesType DEF Settle
<1>5. ASSUME NEW n \in Lane, WorkerRead(n)
      PROVE  TypeOK'
  <2> DEFINE p == In(n)
             x == Head(rblock[p])
             todo == IF IsEnd(x) THEN Close(OutPipes(n)) ELSE <<Write(Out(n), x)>>
  <2>1. p \in Pipes /\ n \in Producers /\ n \in Consumers /\ Out(n) \in Pipes
    BY PipeEnds, Sizes
  <2>2. rblock[p] \in Seq(Items \cup {End}) /\ rblock[p] # <<>>
    BY <1>5, <2>1 DEF WorkerRead, Blocks
  <2>3. x \in Items \cup {End} /\ Tail(rblock[p]) \in Blocks
    BY <2>2 DEF Blocks
  <2>4. todo \in Seq(Operations)
    <3>1. Close(OutPipes(n)) \in Seq(Operations)
      BY <2>1, OutPipesType, CloseOps
    <3>2. <<Write(Out(n), x)>> \in Seq(Operations)
      BY <2>1, <2>3, OperationTypes
    <3>3. QED
      BY <3>1, <3>2
  <2>5. agenda' \in [Producers -> Seq(Operations)]
    BY <1>5, <2>1, <2>4 DEF WorkerRead
  <2>6. rblock' \in [Pipes -> Blocks]
    BY <1>5, <2>1, <2>3 DEF WorkerRead
  <2>7. pc' \in [Consumers -> {"read", "settle", "done", "undefined"}]
    BY <1>5, <2>1 DEF WorkerRead
  <2>8. QED
    BY <1>5, <2>5, <2>6, <2>7 DEF WorkerRead
<1>6. ASSUME NEW i \in Lane, CombinerRead(i)
      PROVE  TypeOK'
  <2>1. Out(i) \in Pipes /\ rblock[Out(i)] \in Seq(Items \cup {End}) /\ rblock[Out(i)] # <<>>
    BY <1>6, PipeEnds DEF CombinerRead, CombinerSeesAll, Blocks
  <2>2. Head(rblock[Out(i)]) \in Items \cup {End} /\ Tail(rblock[Out(i)]) \in Blocks
    BY <2>1 DEF Blocks
  <2>3. Head(rblock[Out(i)]) \in Items
    BY <1>6, <2>2, Tokens DEF CombinerRead, IsEarliest
  <2>4. QED
    BY <1>6, <2>1, <2>2, <2>3 DEF CombinerRead
<1>7. CASE CombinerEnd
  <2>1. Out(1) \in Pipes /\ rblock[Out(1)] \in Seq(Items \cup {End}) /\ rblock[Out(1)] # <<>>
    BY <1>7, PipeEnds, Sizes DEF CombinerEnd, CombinerSeesAll, Blocks
  <2>2. Tail(rblock[Out(1)]) \in Blocks
    BY <2>1 DEF Blocks
  <2>3. QED
    BY <1>7, <2>1, <2>2, Sizes DEF CombinerEnd
<1>8. CASE UNCHANGED vars
  BY <1>8 DEF vars
<1>9. QED
  BY Steps, <1>1, <1>2, <1>3, <1>4, <1>5, <1>6, <1>7, <1>8

\* Every step keeps the types.
THEOREM DataflowTypeOK == Spec => []TypeOK
  BY TypeInit, TypeStep, PTL DEF Spec

-----------------------------------------------------------------------------
(***************************************************************************)
(* Agendas.                                                                *)
(***************************************************************************)
LEMMA EntriesFacts ==
  ASSUME NEW S, NEW s \in Seq(S)
  PROVE  /\ \A k \in DOMAIN s : s[k] \in Entries(s)
         /\ \A x \in Entries(s) : x \in S /\ \E k \in DOMAIN s : x = s[k]
         /\ \A k \in DOMAIN s : s[k] \in S /\ k \in Nat \ {0}
         /\ Entries(<<>>) = {}
         /\ s = <<>> <=> Entries(s) = {}
         /\ s = <<>> <=> DOMAIN s = {}
<1>1. s = <<>> <=> DOMAIN s = {}
  OBVIOUS
<1>2. \A k \in DOMAIN s : s[k] \in S /\ k \in Nat \ {0}
  OBVIOUS
<1>3. DOMAIN s = {} <=> Entries(s) = {}
  BY DEF Entries
<1>4. Entries(<<>>) = {}
  BY DEF Entries
<1>5. QED
  BY <1>1, <1>2, <1>3, <1>4 DEF Entries

LEMMA Concatenation ==
  ASSUME NEW S, NEW s \in Seq(S), NEW t \in Seq(S)
  PROVE  /\ s \o t \in Seq(S)
         /\ Len(s \o t) = Len(s) + Len(t)
         /\ DOMAIN (s \o t) = 1..(Len(s) + Len(t))
         /\ \A k \in 1..Len(s) : (s \o t)[k] = s[k]
         /\ \A k \in 1..Len(t) : (s \o t)[Len(s) + k] = t[k]
<1>1. s \o t \in Seq(S) /\ Len(s \o t) = Len(s) + Len(t)
  OBVIOUS
<1>2. DOMAIN (s \o t) = 1..(Len(s) + Len(t))
  BY <1>1
<1>3. \A k \in 1..Len(s) : (s \o t)[k] = s[k]
  OBVIOUS
<1>4. \A k \in 1..Len(t) : (s \o t)[Len(s) + k] = t[k]
  OBVIOUS
<1>5. QED
  BY <1>1, <1>2, <1>3, <1>4

LEMMA AppendEntries ==
  ASSUME NEW S, NEW s \in Seq(S), NEW x \in S
  PROVE  /\ Append(s, x) \in Seq(S)
         /\ DOMAIN Append(s, x) = DOMAIN s \cup {Len(s) + 1}
         /\ \A k \in DOMAIN s : k < Len(s) + 1 /\ Append(s, x)[k] = s[k]
         /\ Append(s, x)[Len(s) + 1] = x
         /\ Entries(Append(s, x)) = Entries(s) \cup {x}
<1> DEFINE t == Append(s, x)
           n == Len(s)
<1>1. /\ t \in Seq(S)
      /\ n \in Nat
      /\ DOMAIN s = 1..n
      /\ DOMAIN t = 1..(n + 1)
      /\ \A k \in 1..n : t[k] = s[k]
      /\ t[n + 1] = x
  OBVIOUS
<1> HIDE DEF t, n
<1>2. DOMAIN t = DOMAIN s \cup {n + 1} /\ \A k \in DOMAIN s : k < n + 1
  BY <1>1
<1>3. Entries(t) = Entries(s) \cup {x}
  BY <1>1, <1>2 DEF Entries
<1>4. QED
  BY <1>1, <1>2, <1>3 DEF t, n

LEMMA TailEntries ==
  ASSUME NEW S, NEW s \in Seq(S), s # <<>>
  PROVE  /\ Head(s) \in S /\ Tail(s) \in Seq(S) /\ Head(s) = s[1] /\ 1 \in DOMAIN s
         /\ \A k \in DOMAIN Tail(s) : k + 1 \in DOMAIN s /\ Tail(s)[k] = s[k + 1]
         /\ \A k \in DOMAIN s : k # 1 => k - 1 \in DOMAIN Tail(s) /\ Tail(s)[k - 1] = s[k]
         /\ Entries(s) = Entries(Tail(s)) \cup {Head(s)}
<1> DEFINE t == Tail(s)
           n == Len(s)
<1>1. /\ t \in Seq(S)
      /\ n \in Nat \ {0}
      /\ DOMAIN s = 1..n
      /\ DOMAIN t = 1..(n - 1)
      /\ \A k \in 1..(n - 1) : t[k] = s[k + 1]
      /\ Head(s) = s[1] /\ s[1] \in S
  OBVIOUS
<1> HIDE DEF t, n
<1>2. \A k \in DOMAIN t : k + 1 \in DOMAIN s /\ t[k] = s[k + 1]
  BY <1>1
<1>3. \A k \in DOMAIN s : k # 1 => k - 1 \in DOMAIN t /\ t[k - 1] = s[k]
  <2>1. SUFFICES ASSUME NEW k \in DOMAIN s, k # 1
                 PROVE  k - 1 \in DOMAIN t /\ t[k - 1] = s[k]
    OBVIOUS
  <2>2. k - 1 \in 1..(n - 1) /\ (k - 1) + 1 = k
    BY <1>1, <2>1
  <2>3. t[k - 1] = s[(k - 1) + 1]
    BY <1>1, <2>2
  <2>4. QED
    BY <1>1, <2>2, <2>3
<1>4. 1 \in DOMAIN s
  BY <1>1
<1>5. Entries(s) = Entries(t) \cup {s[1]}
  <2>1. Entries(s) \subseteq Entries(t) \cup {s[1]}
    BY <1>3 DEF Entries
  <2>2. Entries(t) \subseteq Entries(s) /\ s[1] \in Entries(s)
    BY <1>2, <1>4 DEF Entries
  <2>3. QED
    BY <2>1, <2>2
<1>6. QED
  BY <1>1, <1>2, <1>3, <1>4, <1>5 DEF t, n

LEMMA AgendaEmpty ==
  ASSUME NEW n, NEW p
  PROVE  GoodAgenda(n, <<>>) /\ WritesIn(<<>>, p) = {}
  BY DEF GoodAgenda, Paired, OneWrite, WritesIn

LEMMA AgendaWrite ==
  ASSUME NEW q, NEW x
  PROVE  /\ GoodAgenda(WriterOf(q), <<Write(q, x)>>)
         /\ \A p : WritesIn(<<Write(q, x)>>, p) = IF p = q THEN {x} ELSE {}
<1> DEFINE a == <<Write(q, x)>>
<1>1. DOMAIN a = {1} /\ a[1].op = "write" /\ a[1].pipe = q /\ a[1].item = x
  BY DEF Write
<1> HIDE DEF a
<1>2. GoodAgenda(WriterOf(q), a)
  BY <1>1 DEF GoodAgenda, Paired, OneWrite
<1>3. \A p : WritesIn(a, p) = IF p = q THEN {x} ELSE {}
  BY <1>1 DEF WritesIn
<1>4. QED
  BY <1>2, <1>3 DEF a

LEMMA AgendaClose ==
  ASSUME NEW n \in Producers
  PROVE  /\ GoodAgenda(n, Close(OutPipes(n)))
         /\ \A p \in Pipes : WriterOf(p) = n => WritesIn(Close(OutPipes(n)), p) = {End}
<1> DEFINE q == OutPipes(n)
           a == Close(q)
           m == Len(q)
<1>1. /\ q \in Seq(Pipes) /\ m \in Nat
      /\ \A k \in 1..m : WriterOf(q[k]) = n
      /\ \A k, l \in 1..m : q[k] = q[l] => k = l
  BY OutPipesType
<1>2. \A p \in Pipes : WriterOf(p) = n => \E k \in 1..m : p = q[k]
  <2>1. CASE n = 0
    <3>1. q = [i \in 1..Lanes |-> In(i)]
      BY <2>1 DEF OutPipes, Lane
    <3>2. m = Lanes /\ \A i \in Lane : q[i] = In(i)
      BY <3>1, Sizes DEF Lane
    <3>3. \A i \in Lane : WriterOf(Out(i)) # 0
      BY PipeEnds, Sizes
    <3>4. QED
      BY <2>1, <3>2, <3>3, PipeEnds DEF Lane
  <2>2. CASE n # 0
    <3>1. q = <<Out(n)>> /\ n \in Lane
      BY <2>2 DEF OutPipes, Producers, Lane
    <3>2. m = 1 /\ q[1] = Out(n)
      BY <3>1
    <3>3. \A p \in Pipes : WriterOf(p) = n => p = Out(n)
      BY <2>2, PipeEnds
    <3>4. QED
      BY <3>2, <3>3
  <2>3. QED
    BY <2>1, <2>2
<1>3. /\ a \in Seq(Operations) /\ Len(a) = 3 * m
      /\ \A k \in 1..m : /\ a[3 * k - 2] = Write(q[k], End)
                         /\ a[3 * k - 1] = Account(q[k])
                         /\ a[3 * k] = Enqueue(q[k])
      /\ \A l \in 1..(3 * m) : \E k \in 1..m :
                l = 3 * k - 2 \/ l = 3 * k - 1 \/ l = 3 * k
  BY <1>1, CloseOps
<1>4. DOMAIN a = 1..(3 * m)
  BY <1>3
<1> HIDE DEF q, a, m
<1>5. \A k \in 1..m : 3 * k - 2 \in DOMAIN a /\ 3 * k - 1 \in DOMAIN a /\ 3 * k \in DOMAIN a
  BY <1>1, <1>4
<1>6. \A k \in 1..m : /\ a[3 * k - 2].op = "write" /\ a[3 * k - 2].pipe = q[k]
                      /\ a[3 * k - 2].item = End
                      /\ a[3 * k - 1].op = "account" /\ a[3 * k - 1].pipe = q[k]
                      /\ a[3 * k].op = "enqueue" /\ a[3 * k].pipe = q[k]
  <2>1. SUFFICES ASSUME NEW k \in 1..m
                 PROVE  /\ a[3 * k - 2].op = "write" /\ a[3 * k - 2].pipe = q[k]
                        /\ a[3 * k - 2].item = End
                        /\ a[3 * k - 1].op = "account" /\ a[3 * k - 1].pipe = q[k]
                        /\ a[3 * k].op = "enqueue" /\ a[3 * k].pipe = q[k]
    OBVIOUS
  <2>2. /\ a[3 * k - 2] = Write(q[k], End)
        /\ a[3 * k - 1] = Account(q[k])
        /\ a[3 * k] = Enqueue(q[k])
    BY <1>3
  <2>3. QED
    BY <2>2 DEF Write, Account, Enqueue
<1>7. ASSUME NEW l \in DOMAIN a
      PROVE  \E k \in 1..m : /\ l = 3 * k - 2 \/ l = 3 * k - 1 \/ l = 3 * k
                             /\ a[l].pipe = q[k]
                             /\ a[l].op = "write" => l = 3 * k - 2
                             /\ a[l].op = "account" => l = 3 * k - 1
                             /\ a[l].op = "enqueue" => l = 3 * k
  <2>1. PICK k \in 1..m : l = 3 * k - 2 \/ l = 3 * k - 1 \/ l = 3 * k
    BY <1>3, <1>4
  <2>2. QED
    BY <2>1, <1>6
<1>8. \A l \in DOMAIN a : WriterOf(a[l].pipe) = n
  BY <1>1, <1>7
<1>9. Paired(a)
  <2>1. SUFFICES ASSUME NEW l \in DOMAIN a
                 PROVE  /\ a[l].op = "account" =>
                             l + 1 \in DOMAIN a /\ a[l + 1].op = "enqueue" /\ a[l + 1].pipe = a[l].pipe
                        /\ a[l].op = "enqueue" /\ l > 1 =>
                             a[l - 1].op = "account" /\ a[l - 1].pipe = a[l].pipe
    BY DEF Paired
  <2>2. PICK k \in 1..m : /\ a[l].pipe = q[k]
                          /\ a[l].op = "account" => l = 3 * k - 1
                          /\ a[l].op = "enqueue" => l = 3 * k
    BY <1>7
  <2>3. (3 * k - 1) + 1 = 3 * k
    BY <1>1
  <2>4. QED
    BY <2>2, <2>3, <1>5, <1>6
<1>10. OneWrite(a)
  <2>1. SUFFICES ASSUME NEW l \in DOMAIN a, NEW j \in DOMAIN a,
                        a[l].op = "write", a[j].op = "write", a[l].pipe = a[j].pipe
                 PROVE  l = j
    BY DEF OneWrite
  <2>2. PICK k \in 1..m : a[l].pipe = q[k] /\ l = 3 * k - 2
    BY <1>7, <2>1
  <2>3. PICK i \in 1..m : a[j].pipe = q[i] /\ j = 3 * i - 2
    BY <1>7, <2>1
  <2>4. k = i
    BY <1>1, <2>1, <2>2, <2>3
  <2>5. QED
    BY <2>2, <2>3, <2>4
<1>11. ASSUME NEW p \in Pipes, WriterOf(p) = n
       PROVE  WritesIn(a, p) = {End}
  <2>1. PICK k \in 1..m : p = q[k]
    BY <1>2, <1>11
  <2>2. End \in WritesIn(a, p)
    BY <2>1, <1>5, <1>6 DEF WritesIn
  <2>3. ASSUME NEW l \in DOMAIN a, a[l].op = "write"
        PROVE  a[l].item = End
    <3>1. PICK i \in 1..m : l = 3 * i - 2
      BY <1>7, <2>3
    <3>2. QED
      BY <3>1, <1>6
  <2>4. QED
    BY <2>2, <2>3 DEF WritesIn
<1>12. GoodAgenda(n, a)
  BY <1>8, <1>9, <1>10 DEF GoodAgenda
<1>13. QED
  BY <1>11, <1>12 DEF a, q

LEMMA AgendaTail ==
  ASSUME NEW n, NEW a \in Seq(Operations), a # <<>>, GoodAgenda(n, a)
  PROVE  /\ GoodAgenda(n, Tail(a))
         /\ Head(a).op # "write" => \A p : WritesIn(Tail(a), p) = WritesIn(a, p)
         /\ Head(a).op = "write" =>
              /\ WritesIn(a, Head(a).pipe) = {Head(a).item}
              /\ WritesIn(Tail(a), Head(a).pipe) = {}
              /\ \A p : p # Head(a).pipe => WritesIn(Tail(a), p) = WritesIn(a, p)
              /\ Tail(a) # <<>> => Head(Tail(a)).op # "enqueue"
<1> DEFINE t == Tail(a)
           h == Head(a)
<1>1. /\ t \in Seq(Operations) /\ h = a[1] /\ 1 \in DOMAIN a
      /\ \A k \in DOMAIN t : k + 1 \in DOMAIN a /\ t[k] = a[k + 1]
      /\ \A k \in DOMAIN a : k # 1 => k - 1 \in DOMAIN t /\ t[k - 1] = a[k]
      /\ \A k \in DOMAIN t : k \in Nat \ {0}
      /\ \A k \in DOMAIN a : k \in Nat \ {0}
      /\ t # <<>> => 1 \in DOMAIN t /\ Head(t) = t[1]
  <2>1. t \in Seq(Operations)
    BY TailEntries
  <2>2. \A k \in DOMAIN t : k \in Nat \ {0}
    BY <2>1, EntriesFacts
  <2>3. t # <<>> => 1 \in DOMAIN t /\ Head(t) = t[1]
    <3> HIDE DEF t
    <3>1. QED
      BY <2>1, TailEntries
  <2>4. QED
    BY <2>2, <2>3, TailEntries, EntriesFacts
<1> HIDE DEF t, h
<1>2. \A k \in DOMAIN t : WriterOf(t[k].pipe) = n
  BY <1>1 DEF GoodAgenda
<1>3. Paired(t)
  <2>1. SUFFICES ASSUME NEW k \in DOMAIN t
                 PROVE  /\ t[k].op = "account" =>
                             k + 1 \in DOMAIN t /\ t[k + 1].op = "enqueue" /\ t[k + 1].pipe = t[k].pipe
                        /\ t[k].op = "enqueue" /\ k > 1 =>
                             t[k - 1].op = "account" /\ t[k - 1].pipe = t[k].pipe
    BY DEF Paired
  <2>2. k \in Nat \ {0} /\ k + 1 \in DOMAIN a /\ t[k] = a[k + 1]
    BY <1>1
  <2>3. ASSUME t[k].op = "account"
        PROVE  k + 1 \in DOMAIN t /\ t[k + 1].op = "enqueue" /\ t[k + 1].pipe = t[k].pipe
    <3>1. (k + 1) + 1 \in DOMAIN a /\ a[(k + 1) + 1].op = "enqueue" /\ a[(k + 1) + 1].pipe = a[k + 1].pipe
      BY <2>2, <2>3 DEF GoodAgenda, Paired
    <3>2. (k + 1) + 1 # 1 /\ ((k + 1) + 1) - 1 = k + 1
      BY <2>2
    <3>3. k + 1 \in DOMAIN t /\ t[k + 1] = a[(k + 1) + 1]
      BY <3>1, <3>2, <1>1
    <3>4. QED
      BY <2>2, <3>1, <3>3
  <2>4. ASSUME t[k].op = "enqueue", k > 1
        PROVE  t[k - 1].op = "account" /\ t[k - 1].pipe = t[k].pipe
    <3>1. k + 1 > 1 /\ (k + 1) - 1 = k /\ k # 1
      BY <2>2, <2>4
    <3>2. a[k].op = "account" /\ a[k].pipe = a[k + 1].pipe
      <4>1. a[(k + 1) - 1].op = "account" /\ a[(k + 1) - 1].pipe = a[k + 1].pipe
        BY <2>2, <2>4, <3>1 DEF GoodAgenda, Paired
      <4>2. QED
        BY <3>1, <4>1
    <3>3. k \in DOMAIN a
      <4>1. \A l \in DOMAIN a : l \in 1..Len(a)
        OBVIOUS
      <4>2. Len(a) \in Nat /\ DOMAIN a = 1..Len(a)
        OBVIOUS
      <4>3. QED
        BY <2>2, <4>2
    <3>4. t[k - 1] = a[k]
      BY <3>1, <3>3, <1>1
    <3>5. QED
      BY <2>2, <3>2, <3>4
  <2>5. QED
    BY <2>3, <2>4
<1>4. OneWrite(t)
  <2>1. SUFFICES ASSUME NEW k \in DOMAIN t, NEW l \in DOMAIN t,
                        t[k].op = "write", t[l].op = "write", t[k].pipe = t[l].pipe
                 PROVE  k = l
    BY DEF OneWrite
  <2>2. k + 1 = l + 1
    BY <1>1, <2>1 DEF GoodAgenda, OneWrite
  <2>3. QED
    BY <1>1, <2>2
<1>5. GoodAgenda(n, t)
  BY <1>2, <1>3, <1>4 DEF GoodAgenda
<1>6. ASSUME NEW p, ~(h.op = "write" /\ h.pipe = p)
      PROVE  WritesIn(t, p) = WritesIn(a, p)
  <2>1. WritesIn(t, p) \subseteq WritesIn(a, p)
    BY <1>1 DEF WritesIn
  <2>2. WritesIn(a, p) \subseteq WritesIn(t, p)
    BY <1>1, <1>6 DEF WritesIn
  <2>3. QED
    BY <2>1, <2>2
<1>7. ASSUME h.op = "write"
      PROVE  /\ WritesIn(a, h.pipe) = {h.item}
             /\ WritesIn(t, h.pipe) = {}
             /\ t # <<>> => Head(t).op # "enqueue"
  <2>1. \A k \in DOMAIN a : a[k].op = "write" /\ a[k].pipe = h.pipe => k = 1
    BY <1>1, <1>7 DEF GoodAgenda, OneWrite
  <2>2. WritesIn(a, h.pipe) = {h.item}
    BY <1>1, <1>7, <2>1 DEF WritesIn
  <2>3. WritesIn(t, h.pipe) = {}
    <3>1. ASSUME NEW k \in DOMAIN t, t[k].op = "write", t[k].pipe = h.pipe
          PROVE  FALSE
      <4>1. k + 1 \in DOMAIN a /\ t[k] = a[k + 1] /\ k \in Nat \ {0}
        BY <1>1
      <4>2. k + 1 = 1
        BY <4>1, <3>1, <2>1
      <4>3. QED
        BY <4>1, <4>2
    <3>2. QED
      BY <3>1 DEF WritesIn
  <2>4. ASSUME t # <<>>, Head(t).op = "enqueue" PROVE FALSE
    <3>1. 1 + 1 \in DOMAIN a /\ t[1] = a[1 + 1] /\ Head(t) = t[1]
      BY <1>1, <2>4
    <3>2. a[2].op = "enqueue" /\ 2 \in DOMAIN a
      BY <2>4, <3>1
    <3>3. a[2 - 1].op = "account"
      BY <3>2 DEF GoodAgenda, Paired
    <3>4. QED
      BY <1>1, <1>7, <3>3
  <2>5. QED
    BY <2>2, <2>3, <2>4
<1>8. QED
  BY <1>5, <1>6, <1>7 DEF t, h

LEMMA AgendaFlush ==
  ASSUME NEW n, NEW a \in Seq(Operations), GoodAgenda(n, a),
         a # <<>> => Head(a).op # "enqueue",
         NEW q \in Pipes, WriterOf(q) = n
  PROVE  /\ GoodAgenda(n, Flush(q) \o a)
         /\ \A p : WritesIn(Flush(q) \o a, p) = WritesIn(a, p)
<1> DEFINE f == Flush(q)
           b == f \o a
           m == Len(a)
<1>1. /\ f \in Seq(Operations) /\ Len(f) = 2
      /\ f[1] = Account(q) /\ f[2] = Enqueue(q)
  <2>1. End \in Items \cup {End}
    OBVIOUS
  <2>2. QED
    BY <2>1, OperationTypes DEF Flush
<1>2. m \in Nat /\ DOMAIN a = 1..m /\ (a # <<>> => Head(a) = a[1])
  OBVIOUS
<1> HIDE DEF f
<1>3. /\ b \in Seq(Operations) /\ Len(b) = m + 2 /\ DOMAIN b = 1..(m + 2)
      /\ b[1] = f[1] /\ b[2] = f[2]
      /\ \A k \in 1..m : b[k + 2] = a[k]
  <2>1. /\ b \in Seq(Operations) /\ Len(b) = Len(f) + Len(a)
        /\ DOMAIN b = 1..(Len(f) + Len(a))
        /\ \A k \in 1..Len(f) : b[k] = f[k]
        /\ \A k \in 1..Len(a) : b[Len(f) + k] = a[k]
    BY <1>1, Concatenation
  <2>2. Len(f) + Len(a) = m + 2 /\ 1 \in 1..Len(f) /\ 2 \in 1..Len(f)
    BY <1>1, <1>2
  <2>3. \A k \in 1..m : k + 2 = Len(f) + k
    BY <1>1, <1>2
  <2> HIDE DEF b
  <2>4. QED
    BY <2>1, <2>2, <2>3
<1>4. /\ b[1].op = "account" /\ b[1].pipe = q /\ b[2].op = "enqueue" /\ b[2].pipe = q
      /\ 1 \in DOMAIN b /\ 2 \in DOMAIN b
  BY <1>1, <1>2, <1>3 DEF Account, Enqueue
<1> HIDE DEF b, m
<1>5. ASSUME NEW k \in DOMAIN b, k # 1, k # 2
      PROVE  k - 2 \in 1..m /\ b[k] = a[k - 2] /\ (k - 2) + 2 = k /\ k \in Nat
  <2>1. k - 2 \in 1..m /\ (k - 2) + 2 = k /\ k \in Nat
    BY <1>2, <1>3, <1>5
  <2>2. b[(k - 2) + 2] = a[k - 2]
    BY <1>3, <2>1
  <2>3. QED
    BY <2>1, <2>2
<1>6. \A k \in DOMAIN b : WriterOf(b[k].pipe) = n
  <2>1. \A k \in DOMAIN a : WriterOf(a[k].pipe) = n
    BY DEF GoodAgenda
  <2>2. QED
    BY <1>2, <1>4, <1>5, <2>1
<1>7. Paired(b)
  <2>1. SUFFICES ASSUME NEW k \in DOMAIN b
                 PROVE  /\ b[k].op = "account" =>
                             k + 1 \in DOMAIN b /\ b[k + 1].op = "enqueue" /\ b[k + 1].pipe = b[k].pipe
                        /\ b[k].op = "enqueue" /\ k > 1 =>
                             b[k - 1].op = "account" /\ b[k - 1].pipe = b[k].pipe
    BY DEF Paired
  <2>2. CASE k = 1
    BY <1>4, <2>2
  <2>3. CASE k = 2
    BY <1>4, <2>3
  <2>4. CASE k # 1 /\ k # 2
    <3> DEFINE l == k - 2
    <3>1. l \in 1..m /\ b[k] = a[l] /\ l + 2 = k /\ k \in Nat
      BY <1>5, <2>4
    <3>2. ASSUME b[k].op = "account"
          PROVE  k + 1 \in DOMAIN b /\ b[k + 1].op = "enqueue" /\ b[k + 1].pipe = b[k].pipe
      <4>1. l + 1 \in 1..m /\ a[l + 1].op = "enqueue" /\ a[l + 1].pipe = a[l].pipe
        BY <1>2, <3>1, <3>2 DEF GoodAgenda, Paired
      <4>2. (l + 1) + 2 = k + 1 /\ k + 1 \in 1..(m + 2)
        BY <1>2, <3>1, <4>1
      <4>3. b[k + 1] = a[l + 1]
        BY <1>3, <4>1, <4>2
      <4>4. QED
        BY <1>3, <3>1, <4>1, <4>2, <4>3
    <3>3. ASSUME b[k].op = "enqueue"
          PROVE  b[k - 1].op = "account" /\ b[k - 1].pipe = b[k].pipe
      <4>1. l > 1
        <5>1. l = 1 => a # <<>> /\ a[1].op = "enqueue"
          BY <1>2, <3>1, <3>3
        <5>2. l # 1
          BY <1>2, <5>1
        <5>3. QED
          BY <3>1, <5>2
      <4>2. a[l - 1].op = "account" /\ a[l - 1].pipe = a[l].pipe
        BY <1>2, <3>1, <3>3, <4>1 DEF GoodAgenda, Paired
      <4>3. l - 1 \in 1..m /\ (l - 1) + 2 = k - 1
        BY <1>2, <3>1, <4>1
      <4>4. b[k - 1] = a[l - 1]
        BY <1>3, <4>3
      <4>5. QED
        BY <3>1, <4>2, <4>4
    <3>4. QED
      BY <3>2, <3>3
  <2>5. QED
    BY <2>2, <2>3, <2>4
<1>8. ASSUME NEW k \in DOMAIN b, b[k].op = "write"
      PROVE  k - 2 \in DOMAIN a /\ b[k] = a[k - 2] /\ (k - 2) + 2 = k
  BY <1>2, <1>4, <1>5, <1>8
<1>9. OneWrite(b)
  <2>1. SUFFICES ASSUME NEW k \in DOMAIN b, NEW l \in DOMAIN b,
                        b[k].op = "write", b[l].op = "write", b[k].pipe = b[l].pipe
                 PROVE  k = l
    BY DEF OneWrite
  <2>2. k - 2 = l - 2
    BY <1>8, <2>1 DEF GoodAgenda, OneWrite
  <2>3. (k - 2) + 2 = k /\ (l - 2) + 2 = l
    BY <1>8, <2>1
  <2>4. QED
    BY <2>2, <2>3
<1>10. ASSUME NEW p PROVE WritesIn(b, p) = WritesIn(a, p)
  <2>1. WritesIn(b, p) \subseteq WritesIn(a, p)
    BY <1>8 DEF WritesIn
  <2>2. \A k \in DOMAIN a : k + 2 \in DOMAIN b /\ b[k + 2] = a[k]
    BY <1>2, <1>3
  <2>3. WritesIn(a, p) \subseteq WritesIn(b, p)
    BY <2>2 DEF WritesIn
  <2>4. QED
    BY <2>1, <2>3
<1>11. QED
  BY <1>6, <1>7, <1>9, <1>10 DEF GoodAgenda, b, f

-----------------------------------------------------------------------------
(***************************************************************************)
(* Moving on through a lane.                                               *)
(***************************************************************************)
Moved(i, s, X) ==
    /\ X \subseteq Part(i, s)
    /\ Part(i, s)' = Part(i, s) \ X
    /\ Part(i, s - 1)' = Part(i, s - 1) \cup X
    /\ \A t \in 0..9 : t # s /\ t # s - 1 => Part(i, t)' = Part(i, t)
    /\ \A x \in X, y \in Part(i, s) \ X : Ord(x) < Ord(y)

Advance(i) == \E s \in 1..9 : \E X \in SUBSET Part(i, s) : Moved(i, s, X)

\* What moves stays in its lane and in order, and moves towards its end.
LEMMA MovedOn ==
  ASSUME NEW i \in Lane, Advance(i), LaneOrdered(i), InLane(i)
  PROVE  /\ LaneOrdered(i)' /\ InLane(i)'
         /\ \A m \in 0..9 : \A x : (\E t \in 0..m : x \in Part(i, t))
                                      => \E t \in 0..m : x \in Part(i, t)'
         /\ \A t \in 0..9 : \A x \in Part(i, t)' :
               x \in Part(i, t) \/ (t < 9 /\ x \in Part(i, t + 1))
<1>1. PICK s \in 1..9 : \E X \in SUBSET Part(i, s) : Moved(i, s, X)
  BY DEF Advance
<1>2. PICK X \in SUBSET Part(i, s) : Moved(i, s, X)
  BY <1>1
<1>3. s \in 0..9 /\ s - 1 \in 0..9 /\ s # s - 1 /\ s \in Nat /\ (s - 1) + 1 = s
  OBVIOUS
<1>4. /\ Part(i, s)' = Part(i, s) \ X
      /\ Part(i, s - 1)' = Part(i, s - 1) \cup X
      /\ \A t \in 0..9 : t # s /\ t # s - 1 => Part(i, t)' = Part(i, t)
      /\ \A x \in X, y \in Part(i, s) \ X : Ord(x) < Ord(y)
  BY <1>2 DEF Moved
<1>5. \A t \in 0..9 : \A x \in Part(i, t)' :
         x \in Part(i, t) \/ (t = s - 1 /\ x \in X)
  BY <1>3, <1>4
<1>6. \A x \in X : x \in Part(i, s)
  BY <1>2
<1>7. LaneOrdered(i)'
  <2>1. SUFFICES ASSUME NEW a \in 0..9, NEW b \in 0..9, a < b,
                        NEW x \in Part(i, a)', NEW y \in Part(i, b)'
                 PROVE  Ord(x) < Ord(y)
    BY DEF LaneOrdered, Ord, IsEnd
  <2>2. CASE x \in Part(i, a) /\ y \in Part(i, b)
    BY <2>1, <2>2 DEF LaneOrdered
  <2>3. CASE a = s - 1 /\ x \in X /\ y \in Part(i, b)
    <3>1. CASE b = s
      <4>1. y \in Part(i, s) \ X
        BY <1>4, <2>1, <3>1
      <4>2. QED
        BY <1>4, <2>3, <4>1
    <3>2. CASE b # s
      <4>1. s < b
        BY <2>1, <2>3, <3>2, <1>3
      <4>2. QED
        BY <1>3, <1>6, <2>3, <4>1 DEF LaneOrdered
    <3>3. QED
      BY <3>1, <3>2
  <2>4. CASE b = s - 1 /\ y \in X /\ x \in Part(i, a)
    <3>1. a < s
      BY <2>1, <2>4, <1>3
    <3>2. QED
      BY <1>3, <1>6, <2>4, <3>1 DEF LaneOrdered
  <2>5. CASE a = s - 1 /\ b = s - 1
    BY <2>1, <2>5
  <2>6. QED
    BY <1>5, <2>1, <2>2, <2>3, <2>4, <2>5
<1>8. ASSUME NEW m \in 0..9, NEW x, NEW t \in 0..m, x \in Part(i, t)
      PROVE  \E u \in 0..m : x \in Part(i, u)'
  <2>1. t \in 0..9 /\ (t = s => s - 1 \in 0..m)
    BY <1>3
  <2>2. CASE x \in Part(i, t)'
    BY <2>2
  <2>3. CASE x \notin Part(i, t)'
    <3>1. t = s \/ t = s - 1
      BY <1>4, <1>8, <2>1, <2>3
    <3>2. t # s - 1
      BY <1>4, <1>8, <2>3
    <3>3. t = s
      BY <3>1, <3>2
    <3>4. x \in Part(i, s - 1)'
      BY <1>4, <1>8, <2>3, <3>3
    <3>5. QED
      BY <2>1, <3>3, <3>4
  <2>4. QED
    BY <2>2, <2>3
<1>9. InLane(i)'
  <2>1. \A t \in 0..9 : \A x \in Part(i, t)' : x \in Items \cup {End} /\ (IsEnd(x) \/ PipeIndex(x) = i)
    BY <1>3, <1>5, <1>6 DEF InLane
  <2>2. \E t \in 0..9 : End \in Part(i, t)'
    BY <1>8 DEF InLane
  <2>3. QED
    BY <2>1, <2>2 DEF InLane, IsEnd, PipeIndex
<1>10. \A t \in 0..9 : \A x \in Part(i, t)' : x \in Part(i, t) \/ (t < 9 /\ x \in Part(i, t + 1))
  <2>1. SUFFICES ASSUME NEW t \in 0..9, NEW x \in Part(i, t)', x \notin Part(i, t)
                 PROVE  t < 9 /\ x \in Part(i, t + 1)
    OBVIOUS
  <2>2. t = s - 1 /\ x \in X
    BY <1>5, <2>1
  <2>3. t + 1 = s /\ t < 9
    BY <2>2, <1>3
  <2>4. QED
    BY <2>2, <2>3, <1>6
<1>11. QED
  BY <1>7, <1>8, <1>9, <1>10

\* The places of a lane, pipe by pipe.
LEMMA LaneParts ==
  ASSUME NEW i \in Lane
  PROVE  /\ Part(i, 0) = Handed(i) /\ Part(i, 0)' = Handed(i)'
         /\ Part(i, 9) = ToCome(i) /\ Part(i, 9)' = ToCome(i)'
         /\ \A k \in 1..4 : /\ Part(i, k) = PipePart(Out(i), k)
                            /\ Part(i, k)' = PipePart(Out(i), k)'
                            /\ Part(i, k + 4) = PipePart(In(i), k)
                            /\ Part(i, k + 4)' = PipePart(In(i), k)'
         /\ \A s \in 0..9 : \/ s = 0 \/ s = 9
                            \/ s \in 1..4 
                            \/ s - 4 \in 1..4 /\ (s - 4) + 4 = s
<1>1. Part(i, 0) = Handed(i) /\ Part(i, 0)' = Handed(i)'
  BY DEF Part
<1>2. Part(i, 9) = ToCome(i) /\ Part(i, 9)' = ToCome(i)'
  BY DEF Part
<1>3. ASSUME NEW k \in 1..4
      PROVE  /\ Part(i, k) = PipePart(Out(i), k)
             /\ Part(i, k)' = PipePart(Out(i), k)'
             /\ Part(i, k + 4) = PipePart(In(i), k)
             /\ Part(i, k + 4)' = PipePart(In(i), k)'
  <2>1. k # 0 /\ k # 9 /\ k <= 4
    OBVIOUS
  <2>2. k + 4 # 0 /\ k + 4 # 9 /\ ~(k + 4 <= 4) /\ (k + 4) - 4 = k
    OBVIOUS
  <2>3. Part(i, k) = PipePart(Out(i), k) /\ Part(i, k)' = PipePart(Out(i), k)'
    BY <2>1 DEF Part
  <2>4. Part(i, k + 4) = PipePart(In(i), (k + 4) - 4) /\ Part(i, k + 4)' = PipePart(In(i), (k + 4) - 4)'
    BY <2>2 DEF Part
  <2>5. QED
    BY <2>2, <2>3, <2>4
<1>4. QED
  BY <1>1, <1>2, <1>3

LEMMA LaneUntouched ==
  ASSUME NEW i \in Lane,
         \A l \in 1..4 : /\ PipePart(Out(i), l)' = PipePart(Out(i), l)
                         /\ PipePart(In(i), l)' = PipePart(In(i), l),
         Handed(i)' = Handed(i), ToCome(i)' = ToCome(i)
  PROVE  Advance(i)
<1>1. \A t \in 0..9 : Part(i, t)' = Part(i, t)
  <2>1. SUFFICES ASSUME NEW t \in 0..9 PROVE Part(i, t)' = Part(i, t)
    OBVIOUS
  <2>2. CASE t = 0 \/ t = 9
    BY <2>2, LaneParts
  <2>3. CASE t \in 1..4
    <3>1. PipePart(Out(i), t)' = PipePart(Out(i), t)
      BY <2>3
    <3>2. QED
      BY <2>3, <3>1, LaneParts
  <2>4. CASE t - 4 \in 1..4 /\ (t - 4) + 4 = t
    <3>1. PipePart(In(i), t - 4)' = PipePart(In(i), t - 4)
      BY <2>4
    <3>2. Part(i, (t - 4) + 4)' = Part(i, (t - 4) + 4)
      BY <2>4, <3>1, LaneParts
    <3>3. QED
      BY <2>4, <3>2
  <2>5. QED
    BY <2>2, <2>3, <2>4, LaneParts
<1>2. Moved(i, 1, {})
  BY <1>1 DEF Moved
<1>3. QED
  BY <1>2 DEF Advance

LEMMA PipeMove ==
  ASSUME NEW p \in Pipes, NEW k \in 2..4, NEW X,
         X \subseteq PipePart(p, k),
         PipePart(p, k)' = PipePart(p, k) \ X,
         PipePart(p, k - 1)' = PipePart(p, k - 1) \cup X,
         \A q \in Pipes : \A l \in 1..4 :
            q # p \/ (l # k /\ l # k - 1) => PipePart(q, l)' = PipePart(q, l),
         \A i \in Lane : Handed(i)' = Handed(i) /\ ToCome(i)' = ToCome(i),
         \A x \in X, y \in PipePart(p, k) \ X : Ord(x) < Ord(y)
  PROVE  \A i \in Lane : Advance(i)
<1>1. SUFFICES ASSUME NEW i \in Lane PROVE Advance(i)
  OBVIOUS
<1>2. CASE p = Out(i)
  <2>1. Moved(i, k, X)
    <3>1. k \in 1..4 /\ k - 1 \in 1..4 /\ k \in 1..9
      OBVIOUS
    <3>2. /\ X \subseteq Part(i, k)
          /\ Part(i, k)' = Part(i, k) \ X
          /\ Part(i, k - 1)' = Part(i, k - 1) \cup X
          /\ \A x \in X, y \in Part(i, k) \ X : Ord(x) < Ord(y)
      BY <1>2, <3>1, LaneParts
    <3>3. ASSUME NEW t \in 0..9, t # k, t # k - 1
          PROVE  Part(i, t)' = Part(i, t)
      <4>1. CASE t = 0 \/ t = 9
        BY <4>1, LaneParts
      <4>2. CASE t \in 1..4
        BY <4>2, <3>3, <1>2, LaneParts
      <4>3. CASE t - 4 \in 1..4 /\ (t - 4) + 4 = t
        <5>1. PipePart(In(i), t - 4)' = PipePart(In(i), t - 4)
          BY <4>3, <1>2, PipeEnds
        <5>2. Part(i, (t - 4) + 4)' = Part(i, (t - 4) + 4)
          BY <4>3, <5>1, LaneParts
        <5>3. QED
          BY <4>3, <5>2
      <4>4. QED
        BY <4>1, <4>2, <4>3, LaneParts
    <3>4. QED
      BY <3>2, <3>3 DEF Moved
  <2>2. X \in SUBSET Part(i, k) /\ k \in 1..9
    BY <2>1 DEF Moved
  <2>3. QED
    BY <2>1, <2>2 DEF Advance
<1>3. CASE p = In(i)
  <2> DEFINE s == k + 4
  <2>1. Moved(i, s, X)
    <3>1. k \in 1..4 /\ k - 1 \in 1..4 /\ s - 1 = (k - 1) + 4 /\ s \in 1..9 /\ s - 4 = k
      OBVIOUS
    <3>2. Part(i, s) = PipePart(p, k) /\ Part(i, s)' = PipePart(p, k)'
      BY <1>3, <3>1, LaneParts
    <3>3. Part(i, s - 1) = PipePart(p, k - 1) /\ Part(i, s - 1)' = PipePart(p, k - 1)'
      <4>1. Part(i, (k - 1) + 4) = PipePart(p, k - 1) /\ Part(i, (k - 1) + 4)' = PipePart(p, k - 1)'
        BY <1>3, <3>1, LaneParts
      <4>2. QED
        BY <3>1, <4>1
    <3>4. /\ X \subseteq Part(i, s)
          /\ Part(i, s)' = Part(i, s) \ X
          /\ Part(i, s - 1)' = Part(i, s - 1) \cup X
          /\ \A x \in X, y \in Part(i, s) \ X : Ord(x) < Ord(y)
      BY <3>2, <3>3
    <3>5. ASSUME NEW t \in 0..9, t # s, t # s - 1
          PROVE  Part(i, t)' = Part(i, t)
      <4>1. CASE t = 0 \/ t = 9
        BY <4>1, LaneParts
      <4>2. CASE t \in 1..4
        <5>1. PipePart(Out(i), t)' = PipePart(Out(i), t)
          BY <4>2, <1>3, PipeEnds
        <5>2. QED
          BY <4>2, <5>1, LaneParts
      <4>3. CASE t - 4 \in 1..4 /\ (t - 4) + 4 = t
        <5>1. t - 4 # k /\ t - 4 # k - 1
          BY <4>3, <3>5, <3>1
        <5>2. PipePart(p, t - 4)' = PipePart(p, t - 4)
          BY <4>3, <5>1
        <5>3. Part(i, (t - 4) + 4)' = Part(i, (t - 4) + 4)
          BY <4>3, <5>2, <1>3, LaneParts
        <5>4. QED
          BY <4>3, <5>3
      <4>4. QED
        BY <4>1, <4>2, <4>3, LaneParts
    <3> HIDE DEF s
    <3>6. QED
      BY <3>4, <3>5 DEF Moved
  <2>2. s \in 1..9
    OBVIOUS
  <2> HIDE DEF s
  <2>3. X \in SUBSET Part(i, s)
    BY <2>1 DEF Moved
  <2>4. QED
    BY <2>1, <2>2, <2>3 DEF Advance
<1>4. CASE p # Out(i) /\ p # In(i)
  <2>1. Out(i) \in Pipes /\ In(i) \in Pipes
    BY PipeEnds
  <2>2. \A l \in 1..4 : /\ PipePart(Out(i), l)' = PipePart(Out(i), l)
                        /\ PipePart(In(i), l)' = PipePart(In(i), l)
    BY <1>4, <2>1
  <2>3. QED
    BY <2>2, LaneUntouched
<1>5. QED
  BY <1>2, <1>3, <1>4

-----------------------------------------------------------------------------
(***************************************************************************)
(* Blocks in order.                                                        *)
(***************************************************************************)
LEMMA StrictTail ==
  ASSUME NEW s \in Blocks, s # <<>>, Strict(s)
  PROVE  /\ Strict(Tail(s))
         /\ Entries(Tail(s)) = Entries(s) \ {Head(s)}
         /\ Head(s) \in Entries(s) /\ Head(s) \in Items \cup {End}
         /\ \A y \in Entries(s) : y = Head(s) \/ Ord(Head(s)) < Ord(y)
<1> DEFINE t == Tail(s)
           h == Head(s)
<1>1. /\ s \in Seq(Items \cup {End})
      /\ \A x \in Entries(s) : Ord(x) \in Int
  <2>1. s \in Seq(Items \cup {End})
    BY DEF Blocks
  <2>2. QED
    BY <2>1, EntriesFacts, Tokens, Sizes
<1>2. /\ h \in Items \cup {End} /\ t \in Seq(Items \cup {End})
      /\ h = s[1] /\ 1 \in DOMAIN s
      /\ \A k \in DOMAIN t : k + 1 \in DOMAIN s /\ t[k] = s[k + 1]
      /\ \A k \in DOMAIN s : k # 1 => k - 1 \in DOMAIN t /\ t[k - 1] = s[k]
      /\ Entries(s) = Entries(t) \cup {h}
  BY <1>1, TailEntries
<1>3. (\A k \in DOMAIN s : k \in Nat \ {0}) /\ (\A k \in DOMAIN t : k \in Nat \ {0})
  <2> HIDE DEF t
  <2>1. QED
    BY <1>1, <1>2, EntriesFacts
<1> HIDE DEF t, h
<1>4. \A y \in Entries(t) : Ord(h) < Ord(y)
  <2>1. SUFFICES ASSUME NEW k \in DOMAIN t PROVE Ord(h) < Ord(t[k])
    BY DEF Entries
  <2>2. 1 < k + 1 /\ k + 1 \in DOMAIN s /\ t[k] = s[k + 1]
    BY <1>2, <1>3
  <2>3. QED
    BY <1>2, <2>2 DEF Strict
<1>5. h \notin Entries(t)
  BY <1>1, <1>2, <1>4
<1>6. Strict(t)
  <2>1. SUFFICES ASSUME NEW k \in DOMAIN t, NEW l \in DOMAIN t, k < l
                 PROVE  Ord(t[k]) < Ord(t[l])
    BY DEF Strict
  <2>2. k + 1 < l + 1 /\ k + 1 \in DOMAIN s /\ l + 1 \in DOMAIN s
    BY <1>2, <1>3, <2>1
  <2>3. Ord(s[k + 1]) < Ord(s[l + 1])
    BY <2>2 DEF Strict
  <2>4. QED
    BY <1>2, <2>3
<1>7. QED
  BY <1>2, <1>4, <1>5, <1>6 DEF t, h

LEMMA StrictAppend ==
  ASSUME NEW s \in Blocks, Strict(s), NEW x \in Items \cup {End},
         \A y \in Entries(s) : Ord(y) < Ord(x)
  PROVE  Strict(Append(s, x)) /\ Entries(Append(s, x)) = Entries(s) \cup {x}
<1> DEFINE t == Append(s, x)
<1>1. s \in Seq(Items \cup {End})
  BY DEF Blocks
<1>2. /\ DOMAIN t = DOMAIN s \cup {Len(s) + 1}
      /\ \A k \in DOMAIN s : k < Len(s) + 1 /\ t[k] = s[k] /\ s[k] \in Entries(s) /\ k \in Nat
      /\ t[Len(s) + 1] = x
      /\ Entries(t) = Entries(s) \cup {x}
      /\ Len(s) \in Nat
  BY <1>1, AppendEntries, EntriesFacts
<1> HIDE DEF t
<1>3. Strict(t)
  <2>1. SUFFICES ASSUME NEW k \in DOMAIN t, NEW l \in DOMAIN t, k < l
                 PROVE  Ord(t[k]) < Ord(t[l])
    BY DEF Strict
  <2>2. k \in DOMAIN s
    BY <1>2, <2>1
  <2>3. CASE l \in DOMAIN s
    <3>1. Ord(s[k]) < Ord(s[l])
      BY <2>1, <2>2, <2>3 DEF Strict
    <3>2. QED
      BY <1>2, <2>2, <2>3, <3>1
  <2>4. CASE l = Len(s) + 1
    BY <1>2, <2>2, <2>4
  <2>5. QED
    BY <1>2, <2>3, <2>4
<1>4. QED
  BY <1>2, <1>3 DEF t

LEMMA QueueTail ==
  ASSUME NEW q \in Seq(Blocks), q # <<>>, StrictQueue(q)
  PROVE  /\ StrictQueue(Tail(q)) /\ Strict(Head(q)) /\ Head(q) \in Blocks
         /\ Entries(Head(q)) \subseteq InBlocks(q)
         /\ InBlocks(Tail(q)) = InBlocks(q) \ Entries(Head(q))
         /\ \A x \in Entries(Head(q)), y \in InBlocks(Tail(q)) : Ord(x) < Ord(y)
<1> DEFINE t == Tail(q)
           h == Head(q)
<1>1. /\ h \in Blocks /\ t \in Seq(Blocks)
      /\ h = q[1] /\ 1 \in DOMAIN q
      /\ \A k \in DOMAIN t : k + 1 \in DOMAIN q /\ t[k] = q[k + 1]
      /\ \A k \in DOMAIN q : k # 1 => k - 1 \in DOMAIN t /\ t[k - 1] = q[k]
  BY TailEntries
<1>2. /\ \A k \in DOMAIN q : k \in Nat \ {0}
      /\ \A k \in DOMAIN t : k \in Nat \ {0}
  <2> HIDE DEF t
  <2>1. QED
    BY <1>1, EntriesFacts
<1> HIDE DEF t, h
<1>3. \A x \in Entries(h) : Ord(x) \in Int
  <2>1. h \in Seq(Items \cup {End})
    BY <1>1 DEF Blocks
  <2>2. QED
    BY <2>1, EntriesFacts, Tokens, Sizes
<1>4. \A x \in Entries(h), y \in InBlocks(t) : Ord(x) < Ord(y)
  <2>1. SUFFICES ASSUME NEW x \in Entries(h), NEW k \in DOMAIN t, NEW y \in Entries(t[k])
                 PROVE  Ord(x) < Ord(y)
    BY DEF InBlocks
  <2>2. 1 < k + 1 /\ k + 1 \in DOMAIN q /\ t[k] = q[k + 1]
    BY <1>1, <1>2
  <2>3. QED
    BY <1>1, <2>1, <2>2 DEF StrictQueue
<1>5. InBlocks(q) = Entries(h) \cup InBlocks(t)
  <2>1. Entries(h) \subseteq InBlocks(q)
    BY <1>1 DEF InBlocks
  <2>2. InBlocks(t) \subseteq InBlocks(q)
    BY <1>1 DEF InBlocks
  <2>3. InBlocks(q) \subseteq Entries(h) \cup InBlocks(t)
    <3>1. SUFFICES ASSUME NEW k \in DOMAIN q, NEW y \in Entries(q[k])
                   PROVE  y \in Entries(h) \cup InBlocks(t)
      BY DEF InBlocks
    <3>2. CASE k = 1
      BY <1>1, <3>2
    <3>3. CASE k # 1
      BY <1>1, <3>3 DEF InBlocks
    <3>4. QED
      BY <3>2, <3>3
  <2>4. QED
    BY <2>1, <2>2, <2>3
<1>6. InBlocks(t) = InBlocks(q) \ Entries(h)
  BY <1>3, <1>4, <1>5
<1>7. StrictQueue(t)
  <2>1. \A k \in DOMAIN t : Strict(t[k])
    BY <1>1 DEF StrictQueue
  <2>2. ASSUME NEW k \in DOMAIN t, NEW l \in DOMAIN t, k < l,
               NEW x \in Entries(t[k]), NEW y \in Entries(t[l])
        PROVE  Ord(x) < Ord(y)
    <3>1. k + 1 < l + 1 /\ k + 1 \in DOMAIN q /\ l + 1 \in DOMAIN q
      BY <1>1, <1>2, <2>2
    <3>2. t[k] = q[k + 1] /\ t[l] = q[l + 1]
      BY <1>1
    <3>3. QED
      BY <2>2, <3>1, <3>2 DEF StrictQueue
  <2>3. QED
    BY <2>1, <2>2 DEF StrictQueue
<1>8. Strict(h)
  BY <1>1 DEF StrictQueue
<1>9. QED
  BY <1>1, <1>4, <1>5, <1>6, <1>7, <1>8 DEF t, h

LEMMA QueueAppend ==
  ASSUME NEW q \in Seq(Blocks), StrictQueue(q), NEW b \in Blocks, Strict(b),
         \A x \in InBlocks(q), y \in Entries(b) : Ord(x) < Ord(y)
  PROVE  StrictQueue(Append(q, b)) /\ InBlocks(Append(q, b)) = InBlocks(q) \cup Entries(b)
<1> DEFINE t == Append(q, b)
           n == Len(q)
<1>1. /\ DOMAIN t = DOMAIN q \cup {n + 1}
      /\ \A k \in DOMAIN q : k < n + 1 /\ t[k] = q[k] /\ k \in Nat
      /\ t[n + 1] = b
      /\ n \in Nat
  BY AppendEntries, EntriesFacts
<1> HIDE DEF t, n
<1>2. InBlocks(t) = InBlocks(q) \cup Entries(b)
  <2>1. InBlocks(t) \subseteq InBlocks(q) \cup Entries(b)
    BY <1>1 DEF InBlocks
  <2>2. InBlocks(q) \subseteq InBlocks(t)
    BY <1>1 DEF InBlocks
  <2>3. Entries(b) \subseteq InBlocks(t)
    BY <1>1 DEF InBlocks
  <2>4. QED
    BY <2>1, <2>2, <2>3
<1>3. \A k \in DOMAIN t : Strict(t[k])
  BY <1>1 DEF StrictQueue
<1>4. ASSUME NEW k \in DOMAIN t, NEW l \in DOMAIN t, k < l,
             NEW x \in Entries(t[k]), NEW y \in Entries(t[l])
      PROVE  Ord(x) < Ord(y)
  <2>1. k \in DOMAIN q /\ t[k] = q[k]
    BY <1>1, <1>4
  <2>2. CASE l \in DOMAIN q
    BY <1>1, <1>4, <2>1, <2>2 DEF StrictQueue
  <2>3. CASE l = n + 1
    <3>1. x \in InBlocks(q) /\ y \in Entries(b)
      BY <1>1, <1>4, <2>1, <2>3 DEF InBlocks
    <3>2. QED
      BY <3>1
  <2>4. QED
    BY <1>1, <2>2, <2>3
<1>5. QED
  BY <1>2, <1>3, <1>4 DEF StrictQueue, t

LEMMA EmptyBlocks ==
  /\ Strict(<<>>) /\ StrictQueue(<<>>) /\ InBlocks(<<>>) = {} /\ Entries(<<>>) = {}
  BY DEF Strict, StrictQueue, InBlocks, Entries

-----------------------------------------------------------------------------
(***************************************************************************)
(* What the steps of the threads move.                                     *)
(***************************************************************************)
OrderInv == TypeOK /\ OrderHolds

LEMMA PipeParts ==
  ASSUME NEW p
  PROVE  /\ PipePart(p, 1) = Entries(rblock[p]) /\ PipePart(p, 1)' = Entries(rblock'[p])
         /\ PipePart(p, 2) = InBlocks(queue[p]) /\ PipePart(p, 2)' = InBlocks(queue'[p])
         /\ PipePart(p, 3) = Entries(wblock[p]) /\ PipePart(p, 3)' = Entries(wblock'[p])
         /\ PipePart(p, 4) = WritesIn(agenda[WriterOf(p)], p)
         /\ PipePart(p, 4)' = WritesIn(agenda'[WriterOf(p)], p)
  BY DEF PipePart, Queued, Writes, Entries, InBlocks, WritesIn

LEMMA PipeOrder ==
  ASSUME LanesHold, NEW p \in Pipes, NEW k \in 1..4, NEW l \in 1..4, k < l,
         NEW x \in PipePart(p, k), NEW y \in PipePart(p, l)
  PROVE  Ord(x) < Ord(y)
<1>1. PICK i \in Lane : p = In(i) \/ p = Out(i)
  BY PipeEnds
<1>2. LaneOrdered(i)
  BY DEF LanesHold
<1>3. CASE p = Out(i)
  <2>1. x \in Part(i, k) /\ y \in Part(i, l)
    BY <1>3, LaneParts
  <2>2. k \in 0..9 /\ l \in 0..9
    OBVIOUS
  <2>3. QED
    BY <1>2, <2>1, <2>2 DEF LaneOrdered
<1>4. CASE p = In(i)
  <2>1. x \in Part(i, k + 4) /\ y \in Part(i, l + 4)
    BY <1>4, LaneParts
  <2>2. k + 4 \in 0..9 /\ l + 4 \in 0..9 /\ k + 4 < l + 4
    OBVIOUS
  <2>3. QED
    BY <1>2, <2>1, <2>2 DEF LaneOrdered
<1>5. QED
  BY <1>1, <1>3, <1>4

LEMMA Todo ==
  ASSUME OrderInv, NEW n \in Producers, agenda[n] # <<>>
  PROVE  /\ agenda[n] \in Seq(Operations) /\ GoodAgenda(n, agenda[n])
         /\ Tail(agenda[n]) \in Seq(Operations) /\ GoodAgenda(n, Tail(agenda[n]))
         /\ Head(agenda[n]) \in Operations
         /\ Head(agenda[n]).pipe \in Pipes
         /\ WriterOf(Head(agenda[n]).pipe) = n
         /\ Head(agenda[n]).item \in Items \cup {End}
<1>1. agenda[n] \in Seq(Operations) /\ GoodAgenda(n, agenda[n])
  BY DEF OrderInv, TypeOK, OrderHolds, AgendasHold
<1>2. /\ Head(agenda[n]) \in Operations /\ Tail(agenda[n]) \in Seq(Operations)
      /\ Head(agenda[n]) = agenda[n][1] /\ 1 \in DOMAIN agenda[n]
  BY <1>1, TailEntries
<1>3. WriterOf(Head(agenda[n]).pipe) = n
  BY <1>1, <1>2 DEF GoodAgenda
<1>4. Head(agenda[n]).pipe \in Pipes /\ Head(agenda[n]).item \in Items \cup {End}
  BY <1>2 DEF Operations
<1>5. GoodAgenda(n, Tail(agenda[n]))
  BY <1>1, AgendaTail
<1>6. QED
  BY <1>1, <1>2, <1>3, <1>4, <1>5

\* The new agenda, what a thread does being done.
LEMMA AgendaStep ==
  ASSUME OrderInv, NEW n \in Producers, NEW a, GoodAgenda(n, a),
         agenda' = [agenda EXCEPT ![n] = a]
  PROVE  /\ AgendasHold'
         /\ agenda'[n] = a
         /\ \A m \in Producers : m # n => agenda'[m] = agenda[m]
<1>1. agenda'[n] = a /\ \A m \in Producers : m # n => agenda'[m] = agenda[m]
  BY DEF OrderInv, TypeOK
<1>2. \A m \in Producers : GoodAgenda(m, agenda'[m])
  BY <1>1 DEF OrderInv, OrderHolds, AgendasHold
<1>3. AgendasHold'
  BY <1>2 DEF AgendasHold, GoodAgenda, Paired, OneWrite, WriterOf
<1>4. QED
  BY <1>1, <1>3

LEMMA SameEnds ==
  ASSUME output' = output, input' = input,
         pc'[Combiner] = "done" <=> pc[Combiner] = "done"
  PROVE  \A i \in Lane : Handed(i)' = Handed(i) /\ ToCome(i)' = ToCome(i)
  BY DEF Handed, ToCome, Entries, PipeIndex, IsEnd

LEMMA SameStream ==
  ASSUME OrderInv, input' = input, read' = read
  PROVE  StreamHolds'
  BY DEF OrderInv, OrderHolds, StreamHolds, Strict, Ord, IsEnd, Entries

LEMMA WriteMoves ==
  ASSUME OrderInv, NEW n \in Producers, DoWrite(n)
  PROVE  AgendasHold' /\ BlocksHold' /\ \A i \in Lane : Advance(i)
<1> DEFINE a == agenda[n]
<1>0. PICK p : p = Head(a).pipe
  OBVIOUS
<1> DEFINE x == Head(a).item
           block == Append(wblock[p], x)
           b == (IF Bytes(block) < Capacity THEN <<>> ELSE Flush(p)) \o Tail(a)
<1>1. /\ a # <<>> /\ Head(a).op = "write"
      /\ wblock' = [wblock EXCEPT ![p] = block]
      /\ agenda' = [agenda EXCEPT ![n] = b]
      /\ UNCHANGED <<input, read, queue, bytesUsed, rblock, pc, reading, output>>
  BY <1>0 DEF DoWrite
<1>2. /\ a \in Seq(Operations) /\ GoodAgenda(n, a)
      /\ Tail(a) \in Seq(Operations) /\ GoodAgenda(n, Tail(a))
      /\ p \in Pipes /\ WriterOf(p) = n /\ x \in Items \cup {End}
  BY <1>0, <1>1, Todo
<1>3. /\ WritesIn(a, p) = {x}
      /\ WritesIn(Tail(a), p) = {}
      /\ \A q : q # p => WritesIn(Tail(a), q) = WritesIn(a, q)
      /\ Tail(a) # <<>> => Head(Tail(a)).op # "enqueue"
  BY <1>0, <1>1, <1>2, AgendaTail
<1>4. GoodAgenda(n, b) /\ \A q : WritesIn(b, q) = WritesIn(Tail(a), q)
  <2>1. GoodAgenda(n, Flush(p) \o Tail(a)) /\ \A q : WritesIn(Flush(p) \o Tail(a), q) = WritesIn(Tail(a), q)
    <3> DEFINE t == Tail(a)
    <3>1. /\ t \in Seq(Operations) /\ GoodAgenda(n, t)
          /\ t # <<>> => Head(t).op # "enqueue"
      BY <1>2, <1>3
    <3> HIDE DEF t
    <3>2. GoodAgenda(n, Flush(p) \o t) /\ \A q : WritesIn(Flush(p) \o t, q) = WritesIn(t, q)
      BY <1>2, <3>1, AgendaFlush
    <3>3. QED
      BY <3>2 DEF t
  <2>2. <<>> \o Tail(a) = Tail(a)
    BY <1>2
  <2>3. b = Tail(a) \/ b = Flush(p) \o Tail(a)
    BY <2>2
  <2> HIDE DEF b, a
  <2>4. QED
    BY <1>2, <2>1, <2>3
<1> HIDE DEF a, x, b
<1>5. /\ AgendasHold' /\ agenda'[n] = b
      /\ \A m \in Producers : m # n => agenda'[m] = agenda[m]
  BY <1>1, <1>4, AgendaStep
<1>6. wblock[p] \in Blocks /\ Strict(wblock[p])
  BY <1>2 DEF OrderInv, TypeOK, OrderHolds, BlocksHold
<1>7. \A y \in Entries(wblock[p]) : Ord(y) < Ord(x)
  <2>1. PipePart(p, 3) = Entries(wblock[p]) /\ PipePart(p, 4) = WritesIn(agenda[WriterOf(p)], p)
    BY PipeParts
  <2>2. x \in PipePart(p, 4)
    BY <1>2, <1>3, <2>1 DEF a
  <2>3. QED
    BY <1>2, <2>1, <2>2, PipeOrder DEF OrderInv, OrderHolds
<1>8. Strict(block) /\ Entries(block) = Entries(wblock[p]) \cup {x}
  BY <1>2, <1>6, <1>7, StrictAppend
<1> HIDE DEF block
<1>9. wblock'[p] = block /\ \A q \in Pipes : q # p => wblock'[q] = wblock[q]
  BY <1>1, <1>2 DEF OrderInv, TypeOK
<1>10. BlocksHold'
  <2>1. \A q \in Pipes : Strict(rblock'[q]) /\ StrictQueue(queue'[q]) /\ Strict(wblock'[q])
    BY <1>1, <1>8, <1>9 DEF OrderInv, OrderHolds, BlocksHold
  <2>2. QED
    BY <2>1 DEF BlocksHold, Strict, StrictQueue, Ord, IsEnd, Entries
<1>11. \A i \in Lane : Advance(i)
  <2>1. /\ PipePart(p, 4) = {x} /\ PipePart(p, 4)' = {}
        /\ PipePart(p, 3)' = PipePart(p, 3) \cup {x}
    BY <1>2, <1>3, <1>4, <1>5, <1>8, <1>9, PipeParts DEF a
  <2>2. ASSUME NEW q \in Pipes, NEW l \in 1..4, q # p \/ (l # 4 /\ l # 4 - 1)
        PROVE  PipePart(q, l)' = PipePart(q, l)
    <3>1. CASE l = 1 \/ l = 2
      BY <3>1, <1>1, PipeParts
    <3>2. CASE l = 3
      BY <3>2, <2>2, <1>9, PipeParts
    <3>3. CASE l = 4
      <4>1. q # p
        BY <2>2, <3>3
      <4>2. WriterOf(q) \in Producers
        BY PipeEnds
      <4>3. WritesIn(agenda'[WriterOf(q)], q) = WritesIn(agenda[WriterOf(q)], q)
        BY <4>1, <4>2, <1>3, <1>4, <1>5 DEF a
      <4>4. QED
        BY <3>3, <4>3, PipeParts
    <3>4. QED
      BY <3>1, <3>2, <3>3
  <2>3. \A i \in Lane : Handed(i)' = Handed(i) /\ ToCome(i)' = ToCome(i)
    BY <1>1, SameEnds
  <2>4. /\ {x} \subseteq PipePart(p, 4)
        /\ PipePart(p, 4)' = PipePart(p, 4) \ {x}
        /\ PipePart(p, 4 - 1)' = PipePart(p, 4 - 1) \cup {x}
        /\ \A u \in {x}, v \in PipePart(p, 4) \ {x} : Ord(u) < Ord(v)
        /\ 4 \in 2..4
    BY <2>1
  <2>5. QED
    BY <1>2, <2>2, <2>3, <2>4, PipeMove, ZenonT(40)
<1>12. QED
  BY <1>5, <1>10, <1>11

LEMMA AccountMoves ==
  ASSUME OrderInv, NEW n \in Producers, DoAccount(n)
  PROVE  AgendasHold' /\ BlocksHold' /\ \A i \in Lane : Advance(i)
<1> DEFINE a == agenda[n]
<1>1. /\ a # <<>> /\ Head(a).op = "account"
      /\ agenda' = [agenda EXCEPT ![n] = Tail(a)]
      /\ UNCHANGED <<input, read, wblock, queue, rblock, pc, reading, output>>
  BY DEF DoAccount
<1>2. /\ a \in Seq(Operations) /\ GoodAgenda(n, a) /\ GoodAgenda(n, Tail(a))
  BY <1>1, Todo
<1>3. \A q : WritesIn(Tail(a), q) = WritesIn(a, q)
  BY <1>1, <1>2, AgendaTail
<1>4. /\ AgendasHold' /\ agenda'[n] = Tail(a)
      /\ \A m \in Producers : m # n => agenda'[m] = agenda[m]
  BY <1>1, <1>2, AgendaStep
<1>5. BlocksHold'
  BY <1>1 DEF OrderInv, OrderHolds, BlocksHold, Strict, StrictQueue, Ord, IsEnd, Entries
<1>6. ASSUME NEW q \in Pipes, NEW l \in 1..4
      PROVE  PipePart(q, l)' = PipePart(q, l)
  <2>1. WriterOf(q) \in Producers
    BY PipeEnds
  <2>2. WritesIn(agenda'[WriterOf(q)], q) = WritesIn(agenda[WriterOf(q)], q)
    BY <2>1, <1>3, <1>4
  <2>3. l = 1 \/ l = 2 \/ l = 3 \/ l = 4
    OBVIOUS
  <2>4. QED
    BY <1>1, <2>2, <2>3, PipeParts
<1>7. \A i \in Lane : Handed(i)' = Handed(i) /\ ToCome(i)' = ToCome(i)
  BY <1>1, SameEnds
<1>8. \A i \in Lane : Advance(i)
  BY <1>6, <1>7, PipeEnds, LaneUntouched
<1>9. QED
  BY <1>4, <1>5, <1>8

LEMMA EnqueueMoves ==
  ASSUME OrderInv, NEW n \in Producers, DoEnqueue(n)
  PROVE  AgendasHold' /\ BlocksHold' /\ \A i \in Lane : Advance(i)
<1> DEFINE a == agenda[n]
<1>0. PICK p : p = Head(a).pipe
  OBVIOUS
<1> DEFINE q1 == Append(queue[p], wblock[p])
           X == Entries(wblock[p])
<1>1. /\ a # <<>> /\ Head(a).op = "enqueue"
      /\ queue' = [queue EXCEPT ![p] = q1]
      /\ wblock' = [wblock EXCEPT ![p] = <<>>]
      /\ agenda' = [agenda EXCEPT ![n] = Tail(a)]
      /\ UNCHANGED <<input, read, bytesUsed, rblock, pc, reading, output>>
  BY <1>0 DEF DoEnqueue
<1>2. /\ a \in Seq(Operations) /\ GoodAgenda(n, a) /\ GoodAgenda(n, Tail(a))
      /\ p \in Pipes /\ WriterOf(p) = n
  BY <1>0, <1>1, Todo
<1>3. \A q : WritesIn(Tail(a), q) = WritesIn(a, q)
  BY <1>1, <1>2, AgendaTail
<1> HIDE DEF a
<1>4. /\ AgendasHold' /\ agenda'[n] = Tail(a)
      /\ \A m \in Producers : m # n => agenda'[m] = agenda[m]
  BY <1>1, <1>2, AgendaStep
<1>5. /\ wblock[p] \in Blocks /\ Strict(wblock[p])
      /\ queue[p] \in Seq(Blocks) /\ StrictQueue(queue[p])
  BY <1>2 DEF OrderInv, TypeOK, OrderHolds, BlocksHold
<1>6. \A x \in InBlocks(queue[p]), y \in Entries(wblock[p]) : Ord(x) < Ord(y)
  <2>1. PipePart(p, 2) = InBlocks(queue[p]) /\ PipePart(p, 3) = Entries(wblock[p])
    BY PipeParts
  <2>2. QED
    BY <1>2, <2>1, PipeOrder DEF OrderInv, OrderHolds
<1>7. StrictQueue(q1) /\ InBlocks(q1) = InBlocks(queue[p]) \cup X
  BY <1>5, <1>6, QueueAppend
<1>8. /\ wblock'[p] = <<>> /\ queue'[p] = q1
      /\ \A q \in Pipes : q # p => wblock'[q] = wblock[q] /\ queue'[q] = queue[q]
  BY <1>1, <1>2 DEF OrderInv, TypeOK
<1> HIDE DEF q1
<1>9. BlocksHold'
  <2>1. \A q \in Pipes : Strict(rblock'[q]) /\ StrictQueue(queue'[q]) /\ Strict(wblock'[q])
    BY <1>1, <1>7, <1>8, EmptyBlocks DEF OrderInv, OrderHolds, BlocksHold
  <2>2. QED
    BY <2>1 DEF BlocksHold, Strict, StrictQueue, Ord, IsEnd, Entries
<1>10. \A i \in Lane : Advance(i)
  <2>1. /\ PipePart(p, 3) = X /\ PipePart(p, 3)' = {}
        /\ PipePart(p, 2)' = PipePart(p, 2) \cup X
    BY <1>7, <1>8, EmptyBlocks, PipeParts
  <2> HIDE DEF X
  <2>2. ASSUME NEW q \in Pipes, NEW l \in 1..4, q # p \/ (l # 3 /\ l # 3 - 1)
        PROVE  PipePart(q, l)' = PipePart(q, l)
    <3>1. CASE l = 1
      BY <3>1, <1>1, PipeParts
    <3>2. CASE l = 2 \/ l = 3
      <4>1. q # p
        BY <2>2, <3>2
      <4>2. QED
        BY <3>2, <4>1, <1>8, PipeParts
    <3>3. CASE l = 4
      <4>1. WriterOf(q) \in Producers
        BY PipeEnds
      <4>2. WritesIn(agenda'[WriterOf(q)], q) = WritesIn(agenda[WriterOf(q)], q)
        BY <4>1, <1>3, <1>4 DEF a
      <4>3. QED
        BY <3>3, <4>2, PipeParts
    <3>4. QED
      BY <3>1, <3>2, <3>3
  <2>3. \A i \in Lane : Handed(i)' = Handed(i) /\ ToCome(i)' = ToCome(i)
    BY <1>1, SameEnds
  <2>4. /\ X \subseteq PipePart(p, 3)
        /\ PipePart(p, 3)' = PipePart(p, 3) \ X
        /\ PipePart(p, 3 - 1)' = PipePart(p, 3 - 1) \cup X
        /\ \A u \in X, v \in PipePart(p, 3) \ X : Ord(u) < Ord(v)
        /\ 3 \in 2..4
    BY <2>1
  <2>5. QED
    BY <1>2, <2>2, <2>3, <2>4, PipeMove
<1>11. QED
  BY <1>4, <1>9, <1>10

LEMMA DequeueMoves ==
  ASSUME OrderInv, NEW n \in Consumers, NEW p \in Pipes, Dequeue(n, p)
  PROVE  AgendasHold' /\ BlocksHold' /\ \A i \in Lane : Advance(i)
<1> DEFINE q1 == Tail(queue[p])
           h == Head(queue[p])
           X == Entries(h)
<1>1. /\ rblock[p] = <<>> /\ queue[p] # <<>> /\ pc[n] = "read"
      /\ rblock' = [rblock EXCEPT ![p] = h]
      /\ queue' = [queue EXCEPT ![p] = q1]
      /\ pc' = [pc EXCEPT ![n] = "settle"]
      /\ UNCHANGED <<input, read, agenda, wblock, bytesUsed, output>>
  BY DEF Dequeue, Starving
<1>2. queue[p] \in Seq(Blocks) /\ StrictQueue(queue[p])
  BY DEF OrderInv, TypeOK, OrderHolds, BlocksHold
<1>3. /\ StrictQueue(q1) /\ Strict(h)
      /\ X \subseteq InBlocks(queue[p])
      /\ InBlocks(q1) = InBlocks(queue[p]) \ X
      /\ \A x \in X, y \in InBlocks(q1) : Ord(x) < Ord(y)
  BY <1>1, <1>2, QueueTail
<1> HIDE DEF q1, h
<1>4. /\ rblock'[p] = h /\ queue'[p] = q1
      /\ \A q \in Pipes : q # p => rblock'[q] = rblock[q] /\ queue'[q] = queue[q]
  BY <1>1 DEF OrderInv, TypeOK
<1>5. AgendasHold'
  BY <1>1 DEF OrderInv, OrderHolds, AgendasHold, GoodAgenda, Paired, OneWrite, WriterOf
<1>6. BlocksHold'
  <2>1. \A q \in Pipes : Strict(rblock'[q]) /\ StrictQueue(queue'[q]) /\ Strict(wblock'[q])
    BY <1>1, <1>3, <1>4 DEF OrderInv, OrderHolds, BlocksHold
  <2>2. QED
    BY <2>1 DEF BlocksHold, Strict, StrictQueue, Ord, IsEnd, Entries
<1>7. \A i \in Lane : Advance(i)
  <2>1. /\ PipePart(p, 1) = {} /\ PipePart(p, 1)' = X
        /\ PipePart(p, 2) = InBlocks(queue[p]) /\ PipePart(p, 2)' = InBlocks(q1)
    BY <1>1, <1>4, EmptyBlocks, PipeParts
  <2> HIDE DEF X
  <2>2. ASSUME NEW q \in Pipes, NEW l \in 1..4, q # p \/ (l # 2 /\ l # 2 - 1)
        PROVE  PipePart(q, l)' = PipePart(q, l)
    <3>1. CASE l = 1 \/ l = 2
      <4>1. q # p
        BY <2>2, <3>1
      <4>2. QED
        BY <3>1, <4>1, <1>4, PipeParts
    <3>2. CASE l = 3 \/ l = 4
      BY <3>2, <1>1, PipeParts
    <3>3. QED
      BY <3>1, <3>2
  <2>3. \A i \in Lane : Handed(i)' = Handed(i) /\ ToCome(i)' = ToCome(i)
    <3>1. pc'[Combiner] = "done" <=> pc[Combiner] = "done"
      BY <1>1, Sizes DEF OrderInv, TypeOK
    <3>2. QED
      BY <1>1, <3>1, SameEnds
  <2>4. /\ X \subseteq PipePart(p, 2)
        /\ PipePart(p, 2)' = PipePart(p, 2) \ X
        /\ PipePart(p, 2 - 1)' = PipePart(p, 2 - 1) \cup X
        /\ \A u \in X, v \in PipePart(p, 2) \ X : Ord(u) < Ord(v)
        /\ 2 \in 2..4
    BY <1>3, <2>1
  <2>5. QED
    BY <2>2, <2>3, <2>4, PipeMove
<1>8. QED
  BY <1>5, <1>6, <1>7

LEMMA SettleMoves ==
  ASSUME OrderInv, NEW n \in Consumers, Settle(n)
  PROVE  AgendasHold' /\ BlocksHold' /\ \A i \in Lane : Advance(i)
<1>1. /\ pc[n] = "settle" /\ \E s \in {"undefined", "read"} : pc' = [pc EXCEPT ![n] = s]
      /\ UNCHANGED <<input, read, agenda, wblock, queue, rblock, reading, output>>
  BY DEF Settle
<1>2. AgendasHold'
  BY <1>1 DEF OrderInv, OrderHolds, AgendasHold, GoodAgenda, Paired, OneWrite, WriterOf
<1>3. BlocksHold'
  BY <1>1 DEF OrderInv, OrderHolds, BlocksHold, Strict, StrictQueue, Ord, IsEnd, Entries
<1>4. ASSUME NEW q \in Pipes, NEW l \in 1..4
      PROVE  PipePart(q, l)' = PipePart(q, l)
  <2>1. l = 1 \/ l = 2 \/ l = 3 \/ l = 4
    OBVIOUS
  <2>2. QED
    BY <1>1, <2>1, PipeParts
<1>5. \A i \in Lane : Handed(i)' = Handed(i) /\ ToCome(i)' = ToCome(i)
  <2>1. pc'[Combiner] = "done" <=> pc[Combiner] = "done"
    BY <1>1, Sizes DEF OrderInv, TypeOK
  <2>2. QED
    BY <1>1, <2>1, SameEnds
<1>6. \A i \in Lane : Advance(i)
  BY <1>4, <1>5, PipeEnds, LaneUntouched
<1>7. QED
  BY <1>2, <1>3, <1>6

LEMMA WorkerMoves ==
  ASSUME OrderInv, NEW n \in Lane, WorkerRead(n)
  PROVE  AgendasHold' /\ BlocksHold' /\ \A i \in Lane : Advance(i)
<1> DEFINE p == In(n)
           o == Out(n)
           x == Head(rblock[p])
           a == IF IsEnd(x) THEN Close(OutPipes(n)) ELSE <<Write(o, x)>>
<1>1. /\ agenda[n] = <<>> /\ rblock[p] # <<>>
      /\ agenda' = [agenda EXCEPT ![n] = a]
      /\ pc' = [pc EXCEPT ![n] = IF IsEnd(x) THEN "done" ELSE "read"]
      /\ rblock' = [rblock EXCEPT ![p] = Tail(rblock[p])]
      /\ UNCHANGED <<input, read, wblock, queue, bytesUsed, reading, output>>
  BY DEF WorkerRead
<1>2. /\ p \in Pipes /\ o \in Pipes /\ p # o /\ WriterOf(o) = n /\ n \in Producers /\ n \in Consumers
      /\ WriterOf(p) = 0 /\ n # 0 /\ n # Combiner
  BY PipeEnds, Sizes
<1>3. rblock[p] \in Blocks /\ Strict(rblock[p])
  BY <1>2 DEF OrderInv, TypeOK, OrderHolds, BlocksHold
<1>4. /\ Strict(Tail(rblock[p])) /\ Entries(Tail(rblock[p])) = Entries(rblock[p]) \ {x}
      /\ x \in Entries(rblock[p]) /\ x \in Items \cup {End}
      /\ \A y \in Entries(rblock[p]) : y = x \/ Ord(x) < Ord(y)
  BY <1>1, <1>3, StrictTail
<1>5. GoodAgenda(n, a) /\ \A q \in Pipes : WriterOf(q) = n => WritesIn(a, q) = {x}
  <2>1. \A q \in Pipes : WriterOf(q) = n => q = o
    BY <1>2, PipeEnds
  <2> HIDE DEF x, o
  <2>2. CASE IsEnd(x)
    <3>1. x = End
      BY <1>4, <2>2, Tokens
    <3>2. QED
      BY <1>2, <2>2, <3>1, AgendaClose
  <2>3. CASE ~IsEnd(x)
    BY <1>2, <2>1, <2>3, AgendaWrite
  <2>4. QED
    BY <2>2, <2>3
<1> HIDE DEF a, x
<1>6. /\ AgendasHold' /\ agenda'[n] = a
      /\ \A m \in Producers : m # n => agenda'[m] = agenda[m]
  BY <1>1, <1>2, <1>5, AgendaStep
<1>7. rblock'[p] = Tail(rblock[p]) /\ \A q \in Pipes : q # p => rblock'[q] = rblock[q]
  BY <1>1, <1>2 DEF OrderInv, TypeOK
<1>8. BlocksHold'
  <2>1. \A q \in Pipes : Strict(rblock'[q]) /\ StrictQueue(queue'[q]) /\ Strict(wblock'[q])
    BY <1>1, <1>4, <1>7 DEF OrderInv, OrderHolds, BlocksHold
  <2>2. QED
    BY <2>1 DEF BlocksHold, Strict, StrictQueue, Ord, IsEnd, Entries
<1>9. \A i \in Lane : Handed(i)' = Handed(i) /\ ToCome(i)' = ToCome(i)
  <2>1. pc'[Combiner] = pc[Combiner]
    BY <1>1, <1>2, Sizes DEF OrderInv, TypeOK
  <2>2. QED
    BY <1>1, <2>1, SameEnds
<1>10. \A q \in Pipes : q # p /\ q # o => \A l \in 1..4 : PipePart(q, l)' = PipePart(q, l)
  <2>1. SUFFICES ASSUME NEW q \in Pipes, q # p, q # o, NEW l \in 1..4
                 PROVE  PipePart(q, l)' = PipePart(q, l)
    OBVIOUS
  <2>2. WriterOf(q) \in Producers /\ WriterOf(q) # n
    BY <1>2, <2>1, PipeEnds
  <2>3. l = 1 \/ l = 2 \/ l = 3 \/ l = 4
    OBVIOUS
  <2>4. agenda'[WriterOf(q)] = agenda[WriterOf(q)] /\ rblock'[q] = rblock[q]
    BY <1>6, <1>7, <2>1, <2>2
  <2>5. QED
    BY <1>1, <2>3, <2>4, PipeParts
<1>11. /\ PipePart(p, 1) = Entries(rblock[p]) /\ PipePart(p, 1)' = PipePart(p, 1) \ {x}
       /\ PipePart(o, 4) = {} /\ PipePart(o, 4)' = {x}
  <2>1. PipePart(p, 1) = Entries(rblock[p]) /\ PipePart(p, 1)' = Entries(rblock[p]) \ {x}
    BY <1>4, <1>7, PipeParts
  <2>2. PipePart(o, 4) = {}
    BY <1>1, <1>2, PipeParts, AgendaEmpty
  <2>3. PipePart(o, 4)' = {x}
    BY <1>2, <1>5, <1>6, PipeParts
  <2>4. QED
    BY <2>1, <2>2, <2>3
<1>12. /\ \A l \in 2..4 : PipePart(p, l)' = PipePart(p, l)
       /\ \A l \in 1..3 : PipePart(o, l)' = PipePart(o, l)
  <2>1. agenda'[WriterOf(p)] = agenda[WriterOf(p)]
    BY <1>2, <1>6, Sizes
  <2>2. ASSUME NEW l \in 2..4 PROVE PipePart(p, l)' = PipePart(p, l)
    <3>1. l = 2 \/ l = 3 \/ l = 4
      OBVIOUS
    <3>2. QED
      BY <1>1, <2>1, <3>1, PipeParts
  <2>3. ASSUME NEW l \in 1..3 PROVE PipePart(o, l)' = PipePart(o, l)
    <3>1. l = 1 \/ l = 2 \/ l = 3
      OBVIOUS
    <3>2. rblock'[o] = rblock[o]
      BY <1>2, <1>7
    <3>3. QED
      BY <1>1, <3>1, <3>2, PipeParts
  <2>4. QED
    BY <2>2, <2>3
<1>13. Advance(n)
  <2>1. Part(n, 5) = PipePart(p, 1) /\ Part(n, 5)' = PipePart(p, 1)'
    <3>1. 1 \in 1..4 /\ 1 + 4 = 5
      OBVIOUS
    <3>2. Part(n, 1 + 4) = PipePart(p, 1) /\ Part(n, 1 + 4)' = PipePart(p, 1)'
      BY <3>1, LaneParts
    <3>3. QED
      BY <3>1, <3>2
  <2>2. Part(n, 4) = PipePart(o, 4) /\ Part(n, 4)' = PipePart(o, 4)'
    BY LaneParts
  <2>3. ASSUME NEW t \in 0..9, t # 5, t # 4
        PROVE  Part(n, t)' = Part(n, t)
    <3>1. CASE t = 0 \/ t = 9
      BY <3>1, <1>9, LaneParts
    <3>2. CASE t \in 1..3
      <4>1. t \in 1..4
        BY <3>2
      <4>2. QED
        BY <3>2, <4>1, <1>12, LaneParts
    <3>3. CASE t - 4 \in 2..4 /\ (t - 4) + 4 = t
      <4>1. t - 4 \in 1..4
        BY <3>3
      <4>2. Part(n, (t - 4) + 4)' = Part(n, (t - 4) + 4)
        BY <3>3, <4>1, <1>12, LaneParts
      <4>3. QED
        BY <3>3, <4>2
    <3>4. t = 0 \/ t = 9 \/ t \in 1..3 \/ (t - 4 \in 2..4 /\ (t - 4) + 4 = t)
      BY <2>3
    <3>5. QED
      BY <3>1, <3>2, <3>3, <3>4
  <2>4. Moved(n, 5, {x})
    <3>1. /\ {x} \subseteq Part(n, 5)
          /\ Part(n, 5)' = Part(n, 5) \ {x}
          /\ Part(n, 5 - 1)' = Part(n, 5 - 1) \cup {x}
          /\ \A u \in {x}, v \in Part(n, 5) \ {x} : Ord(u) < Ord(v)
      BY <1>4, <1>11, <2>1, <2>2
    <3>2. \A t \in 0..9 : t # 5 /\ t # 5 - 1 => Part(n, t)' = Part(n, t)
      BY <2>3
    <3>3. QED
      BY <3>1, <3>2 DEF Moved
  <2>5. 5 \in 1..9 /\ {x} \in SUBSET Part(n, 5)
    BY <2>4 DEF Moved
  <2>6. QED
    BY <2>4, <2>5 DEF Advance
<1>14. ASSUME NEW i \in Lane, i # n PROVE Advance(i)
  <2>1. In(i) \in Pipes /\ In(i) # p /\ In(i) # o /\ Out(i) \in Pipes /\ Out(i) # p /\ Out(i) # o
    BY <1>14, PipeEnds
  <2>2. \A l \in 1..4 : /\ PipePart(Out(i), l)' = PipePart(Out(i), l)
                        /\ PipePart(In(i), l)' = PipePart(In(i), l)
    BY <1>10, <2>1
  <2>3. QED
    BY <2>2, <1>9, LaneUntouched
<1>15. QED
  BY <1>6, <1>8, <1>13, <1>14

\* What the combiner reads from a pipe.
LEMMA CombinerMoves ==
  ASSUME OrderInv, NEW n \in Lane, rblock[Out(n)] # <<>>,
         rblock' = [rblock EXCEPT ![Out(n)] = Tail(rblock[Out(n)])],
         UNCHANGED <<input, read, agenda, wblock, queue>>,
         Handed(n)' = Handed(n) \cup {Head(rblock[Out(n)])},
         \A i \in Lane : i # n => Handed(i)' = Handed(i)
  PROVE  AgendasHold' /\ BlocksHold' /\ \A i \in Lane : Advance(i)
<1> DEFINE o == Out(n)
           x == Head(rblock[o])
<1>1. o \in Pipes /\ n # Combiner
  BY PipeEnds, Sizes
<1>2. rblock[o] \in Blocks /\ Strict(rblock[o])
  BY <1>1 DEF OrderInv, TypeOK, OrderHolds, BlocksHold
<1>3. /\ Strict(Tail(rblock[o])) /\ Entries(Tail(rblock[o])) = Entries(rblock[o]) \ {x}
      /\ x \in Entries(rblock[o]) /\ x \in Items \cup {End}
      /\ \A y \in Entries(rblock[o]) : y = x \/ Ord(x) < Ord(y)
  BY <1>2, StrictTail
<1> HIDE DEF x
<1>4. rblock'[o] = Tail(rblock[o]) /\ \A q \in Pipes : q # o => rblock'[q] = rblock[q]
  BY <1>1 DEF OrderInv, TypeOK
<1>5. AgendasHold'
  BY DEF OrderInv, OrderHolds, AgendasHold, GoodAgenda, Paired, OneWrite, WriterOf
<1>6. BlocksHold'
  <2>1. \A q \in Pipes : Strict(rblock'[q]) /\ StrictQueue(queue'[q]) /\ Strict(wblock'[q])
    BY <1>3, <1>4 DEF OrderInv, OrderHolds, BlocksHold
  <2>2. QED
    BY <2>1 DEF BlocksHold, Strict, StrictQueue, Ord, IsEnd, Entries
<1>7. \A i \in Lane : ToCome(i)' = ToCome(i)
  BY DEF ToCome, Entries, PipeIndex, IsEnd
<1>8. ASSUME NEW q \in Pipes, NEW l \in 1..4, q # o \/ l # 1
      PROVE  PipePart(q, l)' = PipePart(q, l)
  <2>1. CASE l = 1
    <3>1. rblock'[q] = rblock[q]
      BY <1>4, <1>8, <2>1
    <3>2. QED
      BY <2>1, <3>1, PipeParts
  <2>2. CASE l # 1
    <3>1. l = 2 \/ l = 3 \/ l = 4
      BY <2>2
    <3>2. QED
      BY <3>1, PipeParts
  <2>3. QED
    BY <2>1, <2>2
<1>9. Advance(n)
  <2>1. /\ Part(n, 1) = Entries(rblock[o]) /\ Part(n, 1)' = Entries(rblock[o]) \ {x}
        /\ Part(n, 0) = Handed(n) /\ Part(n, 0)' = Handed(n) \cup {x}
    <3>1. 1 \in 1..4
      OBVIOUS
    <3>2. Part(n, 1) = PipePart(o, 1) /\ Part(n, 1)' = PipePart(o, 1)'
      BY <3>1, LaneParts
    <3>3. Part(n, 1) = Entries(rblock[o]) /\ Part(n, 1)' = Entries(rblock[o]) \ {x}
      BY <3>2, <1>3, <1>4, PipeParts
    <3>4. Part(n, 0) = Handed(n) /\ Part(n, 0)' = Handed(n) \cup {x}
      BY LaneParts DEF x
    <3>5. QED
      BY <3>3, <3>4
  <2>2. ASSUME NEW t \in 0..9, t # 1, t # 0
        PROVE  Part(n, t)' = Part(n, t)
    <3>1. CASE t = 9
      BY <3>1, <1>7, LaneParts
    <3>2. CASE t \in 1..4
      BY <3>2, <2>2, <1>1, <1>8, LaneParts
    <3>3. CASE t - 4 \in 1..4 /\ (t - 4) + 4 = t
      <4>1. In(n) \in Pipes /\ In(n) # o
        BY PipeEnds
      <4>2. PipePart(In(n), t - 4)' = PipePart(In(n), t - 4)
        BY <3>3, <4>1, <1>8
      <4>3. Part(n, (t - 4) + 4)' = Part(n, (t - 4) + 4)
        BY <3>3, <4>2, LaneParts
      <4>4. QED
        BY <3>3, <4>3
    <3>4. QED
      BY <2>2, <3>1, <3>2, <3>3, LaneParts
  <2>3. Moved(n, 1, {x})
    <3>1. /\ {x} \subseteq Part(n, 1)
          /\ Part(n, 1)' = Part(n, 1) \ {x}
          /\ Part(n, 1 - 1)' = Part(n, 1 - 1) \cup {x}
          /\ \A u \in {x}, v \in Part(n, 1) \ {x} : Ord(u) < Ord(v)
      BY <1>3, <2>1
    <3>2. \A t \in 0..9 : t # 1 /\ t # 1 - 1 => Part(n, t)' = Part(n, t)
      BY <2>2
    <3>3. QED
      BY <3>1, <3>2 DEF Moved
  <2>4. 1 \in 1..9 /\ {x} \in SUBSET Part(n, 1)
    BY <2>3 DEF Moved
  <2>5. QED
    BY <2>3, <2>4 DEF Advance
<1>10. ASSUME NEW i \in Lane, i # n PROVE Advance(i)
  <2>1. In(i) \in Pipes /\ In(i) # o /\ Out(i) \in Pipes /\ Out(i) # o
    BY <1>10, PipeEnds
  <2>2. \A l \in 1..4 : /\ PipePart(Out(i), l)' = PipePart(Out(i), l)
                        /\ PipePart(In(i), l)' = PipePart(In(i), l)
    BY <1>8, <2>1
  <2>3. QED
    BY <2>2, <1>7, <1>10, LaneUntouched
<1>11. QED
  BY <1>5, <1>6, <1>9, <1>10

\* An item of a lane's pipes is an item of the lane.
LEMMA PipeLane ==
  ASSUME OrderInv, NEW i \in Lane, NEW x \in Entries(rblock[Out(i)])
  PROVE  x \in Part(i, 1) /\ x \in Items \cup {End} /\ (IsEnd(x) \/ PipeIndex(x) = i)
<1>1. 1 \in 1..4 /\ 1 \in 0..9
  OBVIOUS
<1>2. x \in Part(i, 1)
  BY <1>1, LaneParts, PipeParts
<1>3. InLane(i)
  BY DEF OrderInv, OrderHolds, LanesHold
<1>4. QED
  BY <1>1, <1>2, <1>3 DEF InLane

LEMMA ReadMoves ==
  ASSUME OrderInv, NEW n \in Lane, CombinerRead(n)
  PROVE  AgendasHold' /\ BlocksHold' /\ \A i \in Lane : Advance(i)
<1> DEFINE x == Head(rblock[Out(n)])
<1>1. /\ rblock[Out(n)] # <<>> /\ ~IsEnd(x)
      /\ output' = Append(output, x)
      /\ rblock' = [rblock EXCEPT ![Out(n)] = Tail(rblock[Out(n)])]
      /\ UNCHANGED <<input, read, agenda, wblock, queue, bytesUsed, pc, reading>>
  BY DEF CombinerRead, CombinerSeesAll, IsEarliest
<1>2. x \in Entries(rblock[Out(n)])
  <2>1. rblock[Out(n)] \in Seq(Items \cup {End})
    BY PipeEnds DEF OrderInv, TypeOK, Blocks
  <2>2. QED
    BY <1>1, <2>1, TailEntries
<1>3. x \in Items /\ PipeIndex(x) = n
  BY <1>1, <1>2, PipeLane, Tokens
<1> HIDE DEF x
<1>4. output \in Seq(Items)
  BY DEF OrderInv, TypeOK
<1>5. Entries(output') = Entries(output) \cup {x}
  BY <1>1, <1>3, <1>4, AppendEntries
<1>6. \A i \in Lane : Handed(i)' = {y \in Entries(output') : PipeIndex(y) = i}
                        \cup {y \in {End} : pc[Combiner] = "done" /\ i = 1}
  BY <1>1 DEF Handed, Entries, PipeIndex
<1>7. Handed(n)' = Handed(n) \cup {x}
  BY <1>3, <1>5, <1>6 DEF Handed
<1>8. \A i \in Lane : i # n => Handed(i)' = Handed(i)
  BY <1>3, <1>5, <1>6 DEF Handed
<1>9. QED
  BY <1>1, <1>7, <1>8, CombinerMoves DEF x

LEMMA EndMoves ==
  ASSUME OrderInv, CombinerEnd
  PROVE  AgendasHold' /\ BlocksHold' /\ \A i \in Lane : Advance(i)
<1> DEFINE x == Head(rblock[Out(1)])
<1>1. /\ 1 \in Lane /\ rblock[Out(1)] # <<>> /\ IsEnd(x) /\ pc[Combiner] = "read"
      /\ pc' = [pc EXCEPT ![Combiner] = "done"]
      /\ rblock' = [rblock EXCEPT ![Out(1)] = Tail(rblock[Out(1)])]
      /\ UNCHANGED <<input, read, agenda, wblock, queue, bytesUsed, reading, output>>
  BY Sizes DEF CombinerEnd, CombinerSeesAll
<1>2. x \in Entries(rblock[Out(1)])
  <2>1. rblock[Out(1)] \in Seq(Items \cup {End})
    BY <1>1, PipeEnds DEF OrderInv, TypeOK, Blocks
  <2>2. QED
    BY <1>1, <2>1, TailEntries
<1>3. x = End
  BY <1>1, <1>2, PipeLane, Tokens
<1> HIDE DEF x
<1>4. pc'[Combiner] = "done"
  BY <1>1, Sizes DEF OrderInv, TypeOK
<1>5. \A i \in Lane : Handed(i)' = {y \in Entries(output) : PipeIndex(y) = i}
                        \cup {y \in {End} : i = 1}
  BY <1>1, <1>4 DEF Handed, Entries, PipeIndex
<1>6. Handed(1)' = Handed(1) \cup {x}
  BY <1>1, <1>3, <1>5 DEF Handed
<1>7. \A i \in Lane : i # 1 => Handed(i)' = Handed(i)
  BY <1>5 DEF Handed
<1>8. QED
  BY <1>1, <1>6, <1>7, CombinerMoves DEF x

LEMMA SourceMoves ==
  ASSUME OrderInv, SourceRead
  PROVE  AgendasHold' /\ BlocksHold' /\ \A i \in Lane : Advance(i)
<1> DEFINE x == Head(input)
           a == IF IsEnd(x) THEN Close(OutPipes(0)) ELSE <<Write(In(PipeIndex(x)), x)>>
<1>1. /\ input # <<>> /\ agenda[0] = <<>>
      /\ agenda' = [agenda EXCEPT ![0] = a]
      /\ input' = Tail(input)
      /\ UNCHANGED <<wblock, queue, bytesUsed, rblock, pc, reading, output>>
  BY DEF SourceRead
<1>2. 0 \in Producers
  BY Sizes
<1>3. input \in Blocks /\ Strict(input)
  BY DEF OrderInv, TypeOK, OrderHolds, StreamHolds
<1>4. /\ Entries(input') = Entries(input) \ {x}
      /\ x \in Entries(input) /\ x \in Items \cup {End}
      /\ \A y \in Entries(input) : y = x \/ Ord(x) < Ord(y)
  BY <1>1, <1>3, StrictTail
<1> HIDE DEF x
<1>5. /\ GoodAgenda(0, a)
      /\ \A i \in Lane : WritesIn(a, In(i)) = IF IsEnd(x) \/ PipeIndex(x) = i THEN {x} ELSE {}
  <2>1. \A i \in Lane : In(i) \in Pipes /\ WriterOf(In(i)) = 0
    BY PipeEnds
  <2>2. CASE IsEnd(x)
    <3>1. x = End
      BY <1>4, <2>2, Tokens
    <3>2. QED
      BY <1>2, <2>1, <2>2, <3>1, AgendaClose
  <2>3. CASE ~IsEnd(x)
    <3> DEFINE j == PipeIndex(x)
    <3>1. x \in Items
      BY <1>4, <2>3, Tokens
    <3>2. j \in Lane
      BY <3>1, PipeIndexType
    <3> HIDE DEF j
    <3>3. WriterOf(In(j)) = 0 /\ \A i \in Lane : In(i) = In(j) <=> i = j
      BY <2>1, <3>2, PipeEnds
    <3>4. GoodAgenda(WriterOf(In(j)), <<Write(In(j), x)>>)
      BY AgendaWrite
    <3>5. \A i \in Lane : WritesIn(<<Write(In(j), x)>>, In(i)) = IF i = j THEN {x} ELSE {}
      BY <3>3, AgendaWrite
    <3>6. QED
      BY <2>3, <3>3, <3>4, <3>5 DEF j
  <2>4. QED
    BY <2>2, <2>3
<1> HIDE DEF a
<1>6. /\ AgendasHold' /\ agenda'[0] = a
      /\ \A m \in Producers : m # 0 => agenda'[m] = agenda[m]
  BY <1>1, <1>2, <1>5, AgendaStep
<1>7. BlocksHold'
  BY <1>1 DEF OrderInv, OrderHolds, BlocksHold, Strict, StrictQueue, Ord, IsEnd, Entries
<1>8. \A i \in Lane : Handed(i)' = Handed(i)
  BY <1>1 DEF Handed, Entries, PipeIndex
<1>9. ASSUME NEW i \in Lane
      PROVE  /\ \A l \in 1..4 : PipePart(Out(i), l)' = PipePart(Out(i), l)
             /\ \A l \in 1..3 : PipePart(In(i), l)' = PipePart(In(i), l)
             /\ PipePart(In(i), 4) = {} /\ PipePart(In(i), 4)' = WritesIn(a, In(i))
  <2>1. /\ WriterOf(Out(i)) = i /\ i # 0 /\ i \in Producers /\ WriterOf(In(i)) = 0
        /\ In(i) \in Pipes /\ Out(i) \in Pipes
    BY PipeEnds, Sizes
  <2>2. agenda'[WriterOf(Out(i))] = agenda[WriterOf(Out(i))]
    BY <1>6, <2>1
  <2>3. ASSUME NEW l \in 1..4 PROVE PipePart(Out(i), l)' = PipePart(Out(i), l)
    <3>1. l = 1 \/ l = 2 \/ l = 3 \/ l = 4
      OBVIOUS
    <3>2. QED
      BY <1>1, <2>2, <3>1, PipeParts
  <2>4. ASSUME NEW l \in 1..3 PROVE PipePart(In(i), l)' = PipePart(In(i), l)
    <3>1. l = 1 \/ l = 2 \/ l = 3
      OBVIOUS
    <3>2. QED
      BY <1>1, <3>1, PipeParts
  <2>5. PipePart(In(i), 4) = {}
    BY <1>1, <2>1, PipeParts, AgendaEmpty
  <2>6. PipePart(In(i), 4)' = WritesIn(a, In(i))
    BY <1>6, <2>1, PipeParts
  <2>7. QED
    BY <2>3, <2>4, <2>5, <2>6
<1>10. \A i \in Lane : ToCome(i)' = {y \in Entries(input') : IsEnd(y) \/ PipeIndex(y) = i}
  BY DEF ToCome, Entries, IsEnd, PipeIndex
<1>11. ASSUME NEW i \in Lane, IsEnd(x) \/ PipeIndex(x) = i
       PROVE  Advance(i)
  <2>1. /\ Part(i, 9) = ToCome(i) /\ Part(i, 9)' = ToCome(i) \ {x}
        /\ x \in ToCome(i)
    <3>1. Part(i, 9) = ToCome(i) /\ Part(i, 9)' = ToCome(i)'
      BY LaneParts
    <3>2. ToCome(i)' = ToCome(i) \ {x} /\ x \in ToCome(i)
      BY <1>4, <1>10, <1>11 DEF ToCome
    <3>3. QED
      BY <3>1, <3>2
  <2>2. Part(i, 8) = {} /\ Part(i, 8)' = {x}
    <3>1. 4 \in 1..4 /\ 4 + 4 = 8
      OBVIOUS
    <3>2. Part(i, 4 + 4) = PipePart(In(i), 4) /\ Part(i, 4 + 4)' = PipePart(In(i), 4)'
      BY <3>1, LaneParts
    <3>3. PipePart(In(i), 4)' = {x}
      BY <1>5, <1>9, <1>11
    <3>4. QED
      BY <3>1, <3>2, <3>3, <1>9
  <2>3. ASSUME NEW t \in 0..9, t # 9, t # 8
        PROVE  Part(i, t)' = Part(i, t)
    <3>1. CASE t = 0
      BY <3>1, <1>8, LaneParts
    <3>2. CASE t \in 1..4
      BY <3>2, <1>9, LaneParts
    <3>3. CASE t - 4 \in 1..3 /\ (t - 4) + 4 = t
      <4>1. t - 4 \in 1..4 /\ PipePart(In(i), t - 4)' = PipePart(In(i), t - 4)
        BY <3>3, <1>9
      <4>2. Part(i, (t - 4) + 4)' = Part(i, (t - 4) + 4)
        BY <4>1, LaneParts
      <4>3. QED
        BY <3>3, <4>2
    <3>4. t = 0 \/ t \in 1..4 \/ (t - 4 \in 1..3 /\ (t - 4) + 4 = t)
      BY <2>3
    <3>5. QED
      BY <3>1, <3>2, <3>3, <3>4
  <2>4. Moved(i, 9, {x})
    <3>1. /\ {x} \subseteq Part(i, 9)
          /\ Part(i, 9)' = Part(i, 9) \ {x}
          /\ Part(i, 9 - 1)' = Part(i, 9 - 1) \cup {x}
      BY <2>1, <2>2
    <3>2. \A u \in {x}, v \in Part(i, 9) \ {x} : Ord(u) < Ord(v)
      BY <1>4, <2>1 DEF ToCome
    <3>3. \A t \in 0..9 : t # 9 /\ t # 9 - 1 => Part(i, t)' = Part(i, t)
      BY <2>3
    <3>4. QED
      BY <3>1, <3>2, <3>3 DEF Moved
  <2>5. 9 \in 1..9 /\ {x} \in SUBSET Part(i, 9)
    BY <2>4 DEF Moved
  <2>6. QED
    BY <2>4, <2>5 DEF Advance
<1>12. ASSUME NEW i \in Lane, ~(IsEnd(x) \/ PipeIndex(x) = i)
       PROVE  Advance(i)
  <2>1. ToCome(i)' = ToCome(i)
    BY <1>4, <1>10, <1>12 DEF ToCome
  <2>2. PipePart(In(i), 4)' = {} /\ PipePart(In(i), 4) = {}
    BY <1>5, <1>9, <1>12
  <2>3. \A l \in 1..4 : PipePart(In(i), l)' = PipePart(In(i), l)
    <3>1. \A l \in 1..4 : l \in 1..3 \/ l = 4
      OBVIOUS
    <3>2. QED
      BY <3>1, <2>2, <1>9
  <2>4. QED
    BY <2>1, <2>3, <1>8, <1>9, LaneUntouched
<1>13. QED
  BY <1>6, <1>7, <1>11, <1>12

-----------------------------------------------------------------------------
(***************************************************************************)
(* The lanes keep their order.                                             *)
(***************************************************************************)

\* The times of a stream do not decrease.
LEMMA TimesSorted ==
  ASSUME NEW n \in Nat, NEW t \in SortedTimes(n)
  PROVE  \A j, k \in 1..n : j <= k => t[j] <= t[k]
<1>1. /\ \A j \in 1..n : t[j] \in Int
      /\ \A j \in 2..n : t[j - 1] <= t[j]
  BY DEF SortedTimes
<1>2. SUFFICES ASSUME NEW j \in 1..n PROVE \A k \in 1..n : j <= k => t[j] <= t[k]
  OBVIOUS
<1> DEFINE S == {d \in Nat : j + d <= n => t[j] <= t[j + d]}
<1>3. 0 \in S
  <2>1. j + 0 = j /\ t[j] <= t[j]
    BY <1>1
  <2>2. QED
    BY <2>1
<1>4. ASSUME NEW d \in Nat, d \in S PROVE d + 1 \in S
  <2>1. CASE j + (d + 1) <= n
    <3>1. /\ j + (d + 1) \in 2..n /\ (j + (d + 1)) - 1 = j + d
          /\ j + d \in 1..n /\ j + (d + 1) \in 1..n
      BY <2>1
    <3>2. t[j + d] <= t[j + (d + 1)]
      BY <1>1, <3>1
    <3>3. t[j] <= t[j + d]
      BY <1>4, <3>1
    <3>4. t[j] <= t[j + (d + 1)]
      BY <1>1, <3>1, <3>2, <3>3
    <3>5. QED
      BY <3>4
  <2>2. QED
    BY <2>1
<1>5. Nat \subseteq S
  <2> HIDE DEF S
  <2>1. QED
    BY <1>3, <1>4, Induction
<1>6. ASSUME NEW k \in 1..n, j <= k PROVE t[j] <= t[k]
  <2>1. k - j \in Nat /\ j + (k - j) = k
    BY <1>6
  <2>2. k - j \in S
    BY <1>5, <2>1
  <2>3. QED
    BY <2>1, <2>2
<1>7. QED
  BY <1>6

LEMMA StreamInit == Init => StreamHolds
<1> SUFFICES ASSUME Init PROVE StreamHolds
  OBVIOUS
<1>1. PICK n \in 0..MaxItems : \E t \in SortedTimes(n) :
            input = [i \in 1..n |-> [id |-> i, toa |-> t[i]]] \o <<End>>
  BY DEF Init
<1>2. PICK t \in SortedTimes(n) : input = [i \in 1..n |-> [id |-> i, toa |-> t[i]]] \o <<End>>
  BY <1>1
<1> DEFINE s == [i \in 1..n |-> [id |-> i, toa |-> t[i]]]
<1>3. n \in Nat /\ n <= MaxItems /\ \A i \in 1..n : t[i] \in 0..MaxTime
  BY Sizes DEF SortedTimes
<1>4. s \in Seq(Items) /\ Len(s) = n
  <2>1. n \in Nat /\ \A i \in 1..n : t[i] \in 0..MaxTime /\ i \in 1..MaxItems
    BY <1>3, Sizes
  <2>2. s \in Seq(Items)
    BY <2>1 DEF Items
  <2>3. Len(s) = n
    BY <2>1
  <2>4. QED
    BY <2>2, <2>3
<1>5. input = Append(s, End)
  <2> HIDE DEF s
  <2>1. s \in Seq(Items \cup {End}) /\ End \in Items \cup {End}
    BY <1>4
  <2>2. s \o <<End>> = Append(s, End)
    BY <2>1
  <2>3. QED
    BY <1>2, <2>2 DEF s
<1>6. \A i \in 1..n : s[i].id = i /\ s[i].toa = t[i] /\ s[i] \in Items /\ Ord(s[i]) = i
  BY <1>3, <1>4, Tokens
<1> HIDE DEF s
<1>7. s \in Seq(Items \cup {End}) /\ s \in Blocks
  BY <1>4 DEF Blocks
<1>8. DOMAIN s = 1..n
  BY <1>4
<1>9. Strict(s)
  BY <1>6, <1>8 DEF Strict
<1>10. \A y \in Entries(s) : Ord(y) < Ord(End) /\ \E i \in 1..n : y = s[i]
  BY <1>3, <1>6, <1>8, Tokens, Sizes DEF Entries
<1>11. Strict(input) /\ Entries(input) = Entries(s) \cup {End}
  <2>1. End \in Items \cup {End}
    OBVIOUS
  <2>2. QED
    BY <1>5, <1>7, <1>9, <1>10, <2>1, StrictAppend
<1>12. ASSUME NEW x \in Entries(input), NEW y \in Entries(input), Ord(x) <= Ord(y)
       PROVE  x.toa <= y.toa
  <2>1. End.toa = MaxTime + 1
    BY DEF End
  <2>2. CASE y = End
    <3>1. x.toa <= MaxTime + 1
      BY <1>3, <1>6, <1>10, <1>11, <2>1, Sizes
    <3>2. QED
      BY <2>1, <2>2, <3>1
  <2>3. CASE y # End
    <3>1. PICK j \in 1..n : y = s[j]
      BY <1>10, <1>11, <2>3
    <3>2. x # End
      BY <1>3, <1>6, <1>12, <3>1, Tokens, Sizes
    <3>3. PICK i \in 1..n : x = s[i]
      BY <1>10, <1>11, <3>2
    <3>4. i <= j
      BY <1>6, <1>12, <3>1, <3>3
    <3>5. t[i] <= t[j]
      BY <1>3, <3>4, TimesSorted
    <3>6. QED
      BY <1>6, <3>1, <3>3, <3>5
  <2>4. QED
    BY <2>2, <2>3
<1>13. read = {}
  BY DEF Init
<1>14. QED
  BY <1>11, <1>12, <1>13 DEF StreamHolds

LEMMA OrderInit == Init => OrderInv
<1> SUFFICES ASSUME Init PROVE OrderInv
  OBVIOUS
<1>1. TypeOK /\ StreamHolds
  BY TypeInit, StreamInit
<1>2. /\ read = {} /\ output = <<>> /\ \A n \in Consumers : pc[n] = "read"
      /\ \A n \in Producers : agenda[n] = <<>>
      /\ \A p \in Pipes : wblock[p] = <<>> /\ queue[p] = <<>> /\ rblock[p] = <<>>
      /\ input # <<>>
  <2>1. input # <<>>
    <3>1. PICK n \in 0..MaxItems : \E t \in SortedTimes(n) :
              input = [i \in 1..n |-> [id |-> i, toa |-> t[i]]] \o <<End>>
      BY DEF Init
    <3>2. PICK t \in SortedTimes(n) : input = [i \in 1..n |-> [id |-> i, toa |-> t[i]]] \o <<End>>
      BY <3>1
    <3> DEFINE s == [i \in 1..n |-> [id |-> i, toa |-> t[i]]]
    <3>3. n \in Nat /\ \A i \in 1..n : t[i] \in 0..MaxTime /\ i \in 1..MaxItems
      BY Sizes DEF SortedTimes
    <3>4. s \in Seq(Items)
      BY <3>3 DEF Items
    <3> HIDE DEF s
    <3>5. s \in Seq(Items \cup {End}) /\ <<End>> \in Seq(Items \cup {End}) /\ Len(<<End>>) = 1
      BY <3>4
    <3>6. Len(s \o <<End>>) = Len(s) + Len(<<End>>) /\ Len(s) \in Nat
      BY <3>5, Concatenation
    <3>7. Len(s \o <<End>>) # 0
      BY <3>5, <3>6
    <3>8. QED
      BY <3>2, <3>7 DEF s
  <2>2. QED
    BY <2>1 DEF Init
<1>3. AgendasHold
  BY <1>2, AgendaEmpty DEF AgendasHold
<1>4. BlocksHold
  BY <1>2, EmptyBlocks DEF BlocksHold
<1>5. ASSUME NEW p \in Pipes, NEW k \in 1..4 PROVE PipePart(p, k) = {}
  <2>1. WriterOf(p) \in Producers
    BY PipeEnds
  <2>2. k = 1 \/ k = 2 \/ k = 3 \/ k = 4
    OBVIOUS
  <2>3. QED
    BY <1>2, <2>1, <2>2, PipeParts, EmptyBlocks, AgendaEmpty
<1>6. ASSUME NEW i \in Lane
      PROVE  LaneOrdered(i) /\ InLane(i) /\ NothingLost(i) /\ EndsPassed(i)
  <2>1. \A s \in 0..8 : Part(i, s) = {}
    <3>1. SUFFICES ASSUME NEW s \in 0..8 PROVE Part(i, s) = {}
      OBVIOUS
    <3>2. CASE s = 0
      <4>1. Handed(i) = {}
        BY <1>2, EmptyBlocks, Sizes DEF Handed
      <4>2. QED
        BY <3>2, <4>1, LaneParts
    <3>3. CASE s \in 1..4
      BY <3>3, <1>5, LaneParts, PipeEnds
    <3>4. CASE s - 4 \in 1..4 /\ (s - 4) + 4 = s
      <4>1. Part(i, (s - 4) + 4) = PipePart(In(i), s - 4)
        BY <3>4, LaneParts
      <4>2. PipePart(In(i), s - 4) = {}
        BY <3>4, <1>5, PipeEnds
      <4>3. QED
        BY <3>4, <4>1, <4>2
    <3>5. s \in 0..9 /\ s # 9
      OBVIOUS
    <3>6. QED
      BY <3>2, <3>3, <3>4, <3>5, LaneParts
  <2>2. Part(i, 9) = ToCome(i)
    BY LaneParts
  <2>3. \A s \in 0..9 : s # 9 => Part(i, s) = {}
    <3>1. \A s \in 0..9 : s # 9 => s \in 0..8
      OBVIOUS
    <3>2. QED
      BY <2>1, <3>1
  <2>4. LaneOrdered(i)
    BY <2>3 DEF LaneOrdered
  <2>5. InLane(i)
    <3>1. input \in Seq(Items \cup {End})
      BY <1>1 DEF TypeOK, Blocks
    <3>2. \A x \in Part(i, 9) : x \in Items \cup {End} /\ (IsEnd(x) \/ PipeIndex(x) = i)
      BY <2>2, <3>1, EntriesFacts DEF ToCome
    <3>3. End \in Part(i, 9)
      BY <1>1, <1>2, <2>2, Tokens DEF StreamHolds, ToCome
    <3>4. QED
      BY <2>3, <3>2, <3>3 DEF InLane
  <2>6. NothingLost(i)
    BY <1>2, <2>1 DEF NothingLost
  <2>7. EndsPassed(i)
    BY <1>2, Sizes DEF EndsPassed
  <2>8. QED
    BY <2>4, <2>5, <2>6, <2>7
<1>7. QED
  BY <1>1, <1>3, <1>4, <1>6 DEF OrderInv, OrderHolds, LanesHold

\* Nothing is in two places of a lane.
LEMMA OnePlace ==
  ASSUME NEW i \in Lane, InLane(i), LaneOrdered(i),
         NEW s \in 0..9, NEW t \in 0..9, s < t, NEW x \in Part(i, s)
  PROVE  x \notin Part(i, t)
<1>1. Ord(x) \in Int
  BY Tokens, Sizes DEF InLane
<1>2. QED
  BY <1>1 DEF LaneOrdered

LEMMA LanesStep ==
  ASSUME OrderInv, \A i \in Lane : Advance(i),
         read \subseteq read',
         \A i \in Lane : \A x \in read' :
            PipeIndex(x) = i => x \in read \/ (x \in ToCome(i) /\ x \notin ToCome(i)'),
         \A i \in Lane : \A x \in ToCome(i) :
            x \in ToCome(i)' \/ IsEnd(x) \/ x \in read',
         \A i \in Lane : pc'[i] = "done" =>
            pc[i] = "done" \/ (End \in Part(i, 5) /\ End \notin Part(i, 5)'),
         pc'[Combiner] = "done" =>
            pc[Combiner] = "done" \/ \A i \in Lane : End \in Part(i, 1)
  PROVE  LanesHold'
<1>1. ASSUME NEW i \in Lane
      PROVE  (LaneOrdered(i) /\ InLane(i) /\ NothingLost(i) /\ EndsPassed(i))'
  <2>1. Advance(i) /\ LaneOrdered(i) /\ InLane(i) /\ NothingLost(i) /\ EndsPassed(i)
    BY DEF OrderInv, OrderHolds, LanesHold
  <2>2. /\ LaneOrdered(i)' /\ InLane(i)'
        /\ \A m \in 0..9 : \A x : (\E t \in 0..m : x \in Part(i, t))
                                      => \E t \in 0..m : x \in Part(i, t)'
        /\ \A t \in 0..9 : \A x \in Part(i, t)' :
               x \in Part(i, t) \/ (t < 9 /\ x \in Part(i, t + 1))
    BY <2>1, MovedOn
  <2>3. Part(i, 9) = ToCome(i) /\ Part(i, 9)' = ToCome(i)'
    BY LaneParts
  <2>4. \A x \in read' : PipeIndex(x) = i => \E s \in 0..8 : x \in Part(i, s)'
    <3>1. SUFFICES ASSUME NEW x \in read', PipeIndex(x) = i
                   PROVE  \E s \in 0..8 : x \in Part(i, s)'
      OBVIOUS
    <3>2. CASE x \in read
      <4>1. \E s \in 0..8 : x \in Part(i, s)
        BY <2>1, <3>1, <3>2 DEF NothingLost
      <4>2. 8 \in 0..9
        OBVIOUS
      <4>3. QED
        BY <2>2, <4>1, <4>2
    <3>3. CASE x \in ToCome(i) /\ x \notin ToCome(i)'
      <4>1. 9 \in 0..9 /\ \E t \in 0..9 : x \in Part(i, t)
        BY <2>3, <3>3
      <4>2. PICK t \in 0..9 : x \in Part(i, t)'
        BY <2>2, <4>1
      <4>3. t # 9
        BY <2>3, <3>3, <4>2
      <4>4. t \in 0..8
        BY <4>3
      <4>5. QED
        BY <4>2, <4>4
    <3>4. QED
      BY <3>1, <3>2, <3>3
  <2>5. \A s \in 0..8 : \A x \in Part(i, s)' : IsEnd(x) \/ x \in read'
    <3>1. SUFFICES ASSUME NEW s \in 0..8, NEW x \in Part(i, s)'
                   PROVE  IsEnd(x) \/ x \in read'
      OBVIOUS
    <3>2. s \in 0..9
      OBVIOUS
    <3>3. CASE x \in Part(i, s)
      BY <2>1, <3>3 DEF NothingLost
    <3>4. CASE x \in Part(i, s + 1) /\ s < 8
      <4>1. s + 1 \in 0..8
        BY <3>4
      <4>2. QED
        BY <2>1, <3>4, <4>1 DEF NothingLost
    <3>5. CASE s = 8 /\ x \in Part(i, 9)
      <4>1. x \notin Part(i, 9)'
        <5>1. InLane(i)' /\ LaneOrdered(i)'
          BY <2>2
        <5>2. Ord(x) \in Int
          BY <3>2, <5>1, Tokens, Sizes DEF InLane, Ord, IsEnd
        <5>3. ASSUME x \in Part(i, 9)' PROVE Ord(x) < Ord(x)
          <6>1. 9 \in 0..9 /\ s < 9
            OBVIOUS
          <6>2. QED
            BY <5>1, <5>3, <3>2, <6>1 DEF LaneOrdered, Ord, IsEnd
        <5>4. QED
          BY <5>2, <5>3
      <4>2. QED
        BY <2>3, <3>5, <4>1
    <3>6. QED
      BY <2>2, <3>2, <3>3, <3>4, <3>5
  <2>6. NothingLost(i)'
    BY <2>4, <2>5 DEF NothingLost, IsEnd, PipeIndex
  <2>7. pc'[i] = "done" => \E s \in 0..4 : End \in Part(i, s)'
    <3>1. CASE pc[i] = "done"
      <4>1. 4 \in 0..9 /\ \E s \in 0..4 : End \in Part(i, s)
        BY <2>1, <3>1 DEF EndsPassed
      <4>2. QED
        BY <2>2, <4>1
    <3>2. CASE End \in Part(i, 5) /\ End \notin Part(i, 5)'
      <4>1. 5 \in 0..9 /\ \E s \in 0..5 : End \in Part(i, s)
        BY <3>2
      <4>2. PICK s \in 0..5 : End \in Part(i, s)'
        BY <2>2, <4>1
      <4>3. s \in 0..4
        BY <3>2, <4>2
      <4>4. QED
        BY <4>2, <4>3
    <3>3. QED
      BY <3>1, <3>2
  <2>8. pc'[Combiner] = "done" => \E s \in 0..1 : End \in Part(i, s)'
    <3>1. CASE pc[Combiner] = "done"
      <4>1. 1 \in 0..9 /\ \E s \in 0..1 : End \in Part(i, s)
        BY <2>1, <3>1 DEF EndsPassed
      <4>2. QED
        BY <2>2, <4>1
    <3>2. CASE End \in Part(i, 1)
      <4>1. 1 \in 0..9 /\ \E s \in 0..1 : End \in Part(i, s)
        BY <3>2
      <4>2. QED
        BY <2>2, <4>1
    <3>3. QED
      BY <3>1, <3>2
  <2>9. EndsPassed(i)'
    BY <2>7, <2>8 DEF EndsPassed, End
  <2>10. QED
    BY <2>2, <2>6, <2>9
<1>2. QED
  BY <1>1 DEF LanesHold

LEMMA OrderStep ==
  ASSUME OrderInv, [Next]_vars
  PROVE  OrderInv'
<1>1. TypeOK'
  BY TypeStep DEF OrderInv
<1>2. ASSUME UNCHANGED <<input, read>>, \A i \in Lane : Advance(i), AgendasHold', BlocksHold',
             \A i \in Lane : pc'[i] = "done" =>
               pc[i] = "done" \/ (End \in Part(i, 5) /\ End \notin Part(i, 5)'),
             pc'[Combiner] = "done" =>
               pc[Combiner] = "done" \/ \A i \in Lane : End \in Part(i, 1)
      PROVE  OrderInv'
  <2>1. StreamHolds'
    BY <1>2, SameStream
  <2>2. \A i \in Lane : ToCome(i)' = ToCome(i)
    BY <1>2 DEF ToCome, Entries, IsEnd, PipeIndex
  <2>3. LanesHold'
    BY <1>2, <2>2, LanesStep
  <2>4. QED
    BY <1>1, <1>2, <2>1, <2>3 DEF OrderInv, OrderHolds
<1>3. CASE SourceRead
  <2> DEFINE x == Head(input)
  <2>1. /\ input # <<>> /\ input' = Tail(input) /\ UNCHANGED pc
        /\ read' = IF IsEnd(x) THEN read ELSE read \cup {x}
    BY <1>3 DEF SourceRead
  <2>2. input \in Blocks /\ Strict(input) /\ input' \in Blocks
    BY <1>1 DEF OrderInv, TypeOK, OrderHolds, StreamHolds
  <2>3. /\ Strict(Tail(input)) /\ Entries(Tail(input)) = Entries(input) \ {x}
        /\ x \in Entries(input) /\ x \in Items \cup {End}
        /\ \A y \in Entries(input) : y = x \/ Ord(x) < Ord(y)
    BY <2>1, <2>2, StrictTail
  <2> HIDE DEF x
  <2>4. /\ \A y \in Entries(input) : y \in Items \cup {End}
        /\ input' # <<>> => Entries(input') # {}
    <3>1. input \in Seq(Items \cup {End}) /\ input' \in Seq(Items \cup {End})
      BY <2>2 DEF Blocks
    <3>2. \A y \in Entries(input) : y \in Items \cup {End}
      BY <3>1, EntriesFacts
    <3>3. input' # <<>> => Entries(input') # {}
      <4> DEFINE s == input'
      <4>1. s \in Seq(Items \cup {End})
        BY <3>1
      <4> HIDE DEF s
      <4>2. s # <<>> => Entries(s) # {}
        BY <4>1, EntriesFacts
      <4>3. QED
        BY <4>2 DEF s
    <3>4. QED
      BY <3>2, <3>3
  <2>5. Entries(input') = Entries(input) \ {x}
    BY <2>1, <2>3
  <2>6. input' # <<>> => End \in Entries(input')
    <3>1. SUFFICES ASSUME input' # <<>>, x = End PROVE FALSE
      BY <2>1, <2>5 DEF OrderInv, OrderHolds, StreamHolds
    <3>2. PICK y \in Entries(input') : TRUE
      BY <2>4, <3>1
    <3>3. Ord(End) < Ord(y) /\ y \in Items \cup {End}
      BY <2>3, <2>4, <2>5, <3>1, <3>2
    <3>4. QED
      BY <3>3, Tokens, Sizes
  <2>7. \A y \in read', z \in Entries(input') : Ord(y) < Ord(z)
    <3>1. \A y \in read, z \in Entries(input) : Ord(y) < Ord(z)
      BY DEF OrderInv, OrderHolds, StreamHolds
    <3>2. QED
      BY <2>1, <2>3, <2>5, <3>1
  <2>8. \A y, z \in read' \cup Entries(input') : Ord(y) <= Ord(z) => y.toa <= z.toa
    <3>1. read' \cup Entries(input') \subseteq read \cup Entries(input)
      BY <2>1, <2>3, <2>5
    <3>2. QED
      BY <3>1 DEF OrderInv, OrderHolds, StreamHolds
  <2>9. StreamHolds'
    <3>1. Strict(input)'
      BY <2>1, <2>3 DEF Strict, Ord, IsEnd
    <3>2. QED
      BY <3>1, <2>6, <2>7, <2>8 DEF StreamHolds, Ord, IsEnd
  <2>10. \A i \in Lane : ToCome(i)' = {y \in Entries(input') : IsEnd(y) \/ PipeIndex(y) = i}
    BY DEF ToCome, Entries, IsEnd, PipeIndex
  <2>11. \A i \in Lane : \A y \in read' :
            PipeIndex(y) = i => y \in read \/ (y \in ToCome(i) /\ y \notin ToCome(i)')
    BY <2>1, <2>3, <2>5, <2>10 DEF ToCome
  <2>12. \A i \in Lane : \A y \in ToCome(i) : y \in ToCome(i)' \/ IsEnd(y) \/ y \in read'
    BY <2>1, <2>3, <2>5, <2>10 DEF ToCome
  <2>13. AgendasHold' /\ BlocksHold' /\ \A i \in Lane : Advance(i)
    BY <1>3, SourceMoves
  <2>14. LanesHold'
    <3>1. read \subseteq read'
      BY <2>1
    <3>2. /\ \A i \in Lane : pc'[i] = "done" => pc[i] = "done"
          /\ pc'[Combiner] = "done" => pc[Combiner] = "done"
      BY <2>1
    <3>3. QED
      BY <2>11, <2>12, <2>13, <3>1, <3>2, LanesStep
  <2>15. QED
    BY <1>1, <2>9, <2>13, <2>14 DEF OrderInv, OrderHolds
<1>4. ASSUME NEW n \in Producers, DoWrite(n) \/ DoAccount(n) \/ DoEnqueue(n)
      PROVE  OrderInv'
  <2>1. UNCHANGED <<input, read, pc>>
    BY <1>4 DEF DoWrite, DoAccount, DoEnqueue
  <2>2. AgendasHold' /\ BlocksHold' /\ \A i \in Lane : Advance(i)
    BY <1>4, WriteMoves, AccountMoves, EnqueueMoves
  <2>3. QED
    BY <1>2, <2>1, <2>2
<1>5. ASSUME NEW n \in Consumers, NEW p \in Pipes, Dequeue(n, p)
      PROVE  OrderInv'
  <2>1. UNCHANGED <<input, read>> /\ pc' = [pc EXCEPT ![n] = "settle"]
    BY <1>5 DEF Dequeue
  <2>2. AgendasHold' /\ BlocksHold' /\ \A i \in Lane : Advance(i)
    BY <1>5, DequeueMoves
  <2>3. \A m \in Consumers : pc'[m] = "done" => pc[m] = "done"
    BY <2>1 DEF OrderInv, TypeOK
  <2>4. QED
    BY <1>2, <2>1, <2>2, <2>3, Sizes
<1>6. ASSUME NEW n \in Consumers, Settle(n)
      PROVE  OrderInv'
  <2>1. UNCHANGED <<input, read>> /\ \E s \in {"undefined", "read"} : pc' = [pc EXCEPT ![n] = s]
    BY <1>6 DEF Settle
  <2>2. AgendasHold' /\ BlocksHold' /\ \A i \in Lane : Advance(i)
    BY <1>6, SettleMoves
  <2>3. \A m \in Consumers : pc'[m] = "done" => pc[m] = "done"
    BY <2>1 DEF OrderInv, TypeOK
  <2>4. QED
    BY <1>2, <2>1, <2>2, <2>3, Sizes
<1>7. ASSUME NEW n \in Lane, WorkerRead(n)
      PROVE  OrderInv'
  <2> DEFINE p == In(n)
             x == Head(rblock[p])
  <2>1. /\ UNCHANGED <<input, read>> /\ rblock[p] # <<>>
        /\ pc' = [pc EXCEPT ![n] = IF IsEnd(x) THEN "done" ELSE "read"]
        /\ rblock' = [rblock EXCEPT ![p] = Tail(rblock[p])]
    BY <1>7 DEF WorkerRead
  <2>2. AgendasHold' /\ BlocksHold' /\ \A i \in Lane : Advance(i)
    BY <1>7, WorkerMoves
  <2>3. /\ \A m \in Consumers : m # n => pc'[m] = pc[m]
        /\ pc'[n] = "done" => IsEnd(x)
    BY <2>1, Sizes DEF OrderInv, TypeOK
  <2>4. IsEnd(x) => End \in Part(n, 5) /\ End \notin Part(n, 5)'
    <3>1. p \in Pipes /\ rblock[p] \in Blocks /\ Strict(rblock[p])
      BY PipeEnds DEF OrderInv, TypeOK, OrderHolds, BlocksHold
    <3>2. /\ Entries(Tail(rblock[p])) = Entries(rblock[p]) \ {x}
          /\ x \in Entries(rblock[p]) /\ x \in Items \cup {End}
      BY <2>1, <3>1, StrictTail
    <3>3. rblock'[p] = Tail(rblock[p])
      BY <2>1, <3>1 DEF OrderInv, TypeOK
    <3>4. Part(n, 5) = Entries(rblock[p]) /\ Part(n, 5)' = Entries(rblock'[p])
      <4>1. 1 \in 1..4 /\ 1 + 4 = 5
        OBVIOUS
      <4>2. Part(n, 1 + 4) = PipePart(p, 1) /\ Part(n, 1 + 4)' = PipePart(p, 1)'
        BY <4>1, LaneParts
      <4>3. QED
        BY <4>1, <4>2, PipeParts
    <3> HIDE DEF x
    <3>5. QED
      BY <3>2, <3>3, <3>4, Tokens
  <2>5. QED
    BY <1>2, <2>1, <2>2, <2>3, <2>4, Sizes
<1>8. ASSUME NEW i \in Lane, CombinerRead(i)
      PROVE  OrderInv'
  <2>1. UNCHANGED <<input, read, pc>>
    BY <1>8 DEF CombinerRead
  <2>2. AgendasHold' /\ BlocksHold' /\ \A j \in Lane : Advance(j)
    BY <1>8, ReadMoves
  <2>3. QED
    BY <1>2, <2>1, <2>2
<1>9. CASE CombinerEnd
  <2>1. UNCHANGED <<input, read>> /\ pc' = [pc EXCEPT ![Combiner] = "done"]
    BY <1>9 DEF CombinerEnd
  <2>2. AgendasHold' /\ BlocksHold' /\ \A i \in Lane : Advance(i)
    BY <1>9, EndMoves
  <2>3. \A i \in Lane : pc'[i] = pc[i]
    BY <2>1, Sizes DEF OrderInv, TypeOK
  <2>4. \A i \in Lane : End \in Part(i, 1)
    <3>1. SUFFICES ASSUME NEW i \in Lane PROVE End \in Part(i, 1)
      OBVIOUS
    <3>2. rblock[Out(i)] # <<>> /\ IsEnd(Head(rblock[Out(i)]))
      BY <1>9 DEF CombinerEnd, CombinerSeesAll
    <3>3. rblock[Out(i)] \in Seq(Items \cup {End})
      BY PipeEnds DEF OrderInv, TypeOK, Blocks
    <3>4. Head(rblock[Out(i)]) \in Entries(rblock[Out(i)])
      BY <3>2, <3>3, TailEntries
    <3>5. QED
      BY <3>2, <3>4, PipeLane, Tokens
  <2>5. QED
    BY <1>2, <2>1, <2>2, <2>3, <2>4
<1>10. CASE UNCHANGED vars
  <2>1. UNCHANGED <<input, read, agenda, wblock, queue, rblock, pc, output>>
    BY <1>10 DEF vars
  <2>2. AgendasHold'
    BY <2>1 DEF OrderInv, OrderHolds, AgendasHold, GoodAgenda, Paired, OneWrite, WriterOf
  <2>3. BlocksHold'
    BY <2>1 DEF OrderInv, OrderHolds, BlocksHold, Strict, StrictQueue, Ord, IsEnd, Entries
  <2>4. ASSUME NEW q \in Pipes, NEW l \in 1..4
        PROVE  PipePart(q, l)' = PipePart(q, l)
    <3>1. l = 1 \/ l = 2 \/ l = 3 \/ l = 4
      OBVIOUS
    <3>2. QED
      BY <2>1, <3>1, PipeParts
  <2>5. \A i \in Lane : Handed(i)' = Handed(i) /\ ToCome(i)' = ToCome(i)
    BY <2>1, SameEnds
  <2>6. \A i \in Lane : Advance(i)
    BY <2>4, <2>5, PipeEnds, LaneUntouched
  <2>7. QED
    BY <1>2, <2>1, <2>2, <2>3, <2>6
<1>11. QED
  BY Steps, <1>3, <1>4, <1>5, <1>6, <1>7, <1>8, <1>9, <1>10

\* However the threads interleave, what is on its way through a lane keeps its
\* order from the source to the combiner: no pipe loses, repeats or reorders an
\* item, and the end token stays the last.
THEOREM DataflowOrder == Spec => []OrderInv
  BY OrderInit, OrderStep, PTL DEF Spec

-----------------------------------------------------------------------------
(***************************************************************************)
(* What the combiner hands on is an ordered stream.                        *)
(***************************************************************************)

\* What was handed on had been read.
LEMMA OutputRead ==
  ASSUME OrderInv, NEW e \in Entries(output)
  PROVE  e \in read /\ e \in Items
<1>1. e \in Items
  <2>1. output \in Seq(Items)
    BY DEF OrderInv, TypeOK
  <2>2. QED
    BY <2>1, EntriesFacts
<1>2. PipeIndex(e) \in Lane
  BY <1>1, PipeIndexType
<1>3. NothingLost(PipeIndex(e))
  BY <1>2 DEF OrderInv, OrderHolds, LanesHold
<1>4. e \in Part(PipeIndex(e), 0) /\ 0 \in 0..8
  BY <1>2, LaneParts DEF Handed
<1>5. QED
  BY <1>1, <1>3, <1>4, Tokens DEF NothingLost

\* The head of its lane is not later than anything still pending.
LEMMA HeadIsEarliest ==
  ASSUME OrderInv, CombinerSeesAll, NEW p \in read, p \notin Entries(output)
  PROVE  \E j \in Lane : /\ ~IsEnd(Head(rblock[Out(j)]))
                         /\ Head(rblock[Out(j)]).toa <= p.toa
<1>1. p \in Items
  BY DEF OrderInv, TypeOK
<1>2. PICK j \in Lane : j = PipeIndex(p)
  BY <1>1, PipeIndexType
<1>3. LaneOrdered(j) /\ NothingLost(j)
  BY DEF OrderInv, OrderHolds, LanesHold
<1> DEFINE h == Head(rblock[Out(j)])
<1>4. rblock[Out(j)] # <<>> /\ rblock[Out(j)] \in Blocks /\ Strict(rblock[Out(j)])
  BY PipeEnds DEF CombinerSeesAll, OrderInv, TypeOK, OrderHolds, BlocksHold
<1>5. /\ h \in Entries(rblock[Out(j)]) /\ h \in Items \cup {End}
      /\ \A y \in Entries(rblock[Out(j)]) : y = h \/ Ord(h) < Ord(y)
  BY <1>4, StrictTail
<1> HIDE DEF h
<1>6. h \in Part(j, 1) /\ Part(j, 1) = Entries(rblock[Out(j)])
  <2>1. 1 \in 1..4
    OBVIOUS
  <2>2. QED
    BY <1>5, <2>1, LaneParts, PipeParts
<1>7. PICK s \in 0..8 : p \in Part(j, s)
  BY <1>2, <1>3 DEF NothingLost
<1>8. s # 0
  <2>1. ASSUME s = 0 PROVE FALSE
    <3>1. p \in Handed(j)
      BY <1>7, <2>1, LaneParts
    <3>2. p = End
      BY <3>1 DEF Handed
    <3>3. QED
      BY <1>1, <3>2, Tokens
  <2>2. QED
    BY <2>1
<1>9. h = p \/ Ord(h) < Ord(p)
  <2>1. CASE s = 1
    BY <1>5, <1>6, <1>7, <2>1
  <2>2. CASE s # 1
    <3>1. 1 \in 0..9 /\ s \in 0..9 /\ 1 < s
      BY <1>8, <2>2
    <3>2. QED
      BY <1>3, <1>6, <1>7, <3>1 DEF LaneOrdered
  <2>3. QED
    BY <2>1, <2>2
<1>10. ~IsEnd(h)
  <2>1. ASSUME h = End PROVE FALSE
    BY <1>1, <1>9, <2>1, Tokens, Sizes
  <2>2. QED
    BY <1>5, <2>1, Tokens
<1>11. h \in read
  <2>1. 1 \in 0..8
    OBVIOUS
  <2>2. QED
    BY <1>3, <1>6, <1>10, <2>1 DEF NothingLost
<1>12. Ord(h) <= Ord(p)
  BY <1>1, <1>5, <1>9, Tokens, Sizes
<1>13. h.toa <= p.toa
  BY <1>11, <1>12 DEF OrderInv, OrderHolds, StreamHolds
<1>14. QED
  BY <1>10, <1>13 DEF h

\* While the source still reads, the combiner goes on.
LEMMA NotEndedYet ==
  ASSUME OrderInv, input # <<>>
  PROVE  pc[Combiner] # "done"
<1>1. SUFFICES ASSUME pc[Combiner] = "done" PROVE FALSE
  OBVIOUS
<1>2. 1 \in Lane
  BY Sizes
<1>3. LaneOrdered(1) /\ InLane(1) /\ EndsPassed(1)
  BY <1>2 DEF OrderInv, OrderHolds, LanesHold
<1>4. PICK s \in 0..1 : End \in Part(1, s)
  BY <1>1, <1>3 DEF EndsPassed
<1>5. End \in Part(1, 9)
  BY <1>2, LaneParts, Tokens DEF OrderInv, OrderHolds, StreamHolds, ToCome
<1>6. s \in 0..9 /\ 9 \in 0..9 /\ s < 9
  OBVIOUS
<1>7. QED
  BY <1>2, <1>3, <1>4, <1>5, <1>6, OnePlace

LEMMA StepImplementsStream ==
  ASSUME OrderInv, [Next]_vars
  PROVE  [Stream!Next]_(Stream!vars)
<1>1. Stream!Emitted = Entries(output) /\ Stream!Pending = read \ Entries(output)
  BY DEF Stream!Emitted, Stream!Pending, Entries
<1>2. ASSUME read' = read, output' = output, pc'[Combiner] = "done" <=> pc[Combiner] = "done"
      PROVE  UNCHANGED Stream!vars
  BY <1>2 DEF Stream!vars
<1>3. CASE SourceRead
  <2> DEFINE x == Head(input)
  <2>1. /\ input # <<>> /\ UNCHANGED <<pc, output>>
        /\ read' = IF IsEnd(x) THEN read ELSE read \cup {x}
    BY <1>3 DEF SourceRead
  <2>2. CASE IsEnd(x)
    BY <1>2, <2>1, <2>2
  <2>3. CASE ~IsEnd(x)
    <3>1. input \in Seq(Items \cup {End})
      BY DEF OrderInv, TypeOK, Blocks
    <3>2. x \in Entries(input) /\ x \in Items \cup {End}
      BY <2>1, <3>1, TailEntries
    <3> HIDE DEF x
    <3>3. x \in Items
      BY <2>3, <3>2, Tokens
    <3>4. \A y \in read : Ord(y) < Ord(x) /\ y \in Items
      BY <3>2 DEF OrderInv, TypeOK, OrderHolds, StreamHolds
    <3>5. x \notin read
      BY <3>3, <3>4, Tokens, Sizes
    <3>6. \A e \in Entries(output) : e.toa <= x.toa
      <4>1. SUFFICES ASSUME NEW e \in Entries(output) PROVE e.toa <= x.toa
        OBVIOUS
      <4>2. e \in read /\ e \in Items
        BY OutputRead
      <4>3. Ord(e) <= Ord(x)
        BY <3>3, <3>4, <4>2, Tokens, Sizes
      <4>4. QED
        BY <3>2, <4>2, <4>3 DEF OrderInv, OrderHolds, StreamHolds
    <3>7. pc[Combiner] # "done"
      BY <2>1, NotEndedYet
    <3>8. Stream!Accept(x)
      BY <1>1, <2>1, <2>3, <3>5, <3>6, <3>7 DEF Stream!Accept
    <3>9. QED
      BY <3>3, <3>8 DEF Stream!Next
  <2>4. QED
    BY <2>2, <2>3
<1>4. ASSUME NEW n \in Producers, DoWrite(n) \/ DoAccount(n) \/ DoEnqueue(n)
      PROVE  UNCHANGED Stream!vars
  BY <1>2, <1>4 DEF DoWrite, DoAccount, DoEnqueue
<1>5. ASSUME NEW n \in Consumers, NEW p \in Pipes, Dequeue(n, p)
      PROVE  UNCHANGED Stream!vars
  <2>1. UNCHANGED <<read, output>> /\ pc[n] = "read" /\ pc' = [pc EXCEPT ![n] = "settle"]
    BY <1>5 DEF Dequeue
  <2>2. pc'[Combiner] = "done" <=> pc[Combiner] = "done"
    BY <2>1, Sizes DEF OrderInv, TypeOK
  <2>3. QED
    BY <1>2, <2>1, <2>2
<1>6. ASSUME NEW n \in Consumers, Settle(n)
      PROVE  UNCHANGED Stream!vars
  <2>1. /\ UNCHANGED <<read, output>> /\ pc[n] = "settle"
        /\ \E s \in {"undefined", "read"} : pc' = [pc EXCEPT ![n] = s]
    BY <1>6 DEF Settle
  <2>2. pc'[Combiner] = "done" <=> pc[Combiner] = "done"
    BY <2>1, Sizes DEF OrderInv, TypeOK
  <2>3. QED
    BY <1>2, <2>1, <2>2
<1>7. ASSUME NEW n \in Lane, WorkerRead(n)
      PROVE  UNCHANGED Stream!vars
  <2>1. /\ UNCHANGED <<read, output>>
        /\ \E s \in {"done", "read"} : pc' = [pc EXCEPT ![n] = s]
    BY <1>7 DEF WorkerRead
  <2>2. pc'[Combiner] = pc[Combiner]
    BY <2>1, Sizes DEF OrderInv, TypeOK
  <2>3. QED
    BY <1>2, <2>1, <2>2
<1>8. ASSUME NEW i \in Lane, CombinerRead(i)
      PROVE  Stream!Next
  <2> DEFINE x == Head(rblock[Out(i)])
  <2>1. /\ CombinerSeesAll /\ IsEarliest(i) /\ ~IsEnd(x) /\ pc[Combiner] = "read"
        /\ rblock[Out(i)] # <<>>
        /\ output' = Append(output, x) /\ UNCHANGED <<read, pc>>
    BY <1>8 DEF CombinerRead, CombinerSeesAll, IsEarliest
  <2>2. x \in Entries(rblock[Out(i)])
    <3>1. rblock[Out(i)] \in Seq(Items \cup {End})
      BY PipeEnds DEF OrderInv, TypeOK, Blocks
    <3>2. QED
      BY <2>1, <3>1, TailEntries
  <2>3. x \in Part(i, 1) /\ x \in Items /\ PipeIndex(x) = i
    BY <2>1, <2>2, PipeLane, Tokens
  <2>4. \A q \in read \ Entries(output) : x.toa <= q.toa
    <3>1. SUFFICES ASSUME NEW q \in read, q \notin Entries(output) PROVE x.toa <= q.toa
      OBVIOUS
    <3>2. PICK j \in Lane : /\ ~IsEnd(Head(rblock[Out(j)]))
                            /\ Head(rblock[Out(j)]).toa <= q.toa
      BY <2>1, <3>1, HeadIsEarliest
    <3>3. Head(rblock[Out(j)]).toa \in Int
      <4>1. rblock[Out(j)] \in Seq(Items \cup {End}) /\ rblock[Out(j)] # <<>>
        BY <2>1, PipeEnds DEF OrderInv, TypeOK, Blocks, CombinerSeesAll
      <4>2. Head(rblock[Out(j)]) \in Items
        BY <3>2, <4>1, TailEntries, Tokens
      <4>3. QED
        BY <4>2, Sizes DEF Items
    <3>4. x.toa \in Int /\ q.toa \in Int
      <4>1. \A y \in Items : y.toa \in Int
        BY Sizes DEF Items
      <4>2. q \in Items
        BY <3>1 DEF OrderInv, TypeOK
      <4> HIDE DEF x
      <4>3. QED
        BY <2>3, <4>1, <4>2
    <3>5. x.toa < Head(rblock[Out(j)]).toa \/ x.toa = Head(rblock[Out(j)]).toa
      BY <2>1, <3>2 DEF IsEarliest
    <3> HIDE DEF x
    <3>6. QED
      BY <3>2, <3>3, <3>4, <3>5
  <2> HIDE DEF x
  <2>5. NothingLost(i) /\ InLane(i) /\ LaneOrdered(i)
    BY DEF OrderInv, OrderHolds, LanesHold
  <2>6. x \in read
    <3>1. 1 \in 0..8
      OBVIOUS
    <3>2. QED
      BY <2>3, <2>5, <3>1, Tokens DEF NothingLost
  <2>7. x \notin Entries(output)
    <3>1. 0 \in 0..9 /\ 1 \in 0..9 /\ 0 < 1
      OBVIOUS
    <3>2. x \in Entries(output) => x \in Part(i, 0)
      BY <2>3, LaneParts DEF Handed
    <3>3. QED
      BY <2>3, <2>5, <3>1, <3>2, OnePlace
  <2>8. Stream!Emit(x)
    BY <1>1, <2>1, <2>4, <2>6, <2>7 DEF Stream!Emit
  <2>9. QED
    BY <2>3, <2>8 DEF Stream!Next
<1>9. CASE CombinerEnd
  <2>1. /\ CombinerSeesAll /\ pc[Combiner] = "read"
        /\ \A j \in Lane : IsEnd(Head(rblock[Out(j)]))
        /\ pc' = [pc EXCEPT ![Combiner] = "done"] /\ UNCHANGED <<read, output>>
    BY <1>9 DEF CombinerEnd, CombinerSeesAll
  <2>2. read \ Entries(output) = {}
    BY <2>1, HeadIsEarliest
  <2>3. pc'[Combiner] = "done"
    BY <2>1, Sizes DEF OrderInv, TypeOK
  <2>4. Stream!End
    BY <1>1, <2>1, <2>2, <2>3 DEF Stream!End
  <2>5. QED
    BY <2>4 DEF Stream!Next
<1>10. CASE UNCHANGED vars
  BY <1>10 DEF vars, Stream!vars
<1>11. QED
  BY Steps, <1>3, <1>4, <1>5, <1>6, <1>7, <1>8, <1>9, <1>10

(***************************************************************************)
(* The combiner implements OrderedStream: whatever the threads do and      *)
(* however the stream falls on the lanes, it hands on what the source      *)
(* read, each item once, in time order, and all of it before it ends.      *)
(***************************************************************************)
THEOREM CombinerImplementsOrderedStream == Spec => CombinesInOrder
<1>1. Init => Stream!Init
  BY Sizes DEF Init, Stream!Init
<1>2. OrderInv /\ [Next]_vars => [Stream!Next]_(Stream!vars)
  BY StepImplementsStream
<1>3. QED
  BY DataflowOrder, <1>1, <1>2, PTL DEF Spec, CombinesInOrder, Stream!Spec

-----------------------------------------------------------------------------
(***************************************************************************)
(* The combiner peeks into no empty block.                                 *)
(***************************************************************************)
LEMMA WorkerTodo ==
  ASSUME NEW p \in Pipes, NEW a, WorkerAgenda(p, a), a # <<>>
  PROVE  /\ Head(a).pipe = p
         /\ Head(a).op = "write" =>
              \/ Head(a).item \in Items /\ Tail(a) = <<>>
              \/ Head(a).item = End /\ Tail(a) = <<Account(p), Enqueue(p)>>
         /\ Head(a).op = "account" =>
              \/ a \in Once(p) /\ Tail(a) = <<Enqueue(p)>>
              \/ a \in Twice(p) /\ Tail(a) = <<Enqueue(p), Account(p), Enqueue(p)>>
         /\ Head(a).op = "enqueue" =>
              \/ a \in Once(p) /\ Tail(a) = <<>>
              \/ a \in Twice(p) /\ Tail(a) = <<Account(p), Enqueue(p)>>
<1>1. /\ Account(p).op = "account" /\ Account(p).pipe = p
      /\ Enqueue(p).op = "enqueue" /\ Enqueue(p).pipe = p
      /\ \A x : Write(p, x).op = "write" /\ Write(p, x).pipe = p /\ Write(p, x).item = x
  BY DEF Account, Enqueue, Write
<1>2. CASE a \in Writing(p)
  <2>1. PICK x \in Items : a = <<Write(p, x)>>
    BY <1>2 DEF Writing
  <2>2. Head(a) = Write(p, x) /\ Tail(a) = <<>>
    BY <2>1
  <2>3. QED
    BY <1>1, <2>2
<1>3. CASE a \in Closing(p)
  <2>1. a = <<Write(p, End), Account(p), Enqueue(p)>>
    BY <1>3 DEF Closing
  <2>2. Head(a) = Write(p, End) /\ Tail(a) = <<Account(p), Enqueue(p)>>
    BY <2>1
  <2>3. QED
    BY <1>1, <2>2
<1>4. CASE a \in Once(p)
  <2>1. CASE a = <<Account(p), Enqueue(p)>>
    <3>1. Head(a) = Account(p) /\ Tail(a) = <<Enqueue(p)>>
      BY <2>1
    <3>2. QED
      BY <1>1, <1>4, <3>1
  <2>2. CASE a = <<Enqueue(p)>>
    <3>1. Head(a) = Enqueue(p) /\ Tail(a) = <<>>
      BY <2>2
    <3>2. QED
      BY <1>1, <1>4, <3>1
  <2>3. QED
    BY <1>4, <2>1, <2>2 DEF Once
<1>5. CASE a \in Twice(p)
  <2>1. CASE a = <<Account(p), Enqueue(p), Account(p), Enqueue(p)>>
    <3>1. Head(a) = Account(p) /\ Tail(a) = <<Enqueue(p), Account(p), Enqueue(p)>>
      BY <2>1
    <3>2. QED
      BY <1>1, <1>5, <3>1
  <2>2. CASE a = <<Enqueue(p), Account(p), Enqueue(p)>>
    <3>1. Head(a) = Enqueue(p) /\ Tail(a) = <<Account(p), Enqueue(p)>>
      BY <2>2
    <3>2. QED
      BY <1>1, <1>5, <3>1
  <2>3. QED
    BY <1>5, <2>1, <2>2 DEF Twice
<1>6. QED
  BY <1>2, <1>3, <1>4, <1>5 DEF WorkerAgenda

\* Agendas are told apart by their lengths and heads.
LEMMA Shapes ==
  ASSUME NEW p
  PROVE  /\ <<>> \in Writing(p) /\ <<>> \notin Once(p) /\ <<>> \notin Twice(p)
         /\ \A x \in Items : /\ <<Write(p, x)>> \in Writing(p)
                             /\ <<Write(p, x)>> \notin Once(p)
                             /\ <<Write(p, x)>> \notin Twice(p)
         /\ <<Write(p, End), Account(p), Enqueue(p)>> \in Closing(p)
         /\ <<Write(p, End), Account(p), Enqueue(p)>> \notin Once(p)
         /\ <<Write(p, End), Account(p), Enqueue(p)>> \notin Twice(p)
         /\ <<Account(p), Enqueue(p)>> \in Once(p) /\ <<Account(p), Enqueue(p)>> \notin Twice(p)
         /\ <<Enqueue(p)>> \in Once(p) /\ <<Enqueue(p)>> \notin Twice(p)
         /\ <<Account(p), Enqueue(p), Account(p), Enqueue(p)>> \in Twice(p)
         /\ <<Account(p), Enqueue(p), Account(p), Enqueue(p)>> \notin Once(p)
         /\ <<Enqueue(p), Account(p), Enqueue(p)>> \in Twice(p)
         /\ <<Enqueue(p), Account(p), Enqueue(p)>> \notin Once(p)
<1>1. \A x : Write(p, x) # Account(p) /\ Write(p, x) # Enqueue(p)
  <2>1. \A x : Write(p, x).op = "write"
    BY DEF Write
  <2>2. Account(p).op = "account" /\ Enqueue(p).op = "enqueue"
    BY DEF Account, Enqueue
  <2>3. QED
    BY <2>1, <2>2
<1>2. QED
  BY <1>1 DEF Writing, Closing, Once, Twice

\* The pipes in reach of a thread.
LEMMA WorkerPipes ==
  /\ \A n \in Lane, p \in Pipes : WriterOf(p) = n => p = Out(n)
  /\ \A p \in Pipes : WriterOf(p) = 0 => \E j \in Lane : p = In(j)
  /\ \A n \in Lane, p \in Pipes : ReaderOf(p) = n => p = In(n)
  /\ \A p \in Pipes : ReaderOf(p) = Combiner => \E j \in Lane : p = Out(j)
  /\ \A n \in Producers : n # 0 => n \in Lane
  /\ \A n \in Consumers : n # Combiner => n \in Lane
<1>1. /\ \A n \in Producers : n # 0 => n \in Lane
      /\ \A n \in Consumers : n # Combiner => n \in Lane
  BY Sizes DEF Producers, Consumers, Combiner, Lane
<1>2. \A n \in Lane, p \in Pipes : WriterOf(p) = n => p = Out(n)
  BY PipeEnds, Sizes
<1>3. \A p \in Pipes : WriterOf(p) = 0 => \E j \in Lane : p = In(j)
  BY PipeEnds, Sizes
<1>4. \A n \in Lane, p \in Pipes : ReaderOf(p) = n => p = In(n)
  BY PipeEnds, Sizes
<1>5. \A p \in Pipes : ReaderOf(p) = Combiner => \E j \in Lane : p = Out(j)
  BY PipeEnds, Sizes
<1>6. QED
  BY <1>1, <1>2, <1>3, <1>4, <1>5

PeekLane(i) == WorkerAgenda(Out(i), agenda[i]) /\ EmptyAfterEnd(Out(i))

LEMMA FourOperations ==
  ASSUME NEW S, NEW s \in Seq(S), NEW r \in Seq(S), Len(s) = 2, Len(r) = 2
  PROVE  s \o r = <<s[1], s[2], r[1], r[2]>>
<1> DEFINE t == <<s[1], s[2], r[1], r[2]>>
<1>1. s[1] \in S /\ s[2] \in S /\ r[1] \in S /\ r[2] \in S
  <2>1. /\ 1 \in 1..Len(s) /\ 2 \in 1..Len(s) /\ 1 \in 1..Len(r) /\ 2 \in 1..Len(r)
        /\ DOMAIN s = 1..Len(s) /\ DOMAIN r = 1..Len(r)
    OBVIOUS
  <2>2. QED
    BY <2>1, EntriesFacts
<1>2. /\ t \in Seq(S) /\ Len(t) = 4
      /\ t[1] = s[1] /\ t[2] = s[2] /\ t[3] = r[1] /\ t[4] = r[2]
  BY <1>1
<1> HIDE DEF t
<1>3. /\ s \o r \in Seq(S) /\ Len(s \o r) = 4
      /\ (s \o r)[1] = s[1] /\ (s \o r)[2] = s[2] /\ (s \o r)[3] = r[1] /\ (s \o r)[4] = r[2]
  <2>1. /\ s \o r \in Seq(S) /\ Len(s \o r) = Len(s) + Len(r)
        /\ \A k \in 1..Len(s) : (s \o r)[k] = s[k]
        /\ \A k \in 1..Len(r) : (s \o r)[Len(s) + k] = r[k]
    BY Concatenation, SMTT(30)
  <2>2. 1 \in 1..2 /\ 2 \in 1..2 /\ 2 + 1 = 3 /\ 2 + 2 = 4
    OBVIOUS
  <2>3. QED
    BY <2>1, <2>2
<1>4. \A k \in 1..4 : (s \o r)[k] = t[k]
  <2>1. \A k \in 1..4 : k = 1 \/ k = 2 \/ k = 3 \/ k = 4
    OBVIOUS
  <2>2. QED
    BY <1>2, <1>3, <2>1
<1>5. s \o r = t
  BY <1>2, <1>3, <1>4
<1>6. QED
  BY <1>5 DEF t

LEMMA PeekNext ==
  ASSUME NEW n \in Lane,
         agenda'[n] \in Writing(Out(n)) \cup Closing(Out(n)) \cup Once(Out(n)) \cup Twice(Out(n)),
         agenda'[n] \in Twice(Out(n)) => EndIn(wblock'[Out(n)]),
         agenda'[n] \in Once(Out(n)) => wblock'[Out(n)] # <<>> \/ EndSent(Out(n))',
         EmptyAfterEnd(Out(n))'
  PROVE  PeekLane(n)'
  BY DEF PeekLane, WorkerAgenda, Writing, Closing, Once, Twice, Write, Account, Enqueue,
         EndIn, Entries, End, Items, Out

\* Steps that leave the pipe out of a lane alone.
LEMMA PeekLaneSame ==
  ASSUME NEW i \in Lane, PeekLane(i),
         agenda'[i] = agenda[i], wblock'[Out(i)] = wblock[Out(i)],
         queue'[Out(i)] = queue[Out(i)], rblock'[Out(i)] = rblock[Out(i)],
         pc[Combiner] = "done" => pc'[Combiner] = "done"
  PROVE  PeekLane(i)'
<1> DEFINE o == Out(i)
<1>1. EndSent(o) => EndSent(o)'
  BY DEF EndSent, EndIn, Entries, End
<1>2. EndIn(wblock[o]) => EndIn(wblock[o])'
  BY DEF EndIn, Entries, End
<1>3. WorkerAgenda(o, agenda[i])'
  BY <1>1, <1>2 DEF PeekLane, WorkerAgenda, Writing, Closing, Once, Twice, Write, Account, Enqueue, End, Out
<1>4. EmptyAfterEnd(o)'
  BY DEF PeekLane, EmptyAfterEnd, EndIn, Entries, End, Out
<1>5. QED
  BY <1>3, <1>4 DEF PeekLane, Out

LEMMA PeekWrite ==
  ASSUME OrderInv, NEW n \in Lane, PeekLane(n), DoWrite(n)
  PROVE  PeekLane(n)'
<1> DEFINE o == Out(n)
           a == agenda[n]
           x == Head(a).item
           block == Append(wblock[o], x)
<1>1. WorkerAgenda(o, a) /\ a # <<>> /\ Head(a).op = "write" /\ o \in Pipes /\ n \in Producers
  BY PipeEnds, Sizes DEF PeekLane, DoWrite
<1>2. /\ Head(a).pipe = o
      /\ \/ x \in Items /\ Tail(a) = <<>>
         \/ x = End /\ Tail(a) = <<Account(o), Enqueue(o)>>
  BY <1>1, WorkerTodo
<1>3. /\ wblock' = [wblock EXCEPT ![o] = block]
      /\ \E f \in {<<>>, Flush(o)} : agenda' = [agenda EXCEPT ![n] = f \o Tail(a)]
      /\ UNCHANGED <<queue, rblock, pc>>
  <2>1. /\ wblock' = [wblock EXCEPT ![Head(a).pipe] = Append(wblock[Head(a).pipe], x)]
        /\ agenda' = [agenda EXCEPT ![n] =
              (IF Bytes(Append(wblock[Head(a).pipe], x)) < Capacity THEN <<>> ELSE Flush(Head(a).pipe))
                  \o Tail(a)]
        /\ UNCHANGED <<queue, rblock, pc>>
    BY DEF DoWrite
  <2>2. (IF Bytes(block) < Capacity THEN <<>> ELSE Flush(o)) \in {<<>>, Flush(o)}
    OBVIOUS
  <2>3. QED
    BY <1>2, <2>1, <2>2
<1>4. PICK f \in {<<>>, Flush(o)} : agenda' = [agenda EXCEPT ![n] = f \o Tail(a)]
  BY <1>3
<1> HIDE DEF a, x
<1>5. wblock[o] \in Seq(Items \cup {End}) /\ x \in Items \cup {End}
  BY <1>1, <1>2 DEF OrderInv, TypeOK, Blocks
<1>6. wblock'[o] = block /\ block # <<>> /\ x \in Entries(block)
  <2>1. wblock'[o] = block
    BY <1>1, <1>3 DEF OrderInv, TypeOK
  <2>2. x \in Entries(block) /\ block \in Seq(Items \cup {End})
    BY <1>5, AppendEntries
  <2> HIDE DEF block
  <2>3. QED
    BY <2>1, <2>2, EntriesFacts
<1> HIDE DEF block
<1>7. agenda'[n] = f \o Tail(a)
  BY <1>1, <1>4 DEF OrderInv, TypeOK
<1>8. Flush(o) = <<Account(o), Enqueue(o)>>
  BY DEF Flush
<1>9. /\ agenda'[n] \in Writing(o) \cup Closing(o) \cup Once(o) \cup Twice(o)
      /\ agenda'[n] \in Twice(o) => EndIn(wblock'[o])
      /\ agenda'[n] \in Once(o) => wblock'[o] # <<>> \/ EndSent(o)'
  <2> HIDE DEF o
  <2>1. CASE x \in Items /\ Tail(a) = <<>>
    <3>1. agenda'[n] = <<>> \/ agenda'[n] = <<Account(o), Enqueue(o)>>
      <4>1. <<>> \o <<>> = <<>> /\ <<Account(o), Enqueue(o)>> \o <<>> = <<Account(o), Enqueue(o)>>
        OBVIOUS
      <4>2. QED
        BY <1>4, <1>7, <1>8, <2>1, <4>1
    <3>2. QED
      BY <1>6, <3>1, Shapes
  <2>2. CASE x = End /\ Tail(a) = <<Account(o), Enqueue(o)>>
    <3>1. \/ agenda'[n] = <<Account(o), Enqueue(o)>>
          \/ agenda'[n] = <<Account(o), Enqueue(o), Account(o), Enqueue(o)>>
      <4>1. <<>> \o <<Account(o), Enqueue(o)>> = <<Account(o), Enqueue(o)>>
        OBVIOUS
      <4>3. <<Account(o), Enqueue(o)>> \o <<Account(o), Enqueue(o)>>
                = <<Account(o), Enqueue(o), Account(o), Enqueue(o)>>
        <5> DEFINE f2 == <<Account(o), Enqueue(o)>>
        <5>1. f2 \in Seq({Account(o), Enqueue(o)}) /\ Len(f2) = 2
              /\ f2[1] = Account(o) /\ f2[2] = Enqueue(o)
          OBVIOUS
        <5> HIDE DEF f2
        <5>2. f2 \o f2 = <<f2[1], f2[2], f2[1], f2[2]>>
          BY <5>1, FourOperations
        <5>3. QED
          BY <5>1, <5>2 DEF f2
      <4>2. QED
        BY <1>4, <1>7, <1>8, <2>2, <4>1, <4>3
    <3>2. EndIn(wblock'[o])
      BY <1>6, <2>2 DEF EndIn
    <3>3. QED
      BY <1>6, <3>1, <3>2, Shapes
  <2>3. QED
    BY <1>2, <2>1, <2>2 DEF x, a, o
<1>10. EmptyAfterEnd(o)'
  BY <1>3 DEF PeekLane, EmptyAfterEnd, EndIn, Entries, End, Out
<1>11. QED
  BY <1>9, <1>10, PeekNext

LEMMA PeekAccount ==
  ASSUME OrderInv, NEW n \in Lane, PeekLane(n), DoAccount(n)
  PROVE  PeekLane(n)'
<1> DEFINE o == Out(n)
           a == agenda[n]
<1>1. /\ WorkerAgenda(o, a) /\ a # <<>> /\ Head(a).op = "account" /\ o \in Pipes /\ n \in Producers
      /\ agenda' = [agenda EXCEPT ![n] = Tail(a)]
      /\ UNCHANGED <<wblock, queue, rblock, pc>>
  BY PipeEnds, Sizes DEF PeekLane, DoAccount
<1>2. \/ a \in Once(o) /\ Tail(a) = <<Enqueue(o)>>
      \/ a \in Twice(o) /\ Tail(a) = <<Enqueue(o), Account(o), Enqueue(o)>>
  BY <1>1, WorkerTodo
<1>3. agenda'[n] = Tail(a)
  BY <1>1 DEF OrderInv, TypeOK
<1>4. /\ a \in Once(o) => wblock'[o] # <<>> \/ EndSent(o)'
      /\ a \in Twice(o) => EndIn(wblock'[o])
  BY <1>1 DEF WorkerAgenda, EndSent, EndIn, Entries, End
<1> HIDE DEF a
<1>5. /\ agenda'[n] \in Writing(o) \cup Closing(o) \cup Once(o) \cup Twice(o)
      /\ agenda'[n] \in Twice(o) => EndIn(wblock'[o])
      /\ agenda'[n] \in Once(o) => wblock'[o] # <<>> \/ EndSent(o)'
  <2> HIDE DEF o
  <2>1. QED
    BY <1>2, <1>3, <1>4, Shapes
<1>6. EmptyAfterEnd(o)'
  BY <1>1 DEF PeekLane, EmptyAfterEnd, EndIn, Entries, End, Out
<1>7. QED
  BY <1>5, <1>6, PeekNext

LEMMA PeekEnqueue ==
  ASSUME OrderInv, NEW n \in Lane, PeekLane(n), DoEnqueue(n)
  PROVE  PeekLane(n)'
<1> DEFINE o == Out(n)
           a == agenda[n]
           q == queue[o]
           q1 == Append(q, wblock[o])
           m == Len(q)
<1>1. WorkerAgenda(o, a) /\ a # <<>> /\ Head(a).op = "enqueue" /\ o \in Pipes /\ n \in Producers
  BY PipeEnds, Sizes DEF PeekLane, DoEnqueue
<1>2. /\ Head(a).pipe = o
      /\ \/ a \in Once(o) /\ Tail(a) = <<>>
         \/ a \in Twice(o) /\ Tail(a) = <<Account(o), Enqueue(o)>>
  BY <1>1, WorkerTodo
<1>3. /\ agenda' = [agenda EXCEPT ![n] = Tail(a)]
      /\ queue' = [queue EXCEPT ![o] = q1]
      /\ wblock' = [wblock EXCEPT ![o] = <<>>]
      /\ UNCHANGED <<rblock, pc>>
  BY <1>2 DEF DoEnqueue
<1>4. agenda'[n] = Tail(a) /\ queue'[o] = q1 /\ wblock'[o] = <<>>
  BY <1>1, <1>3 DEF OrderInv, TypeOK
<1>5. q \in Seq(Blocks) /\ wblock[o] \in Blocks
  BY <1>1 DEF OrderInv, TypeOK
<1>6. /\ DOMAIN q1 = DOMAIN q \cup {m + 1}
      /\ \A k \in DOMAIN q : k < m + 1 /\ q1[k] = q[k]
      /\ q1[m + 1] = wblock[o]
      /\ m \in Nat
      /\ DOMAIN q = 1..m
  BY <1>5, AppendEntries
<1>7. /\ a \in Once(o) => wblock[o] # <<>> \/ EndSent(o)
      /\ a \in Twice(o) => EndIn(wblock[o])
  BY <1>1 DEF WorkerAgenda
<1> HIDE DEF a, q, q1, m
<1>8. a \in Twice(o) => EndSent(o)'
  <2>1. m + 1 \in DOMAIN q1
    BY <1>6
  <2>2. a \in Twice(o) => EndIn(queue'[o][m + 1]) /\ m + 1 \in DOMAIN queue'[o]
    BY <1>4, <1>6, <1>7, <2>1
  <2>3. QED
    BY <2>2 DEF EndSent, EndIn, Entries, End
<1>9. /\ agenda'[n] \in Writing(o) \cup Closing(o) \cup Once(o) \cup Twice(o)
      /\ agenda'[n] \in Twice(o) => EndIn(wblock'[o])
      /\ agenda'[n] \in Once(o) => wblock'[o] # <<>> \/ EndSent(o)'
  <2> HIDE DEF o
  <2>1. QED
    BY <1>2, <1>4, <1>8, Shapes DEF a
<1>10. ASSUME NEW k \in DOMAIN q1, q1[k] = <<>>
       PROVE  \/ pc[Combiner] = "done"
              \/ EndIn(rblock[o])
              \/ \E j \in 1..(k - 1) : EndIn(q1[j])
  <2>1. CASE k \in DOMAIN q
    <3>1. \/ pc[Combiner] = "done"
          \/ EndIn(rblock[o])
          \/ \E j \in 1..(k - 1) : EndIn(q[j])
      BY <1>6, <1>10, <2>1 DEF PeekLane, EmptyAfterEnd, q
    <3>2. \A j \in 1..(k - 1) : q1[j] = q[j]
      BY <1>6, <2>1
    <3>3. QED
      BY <3>1, <3>2
  <2>2. CASE k = m + 1
    <3>1. wblock[o] = <<>>
      BY <1>6, <1>10, <2>2
    <3>2. ~EndIn(wblock[o])
      BY <3>1 DEF EndIn, Entries
    <3>3. EndSent(o)
      BY <1>2, <1>7, <3>1, <3>2 DEF a
    <3>4. \A j \in DOMAIN q : j \in 1..(k - 1) /\ q1[j] = q[j]
      BY <1>6, <2>2
    <3>5. QED
      BY <3>3, <3>4 DEF EndSent, q
  <2>3. QED
    BY <1>6, <2>1, <2>2
<1>11. EmptyAfterEnd(o)'
  <2>1. ASSUME NEW k \in DOMAIN queue'[o], queue'[o][k] = <<>>
        PROVE  \/ pc'[Combiner] = "done"
               \/ EndIn(rblock'[o])
               \/ \E j \in 1..(k - 1) : EndIn(queue'[o][j])
    <3>1. k \in DOMAIN q1 /\ q1[k] = <<>> /\ pc' = pc /\ rblock' = rblock
      BY <1>3, <1>4, <2>1
    <3>2. QED
      BY <1>4, <1>10, <3>1
  <2>2. QED
    BY <2>1 DEF EmptyAfterEnd, EndIn, Entries, End, Out
<1>12. QED
  BY <1>9, <1>11, PeekNext


\* A step of the combiner on the pipe out of a lane.
LEMMA PeekLaneRead ==
  ASSUME NEW i \in Lane, PeekLane(i),
         agenda'[i] = agenda[i], wblock'[Out(i)] = wblock[Out(i)],
         EndSent(Out(i)) => EndSent(Out(i))', EmptyAfterEnd(Out(i))'
  PROVE  PeekLane(i)'
  BY PeekNext DEF PeekLane, WorkerAgenda

\* A consumer dequeues from the pipes it reads.
Readers == \A n \in Consumers : ReaderOf(reading[n]) = n

LEMMA InPipesReader ==
  ASSUME NEW n \in Consumers, NEW k \in DOMAIN InPipes(n)
  PROVE  InPipes(n)[k] \in Pipes /\ ReaderOf(InPipes(n)[k]) = n
<1>1. CASE n = Combiner
  <2>1. InPipes(n) = [i \in Lane |-> Out(i)]
    BY <1>1 DEF InPipes
  <2>2. QED
    BY <1>1, <2>1, PipeEnds
<1>2. CASE n # Combiner
  <2>1. InPipes(n) = <<In(n)>> /\ n \in Lane
    BY <1>2, WorkerPipes DEF InPipes
  <2>2. InPipes(n)[k] = In(n)
    BY <2>1
  <2>3. QED
    BY <2>1, <2>2, PipeEnds
<1>3. QED
  BY <1>1, <1>2

LEMMA StarvingReader ==
  ASSUME NEW n \in Consumers, NEW p \in Pipes, Starving(n, p)
  PROVE  ReaderOf(p) = n /\ rblock[p] = <<>>
  BY InPipesReader DEF Starving

LEMMA ReadersInit == Init => Readers
<1>1. \A n \in Consumers : 1 \in DOMAIN InPipes(n)
  BY Sizes DEF InPipes, Lane
<1>2. \A n \in Consumers : ReaderOf(InPipes(n)[1]) = n
  BY <1>1, InPipesReader
<1>3. Init => \A n \in Consumers : reading[n] = InPipes(n)[1]
  BY DEF Init
<1>4. QED
  BY <1>2, <1>3 DEF Readers

LEMMA ReadersStep ==
  ASSUME TypeOK, Readers, [Next]_vars
  PROVE  Readers'
<1>1. CASE UNCHANGED reading
  BY <1>1 DEF Readers, ReaderOf, Combiner
<1>2. ASSUME NEW n \in Consumers, NEW p \in Pipes, Dequeue(n, p)
      PROVE  Readers'
  <2>1. ReaderOf(p) = n /\ reading' = [reading EXCEPT ![n] = p]
    BY <1>2, StarvingReader DEF Dequeue
  <2>2. \A m \in Consumers : ReaderOf(reading'[m]) = m
    BY <2>1 DEF TypeOK, Readers
  <2>3. QED
    BY <2>2 DEF Readers, ReaderOf, Combiner
<1>3. QED
  BY <1>1, <1>2, Steps DEF SourceRead, DoWrite, DoAccount, DoEnqueue, Settle, WorkerRead,
                           CombinerRead, CombinerEnd, vars

PeekInv == OrderInv /\ PeeksHold

LEMMA PeekInit == Init => PeekInv
<1> SUFFICES ASSUME Init PROVE PeekInv
  OBVIOUS
<1>1. OrderInv /\ Readers
  BY OrderInit, ReadersInit
<1>2. /\ \A i \in Lane : agenda[i] = <<>> /\ queue[Out(i)] = <<>>
      /\ pc[Combiner] = "read"
  BY Sizes, PipeEnds DEF Init
<1>3. ASSUME NEW i \in Lane PROVE WorkerAgenda(Out(i), agenda[i]) /\ EmptyAfterEnd(Out(i))
  <2>1. WorkerAgenda(Out(i), agenda[i])
    <3>1. PICK o : o = Out(i)
      OBVIOUS
    <3>2. agenda[i] \in Writing(o) /\ agenda[i] \notin Once(o) /\ agenda[i] \notin Twice(o)
      BY <1>2, Shapes
    <3>3. QED
      BY <3>1, <3>2 DEF WorkerAgenda
  <2>2. DOMAIN queue[Out(i)] = {}
    BY <1>2
  <2>3. QED
    BY <2>1, <2>2 DEF EmptyAfterEnd
<1>4. QED
  BY <1>1, <1>2, <1>3 DEF PeekInv, PeeksHold, Readers

\* No block in front of which the combiner waits is empty.
LEMMA HeadNotEmpty ==
  ASSUME OrderInv, PeeksHold, NEW i \in Lane,
         pc[Combiner] = "read", rblock[Out(i)] = <<>>, queue[Out(i)] # <<>>
  PROVE  Head(queue[Out(i)]) # <<>>
<1> DEFINE o == Out(i)
           q == queue[o]
<1>1. q \in Seq(Blocks) /\ q # <<>>
  BY PipeEnds DEF OrderInv, TypeOK
<1>2. EmptyAfterEnd(o) /\ rblock[o] = <<>>
  BY DEF PeeksHold
<1> HIDE DEF q, o
<1>3. 1 \in DOMAIN q /\ Head(q) = q[1]
  BY <1>1, TailEntries
<1>4. ~EndIn(rblock[o])
  BY <1>2 DEF EndIn, Entries
<1>5. q[1] = <<>> => \E j \in 1..(1 - 1) : EndIn(q[j])
  BY <1>2, <1>3, <1>4 DEF EmptyAfterEnd, q
<1>6. QED
  BY <1>3, <1>5 DEF q, o

LEMMA PeekDequeue ==
  ASSUME OrderInv, PeeksHold, NEW i \in Lane, NEW n \in Consumers, Dequeue(n, Out(i))
  PROVE  PeekLane(i)'
<1> DEFINE o == Out(i)
           q == queue[o]
           q1 == Tail(q)
<1>1. o \in Pipes /\ rblock[o] = <<>> /\ n = Combiner /\ PeekLane(i)
  BY StarvingReader, PipeEnds DEF Dequeue, PeeksHold, PeekLane
<1>2. /\ rblock' = [rblock EXCEPT ![o] = Head(q)]
      /\ queue' = [queue EXCEPT ![o] = q1]
      /\ q # <<>> /\ pc[Combiner] = "read"
      /\ UNCHANGED <<agenda, wblock>>
  BY <1>1 DEF Dequeue
<1>3. q \in Seq(Blocks) /\ rblock'[o] = Head(q) /\ queue'[o] = q1
  BY <1>1, <1>2 DEF OrderInv, TypeOK
<1>4. ~EndIn(rblock[o]) /\ pc[Combiner] # "done"
  BY <1>1, <1>2 DEF EndIn, Entries
<1> HIDE DEF q, q1
<1>5. /\ Head(q) = q[1]
      /\ \A k \in DOMAIN q1 : k + 1 \in DOMAIN q /\ q1[k] = q[k + 1]
      /\ \A k \in DOMAIN q : k # 1 => k - 1 \in DOMAIN q1 /\ q1[k - 1] = q[k]
  BY <1>2, <1>3, TailEntries DEF q1
<1>6. DOMAIN q = 1..Len(q) /\ Len(q) \in Nat /\ DOMAIN q1 \subseteq Nat \ {0}
  <2>1. q1 \in Seq(Blocks)
    BY <1>2, <1>3, TailEntries DEF q1
  <2>2. QED
    BY <1>3, <2>1, EntriesFacts
<1>7. EndSent(o) => EndSent(o)'
  <2>1. SUFFICES ASSUME EndSent(o) PROVE EndSent(o)'
    OBVIOUS
  <2>2. PICK k \in DOMAIN q : EndIn(q[k])
    BY <1>4, <2>1 DEF EndSent, q
  <2>3. CASE k = 1
    <3>1. EndIn(rblock'[o])
      BY <1>3, <1>5, <2>2, <2>3
    <3>2. QED
      BY <3>1 DEF EndSent, EndIn, Entries, End, Out
  <2>4. CASE k # 1
    <3>1. k - 1 \in DOMAIN queue'[o] /\ EndIn(queue'[o][k - 1])
      BY <1>3, <1>5, <2>2, <2>4
    <3>2. QED
      BY <3>1 DEF EndSent, EndIn, Entries, End, Out
  <2>5. QED
    BY <2>3, <2>4
<1>8. EmptyAfterEnd(o)'
  <2>1. ASSUME NEW k \in DOMAIN q1, q1[k] = <<>>
        PROVE  EndIn(Head(q)) \/ \E j \in 1..(k - 1) : EndIn(q1[j])
    <3>1. k + 1 \in DOMAIN q /\ q[k + 1] = <<>> /\ k \in Nat \ {0}
      BY <1>5, <1>6, <2>1
    <3>2. PICK j \in 1..((k + 1) - 1) : EndIn(q[j])
      BY <1>1, <1>4, <3>1 DEF PeekLane, EmptyAfterEnd, q
    <3>3. CASE j = 1
      BY <1>5, <3>2, <3>3
    <3>4. CASE j # 1
      <4>1. j \in DOMAIN q /\ j - 1 \in 1..(k - 1)
        BY <1>6, <3>1, <3>2, <3>4
      <4>2. q1[j - 1] = q[j]
        BY <1>5, <3>4, <4>1
      <4>3. QED
        BY <3>2, <4>1, <4>2
    <3>5. QED
      BY <3>3, <3>4
  <2>2. ASSUME NEW k \in DOMAIN queue'[o], queue'[o][k] = <<>>
        PROVE  EndIn(rblock'[o]) \/ \E j \in 1..(k - 1) : EndIn(queue'[o][j])
    BY <1>3, <2>1, <2>2
  <2>3. QED
    BY <2>2 DEF EmptyAfterEnd, EndIn, Entries, End, Out
<1>9. QED
  BY <1>1, <1>2, <1>7, <1>8, PeekLaneRead

\* close() of a node with one pipe.
LEMMA CloseOne ==
  ASSUME NEW p \in Pipes
  PROVE  Close(<<p>>) = <<Write(p, End), Account(p), Enqueue(p)>>
<1> DEFINE q == <<p>>
           c == Close(q)
           t == <<Write(p, End), Account(p), Enqueue(p)>>
<1>1. q \in Seq(Pipes) /\ Len(q) = 1 /\ q[1] = p
  OBVIOUS
<1> HIDE DEF q
<1>2. /\ c \in Seq(Operations) /\ Len(c) = 3
      /\ c[3 * 1 - 2] = Write(p, End) /\ c[3 * 1 - 1] = Account(p) /\ c[3 * 1] = Enqueue(p)
  <2>1. /\ c \in Seq(Operations) /\ Len(c) = 3 * Len(q)
        /\ \A k \in 1..Len(q) : /\ c[3 * k - 2] = Write(q[k], End)
                                /\ c[3 * k - 1] = Account(q[k])
                                /\ c[3 * k] = Enqueue(q[k])
    BY <1>1, CloseOps
  <2>2. 1 \in 1..Len(q)
    BY <1>1
  <2> HIDE DEF c
  <2>3. QED
    BY <1>1, <2>1, <2>2
<1>3. t \in Seq(Operations) /\ Len(t) = 3 /\ t[1] = Write(p, End) /\ t[2] = Account(p) /\ t[3] = Enqueue(p)
  <2>1. End \in Items \cup {End}
    OBVIOUS
  <2>2. Write(p, End) \in Operations /\ Account(p) \in Operations /\ Enqueue(p) \in Operations
    BY <2>1, OperationTypes
  <2>3. QED
    BY <2>2
<1> HIDE DEF c, t
<1>4. \A k \in 1..3 : c[k] = t[k]
  <2>1. \A k \in 1..3 : k = 1 \/ k = 2 \/ k = 3
    OBVIOUS
  <2>2. c[1] = Write(p, End) /\ c[2] = Account(p) /\ c[3] = Enqueue(p)
    <3>1. 3 * 1 - 2 = 1 /\ 3 * 1 - 1 = 2 /\ 3 * 1 = 3
      OBVIOUS
    <3>2. QED
      BY <1>2, <3>1
  <2>3. QED
    BY <1>3, <2>1, <2>2
<1>5. c = t
  BY <1>2, <1>3, <1>4
<1>6. QED
  BY <1>5 DEF c, t, q

LEMMA PeekStep ==
  ASSUME PeekInv, [Next]_vars
  PROVE  PeekInv'
<1>1. OrderInv' /\ Readers'
  BY OrderStep, ReadersStep DEF PeekInv, OrderInv, PeeksHold, Readers
<1>2. /\ OrderInv /\ TypeOK /\ PeeksHold
      /\ \A i \in Lane : PeekLane(i)
      /\ \A n \in Consumers : ReaderOf(reading[n]) = n /\ reading[n] \in Pipes
  BY DEF PeekInv, OrderInv, TypeOK, PeeksHold, PeekLane
<1>3. /\ Combiner \in Consumers /\ Combiner \notin Lane
      /\ pc[Combiner] = "settle" => rblock[reading[Combiner]] # <<>>
      /\ pc[Combiner] # "undefined"
  BY Sizes DEF PeekInv, PeeksHold
<1>4. SUFFICES /\ \A i \in Lane : PeekLane(i)'
               /\ pc'[Combiner] = "settle" => rblock'[reading'[Combiner]] # <<>>
               /\ pc'[Combiner] # "undefined"
  BY <1>1 DEF PeekInv, PeeksHold, PeekLane, Readers, Combiner, Lane, Consumers
<1>5. ASSUME UNCHANGED <<queue, rblock, pc, reading>>,
             \A i \in Lane : \/ PeekLane(i)'
                             \/ agenda'[i] = agenda[i] /\ wblock'[Out(i)] = wblock[Out(i)]
      PROVE  /\ \A i \in Lane : PeekLane(i)'
             /\ pc'[Combiner] = "settle" => rblock'[reading'[Combiner]] # <<>>
             /\ pc'[Combiner] # "undefined"
  BY <1>2, <1>3, <1>5, PeekLaneSame
<1>6. CASE SourceRead
  <2>1. \A i \in Lane : agenda'[i] = agenda[i]
    BY <1>2, <1>6, Sizes DEF SourceRead, TypeOK
  <2>2. QED
    BY <1>5, <1>6, <2>1 DEF SourceRead
<1>7. ASSUME NEW n \in Producers, DoWrite(n) \/ DoAccount(n) \/ DoEnqueue(n)
      PROVE  /\ \A i \in Lane : PeekLane(i)'
             /\ pc'[Combiner] = "settle" => rblock'[reading'[Combiner]] # <<>>
             /\ pc'[Combiner] # "undefined"
  <2> DEFINE todo == Head(agenda[n])
  <2>1. agenda[n] \in Seq(Operations) /\ agenda[n] # <<>>
    BY <1>2, <1>7 DEF TypeOK, DoWrite, DoAccount, DoEnqueue
  <2>2. todo.pipe \in Pipes /\ WriterOf(todo.pipe) = n
    <3>1. GoodAgenda(n, agenda[n])
      BY <1>2 DEF OrderInv, OrderHolds, AgendasHold
    <3>2. 1 \in DOMAIN agenda[n] /\ todo = agenda[n][1] /\ todo \in Operations
      BY <2>1, TailEntries
    <3> HIDE DEF todo
    <3>3. QED
      BY <3>1, <3>2 DEF GoodAgenda, Operations
  <2>3. ASSUME NEW i \in Lane, i # n
        PROVE  PeekLane(i)'
    <3>1. agenda'[i] = agenda[i]
      BY <1>2, <1>7, <2>3, Sizes DEF TypeOK, DoWrite, DoAccount, DoEnqueue
    <3>2. Out(i) # todo.pipe /\ Out(i) \in Pipes
      BY <2>2, <2>3, PipeEnds
    <3>3. /\ wblock'[Out(i)] = wblock[Out(i)] /\ queue'[Out(i)] = queue[Out(i)]
          /\ UNCHANGED <<rblock, pc>>
      BY <1>2, <1>7, <2>2, <3>2 DEF TypeOK, DoWrite, DoAccount, DoEnqueue
    <3>4. QED
      BY <1>2, <3>1, <3>3, PeekLaneSame
  <2>4. ASSUME n \in Lane PROVE PeekLane(n)'
    BY <1>2, <1>7, <2>4, PeekWrite, PeekAccount, PeekEnqueue
  <2>5. UNCHANGED <<rblock, pc, reading>>
    BY <1>7 DEF DoWrite, DoAccount, DoEnqueue
  <2>6. QED
    BY <1>3, <2>3, <2>4, <2>5
<1>8. ASSUME NEW n \in Consumers, NEW p \in Pipes, Dequeue(n, p)
      PROVE  /\ \A i \in Lane : PeekLane(i)'
             /\ pc'[Combiner] = "settle" => rblock'[reading'[Combiner]] # <<>>
             /\ pc'[Combiner] # "undefined"
  <2>1. /\ ReaderOf(p) = n /\ rblock[p] = <<>> /\ pc[n] = "read" /\ queue[p] # <<>>
        /\ rblock' = [rblock EXCEPT ![p] = Head(queue[p])]
        /\ queue' = [queue EXCEPT ![p] = Tail(@)]
        /\ reading' = [reading EXCEPT ![n] = p]
        /\ pc' = [pc EXCEPT ![n] = "settle"]
        /\ UNCHANGED <<agenda, wblock>>
    BY <1>8, StarvingReader DEF Dequeue
  <2>2. ASSUME NEW i \in Lane PROVE PeekLane(i)'
    <3>1. CASE p = Out(i)
      BY <1>2, <1>8, <3>1, PeekDequeue
    <3>2. CASE p # Out(i)
      <4>1. rblock'[Out(i)] = rblock[Out(i)] /\ queue'[Out(i)] = queue[Out(i)]
        BY <1>2, <2>1, <3>2, PipeEnds DEF TypeOK
      <4>2. pc[Combiner] = "done" => pc'[Combiner] = "done"
        BY <1>2, <1>3, <2>1 DEF TypeOK
      <4>3. QED
        BY <1>2, <2>1, <4>1, <4>2, PeekLaneSame
    <3>3. QED
      BY <3>1, <3>2
  <2>3. CASE n = Combiner
    <3>1. PICK i \in Lane : p = Out(i)
      BY <2>1, <2>3, WorkerPipes
    <3>2. Head(queue[p]) # <<>>
      BY <1>2, <2>1, <2>3, <3>1, HeadNotEmpty
    <3>3. pc'[Combiner] = "settle" /\ reading'[Combiner] = p /\ rblock'[p] = Head(queue[p])
      BY <1>2, <1>3, <2>1, <2>3 DEF TypeOK
    <3>4. QED
      BY <2>2, <3>2, <3>3
  <2>4. CASE n # Combiner
    <3>1. pc'[Combiner] = pc[Combiner] /\ reading'[Combiner] = reading[Combiner]
      BY <1>2, <1>3, <2>1, <2>4 DEF TypeOK
    <3>2. reading[Combiner] # p
      BY <1>2, <1>3, <2>1, <2>4
    <3>3. rblock'[reading[Combiner]] = rblock[reading[Combiner]]
      BY <1>2, <1>3, <2>1, <3>2 DEF TypeOK
    <3>4. QED
      BY <1>3, <2>2, <3>1, <3>3
  <2>5. QED
    BY <2>3, <2>4
<1>9. ASSUME NEW n \in Consumers, Settle(n)
      PROVE  /\ \A i \in Lane : PeekLane(i)'
             /\ pc'[Combiner] = "settle" => rblock'[reading'[Combiner]] # <<>>
             /\ pc'[Combiner] # "undefined"
  <2>1. /\ pc[n] = "settle"
        /\ pc' = [pc EXCEPT ![n] =
              IF n = Combiner /\ rblock[reading[n]] = <<>> THEN "undefined" ELSE "read"]
        /\ UNCHANGED <<agenda, wblock, queue, rblock, reading>>
    BY <1>9 DEF Settle
  <2>2. n = Combiner => rblock[reading[n]] # <<>>
    BY <1>3, <2>1
  <2>3. pc' = [pc EXCEPT ![n] = "read"]
    BY <2>1, <2>2
  <2>4. IF n = Combiner THEN pc'[Combiner] = "read" ELSE pc'[Combiner] = pc[Combiner]
    BY <1>2, <1>3, <2>3 DEF TypeOK
  <2>5. ASSUME NEW i \in Lane PROVE PeekLane(i)'
    BY <1>2, <2>1, <2>4, PeekLaneSame
  <2>6. QED
    BY <1>3, <2>1, <2>4, <2>5
<1>10. ASSUME NEW n \in Lane, WorkerRead(n)
       PROVE  /\ \A i \in Lane : PeekLane(i)'
              /\ pc'[Combiner] = "settle" => rblock'[reading'[Combiner]] # <<>>
              /\ pc'[Combiner] # "undefined"
  <2> DEFINE x == Head(rblock[In(n)])
             todo == IF IsEnd(x) THEN Close(OutPipes(n)) ELSE <<Write(Out(n), x)>>
  <2>1. /\ agenda' = [agenda EXCEPT ![n] = todo]
        /\ rblock' = [rblock EXCEPT ![In(n)] = Tail(@)]
        /\ rblock[In(n)] # <<>>
        /\ \E e \in {"done", "read"} : pc' = [pc EXCEPT ![n] = e]
        /\ UNCHANGED <<wblock, queue, reading>>
    BY <1>10 DEF WorkerRead
  <2>2. n # Combiner /\ n \in Consumers /\ n \in Producers /\ In(n) \in Pipes /\ Out(n) \in Pipes
    BY <1>3, Sizes, PipeEnds
  <2>3. pc'[Combiner] = pc[Combiner] /\ agenda'[n] = todo
    BY <1>2, <1>3, <2>1, <2>2 DEF TypeOK
  <2>4. \A i \in Lane : rblock'[Out(i)] = rblock[Out(i)]
    BY <1>2, <2>1, <2>2, PipeEnds DEF TypeOK
  <2>5. ASSUME NEW i \in Lane, i # n PROVE PeekLane(i)'
    <3>1. agenda'[i] = agenda[i]
      BY <1>2, <2>1, <2>5, Sizes DEF TypeOK
    <3>2. QED
      BY <1>2, <2>1, <2>3, <2>4, <3>1, PeekLaneSame
  <2>6. PeekLane(n)'
    <3>1. x \in Items \cup {End}
      <4>1. rblock[In(n)] \in Seq(Items \cup {End})
        BY <1>2, <2>2 DEF TypeOK, Blocks
      <4>2. QED
        BY <2>1, <4>1, TailEntries
    <3>2. PICK o : o = Out(n)
      OBVIOUS
    <3>3. agenda'[n] \in Writing(o) \cup Closing(o)
      <4>1. CASE IsEnd(x)
        <5>1. agenda'[n] = Close(<<o>>)
          BY <2>2, <2>3, <3>2, <4>1, Sizes DEF OutPipes
        <5>2. Close(<<o>>) = <<Write(o, End), Account(o), Enqueue(o)>>
          BY <2>2, <3>2, CloseOne
        <5>3. QED
          BY <5>1, <5>2, Shapes
      <4>2. CASE ~IsEnd(x)
        <5>1. x \in Items
          BY <3>1, <4>2, Tokens
        <5>2. agenda'[n] = <<Write(o, x)>>
          BY <2>3, <3>2, <4>2
        <5>3. QED
          BY <5>1, <5>2, Shapes
      <4>3. QED
        BY <4>1, <4>2
    <3>4. agenda'[n] \notin Once(o) /\ agenda'[n] \notin Twice(o)
      BY <3>3, Shapes DEF Writing, Closing
    <3>5. EmptyAfterEnd(Out(n))'
      <4>1. /\ EmptyAfterEnd(Out(n))
            /\ queue' = queue /\ rblock'[Out(n)] = rblock[Out(n)]
            /\ pc[Combiner] = "done" => pc'[Combiner] = "done"
        BY <1>2, <2>1, <2>3, <2>4 DEF PeekLane
      <4>2. QED
        BY <4>1 DEF EmptyAfterEnd, EndIn, Entries, End, Out
    <3>6. QED
      BY <3>2, <3>3, <3>4, <3>5, PeekNext
  <2>7. rblock'[reading[Combiner]] = rblock[reading[Combiner]]
    <3>1. reading[Combiner] # In(n)
      BY <1>2, <1>3, <2>2, PipeEnds
    <3>2. QED
      BY <1>2, <1>3, <2>1, <2>2, <3>1 DEF TypeOK
  <2>8. QED
    BY <1>3, <2>1, <2>3, <2>5, <2>6, <2>7
<1>11. ASSUME NEW i \in Lane, CombinerRead(i)
       PROVE  /\ \A j \in Lane : PeekLane(j)'
              /\ pc'[Combiner] = "settle" => rblock'[reading'[Combiner]] # <<>>
              /\ pc'[Combiner] # "undefined"
  <2> DEFINE o == Out(i)
             b == rblock[o]
  <2>1. /\ rblock' = [rblock EXCEPT ![o] = Tail(b)] /\ b # <<>> /\ ~IsEnd(Head(b))
        /\ pc[Combiner] = "read"
        /\ UNCHANGED <<agenda, wblock, queue, pc, reading>>
    BY <1>11 DEF CombinerRead, CombinerSeesAll, IsEarliest
  <2>2. o \in Pipes /\ b \in Seq(Items \cup {End}) /\ rblock'[o] = Tail(b)
    BY <1>2, <2>1, PipeEnds DEF TypeOK, Blocks
  <2>3. EndIn(b) => EndIn(rblock'[o])
    <3> HIDE DEF b
    <3>1. Entries(b) = Entries(Tail(b)) \cup {Head(b)}
      BY <2>1, <2>2, TailEntries
    <3>2. QED
      BY <2>1, <2>2, <3>1, Tokens DEF EndIn
  <2>4. ASSUME NEW j \in Lane, j # i PROVE PeekLane(j)'
    <3>1. rblock'[Out(j)] = rblock[Out(j)]
      BY <1>2, <2>1, <2>4, PipeEnds DEF TypeOK
    <3>2. QED
      BY <1>2, <2>1, <3>1, PeekLaneSame
  <2>5. PeekLane(i)'
    <3>1. EndSent(Out(i)) => EndSent(Out(i))'
      BY <2>1, <2>3 DEF EndSent, EndIn, Entries, End, Out
    <3>2. EmptyAfterEnd(Out(i))'
      BY <1>2, <2>1, <2>3, SMTT(30) DEF PeekLane, EmptyAfterEnd, EndIn, Entries, End, Out
    <3>3. QED
      BY <1>2, <2>1, <3>1, <3>2, PeekLaneRead
  <2>6. QED
    BY <1>3, <2>1, <2>4, <2>5
<1>12. CASE CombinerEnd
  <2>1. pc' = [pc EXCEPT ![Combiner] = "done"] /\ UNCHANGED <<agenda, wblock, queue, reading>>
    BY <1>12 DEF CombinerEnd
  <2>2. pc'[Combiner] = "done"
    BY <1>2, <1>3, <2>1 DEF TypeOK
  <2>3. ASSUME NEW i \in Lane PROVE PeekLane(i)'
    <3>1. EndSent(Out(i))' /\ EmptyAfterEnd(Out(i))'
      BY <2>2 DEF EndSent, EmptyAfterEnd, Combiner
    <3>2. QED
      BY <1>2, <2>1, <3>1, PeekLaneRead
  <2>4. QED
    BY <2>2, <2>3
<1>13. CASE UNCHANGED vars
  BY <1>5, <1>13 DEF vars
<1>14. QED
  BY Steps, <1>6, <1>7, <1>8, <1>9, <1>10, <1>11, <1>12, <1>13

\* The combiner's peek(), which does not ask again when the block it dequeued
\* is empty, never reads past a block: the empty block that close() flushes
\* after the end token has filled and flushed one comes after that token, and
\* is left in the queue.
THEOREM CombinerPeekDefined == Spec => []PeekDefined
<1>1. PeekInv => PeekDefined
  BY DEF PeekInv, PeeksHold, PeekDefined
<1>2. QED
  BY PeekInit, PeekStep, <1>1, PTL DEF Spec

-----------------------------------------------------------------------------
(***************************************************************************)
(* The bytes a pipe counts.                                                *)
(***************************************************************************)
BlockBytes(q) == [k \in 1..Len(q) |-> Bytes(q[k])]

LEMMA BlockBytesType ==
  ASSUME NEW q \in Seq(Blocks)
  PROVE  /\ BlockBytes(q) \in Seq(Nat) /\ Len(BlockBytes(q)) = Len(q)
         /\ \A k \in 1..Len(q) : BlockBytes(q)[k] = Bytes(q[k])
<1>1. Len(q) \in Nat /\ \A k \in 1..Len(q) : q[k] \in Blocks
  OBVIOUS
<1>2. \A k \in 1..Len(q) : Bytes(q[k]) \in Nat
  BY <1>1, BytesType
<1>3. QED
  BY <1>1, <1>2 DEF BlockBytes

LEMMA QueueBytesFacts ==
  ASSUME NEW q \in Seq(Blocks)
  PROVE  /\ QueueBytes(q) \in Nat
         /\ QueueBytes(<<>>) = 0
         /\ \A b \in Blocks : QueueBytes(Append(q, b)) = QueueBytes(q) + Bytes(b)
         /\ q # <<>> => QueueBytes(q) = Bytes(Head(q)) + QueueBytes(Tail(q))
         /\ (\A k \in DOMAIN q : q[k] = <<>>) => QueueBytes(q) = 0
<1>1. \A r \in Seq(Blocks) : QueueBytes(r) = SumOf(BlockBytes(r))
  BY DEF QueueBytes, BlockBytes
<1>2. QueueBytes(q) \in Nat
  BY <1>1, BlockBytesType, SumNat
<1>3. QueueBytes(<<>>) = 0
  <2>1. BlockBytes(<<>>) = <<>> /\ <<>> \in Seq(Blocks)
    BY DEF BlockBytes
  <2>2. QED
    BY <1>1, <2>1, SumEmpty
<1>4. ASSUME NEW b \in Blocks
      PROVE  QueueBytes(Append(q, b)) = QueueBytes(q) + Bytes(b)
  <2> DEFINE r == Append(q, b)
             s == BlockBytes(q)
             t == Append(s, Bytes(b))
  <2>1. /\ r \in Seq(Blocks) /\ Len(r) = Len(q) + 1 /\ Len(q) \in Nat
        /\ \A k \in 1..Len(q) : r[k] = q[k]
        /\ r[Len(q) + 1] = b
    OBVIOUS
  <2>2. s \in Seq(Nat) /\ Len(s) = Len(q) /\ \A k \in 1..Len(q) : s[k] = Bytes(q[k])
    BY BlockBytesType
  <2>3. Bytes(b) \in Nat
    BY BytesType
  <2> HIDE DEF s
  <2>4. /\ t \in Seq(Nat) /\ Len(t) = Len(q) + 1
        /\ \A k \in 1..Len(q) : t[k] = s[k]
        /\ t[Len(q) + 1] = Bytes(b)
    BY <2>2, <2>3
  <2> HIDE DEF r, t
  <2>5. /\ BlockBytes(r) \in Seq(Nat) /\ Len(BlockBytes(r)) = Len(r)
        /\ \A k \in 1..Len(r) : BlockBytes(r)[k] = Bytes(r[k])
    BY <2>1, BlockBytesType
  <2>6. \A k \in 1..(Len(q) + 1) : BlockBytes(r)[k] = t[k]
    <3>1. \A k \in 1..(Len(q) + 1) : k \in 1..Len(q) \/ k = Len(q) + 1
      BY <2>1
    <3>2. QED
      BY <2>1, <2>2, <2>4, <2>5, <3>1
  <2>7. BlockBytes(r) = t
    BY <2>1, <2>4, <2>5, <2>6
  <2>8. SumOf(t) = SumOf(s) + Bytes(b)
    BY <2>2, <2>3, SumAppend DEF t
  <2>9. QED
    BY <1>1, <2>1, <2>7, <2>8 DEF r, s
<1>5. ASSUME q # <<>>
      PROVE  QueueBytes(q) = Bytes(Head(q)) + QueueBytes(Tail(q))
  <2> DEFINE r == Tail(q)
             s == BlockBytes(q)
             t == Tail(s)
  <2>1. /\ r \in Seq(Blocks) /\ Len(r) = Len(q) - 1 /\ Len(q) \in Nat \ {0}
        /\ \A k \in 1..(Len(q) - 1) : r[k] = q[k + 1]
        /\ Head(q) = q[1]
    BY <1>5
  <2>2. s \in Seq(Nat) /\ Len(s) = Len(q) /\ \A k \in 1..Len(q) : s[k] = Bytes(q[k])
    BY BlockBytesType
  <2> HIDE DEF s
  <2>3. s # <<>> /\ Head(s) = s[1] /\ 1 \in 1..Len(q)
    BY <2>1, <2>2
  <2>4. /\ t \in Seq(Nat) /\ Len(t) = Len(q) - 1
        /\ \A k \in 1..(Len(q) - 1) : t[k] = s[k + 1]
    BY <2>1, <2>2, <2>3
  <2> HIDE DEF r, t
  <2>5. /\ BlockBytes(r) \in Seq(Nat) /\ Len(BlockBytes(r)) = Len(r)
        /\ \A k \in 1..Len(r) : BlockBytes(r)[k] = Bytes(r[k])
    BY <2>1, BlockBytesType
  <2>6. \A k \in 1..(Len(q) - 1) : BlockBytes(r)[k] = t[k]
    <3>1. \A k \in 1..(Len(q) - 1) : k + 1 \in 1..Len(q)
      BY <2>1
    <3>2. QED
      BY <2>1, <2>2, <2>4, <2>5, <3>1
  <2>7. BlockBytes(r) = t
    <3> DEFINE u == BlockBytes(r)
               m == Len(q) - 1
    <3>1. u \in Seq(Nat) /\ t \in Seq(Nat) /\ Len(u) = m /\ Len(t) = m
      BY <2>1, <2>4, <2>5
    <3>2. \A k \in 1..m : u[k] = t[k]
      BY <2>6
    <3> HIDE DEF u, m
    <3>3. u = t
      BY <3>1, <3>2
    <3>4. QED
      BY <3>3 DEF u
  <2>8. SumOf(s) = Head(s) + SumOf(t)
    BY <2>2, <2>3, SumTail DEF t
  <2>9. Head(s) = Bytes(Head(q))
    BY <2>1, <2>2, <2>3
  <2>10. QED
    BY <1>1, <2>1, <2>7, <2>8, <2>9 DEF r, s
<1>6. ASSUME \A k \in DOMAIN q : q[k] = <<>>
      PROVE  QueueBytes(q) = 0
  <2> DEFINE s == BlockBytes(q)
  <2>1. s \in Seq(Nat) /\ Len(s) = Len(q) /\ \A k \in 1..Len(q) : s[k] = Bytes(q[k])
    BY BlockBytesType
  <2>2. DOMAIN q = 1..Len(q)
    OBVIOUS
  <2> HIDE DEF s
  <2>3. \A k \in 1..Len(s) : s[k] = 0
    BY <1>6, <2>1, <2>2, BytesType
  <2>4. SumOf(s) = 0
    BY <2>1, <2>3, SumZero
  <2>5. QED
    BY <1>1, <2>4 DEF s
<1>7. QED
  BY <1>2, <1>3, <1>4, <1>5, <1>6

LEMMA BytesPrimed ==
  ASSUME NEW p \in Pipes
  PROVE  /\ Bytes(wblock[p])' = Bytes(wblock'[p])
         /\ Bytes(rblock[p])' = Bytes(rblock'[p])
         /\ QueueBytes(queue[p])' = QueueBytes(queue'[p])
  BY DEF QueueBytes, Bytes, SumOf, Size, IsEnd

\* Whether the next operation of a thread is to enqueue the block of p.
Enqueues(a, p) == a # <<>> /\ Head(a).op = "enqueue" /\ Head(a).pipe = p

LEMMA Announcement ==
  ASSUME NEW p \in Pipes, NEW n, n = WriterOf(p)
  PROVE  /\ Announced(p) = IF Enqueues(agenda[n], p) THEN Bytes(wblock[p]) ELSE 0
         /\ Announced(p)' = IF Enqueues(agenda'[n], p) THEN Bytes(wblock'[p]) ELSE 0
  BY BytesPrimed DEF Announced, Enqueues, WriterOf

LEMMA Settlement ==
  ASSUME NEW p \in Pipes, NEW n, n = ReaderOf(p)
  PROVE  /\ Unsettled(p) = IF pc[n] = "settle" /\ reading[n] = p THEN Bytes(rblock[p]) ELSE 0
         /\ Unsettled(p)' = IF pc'[n] = "settle" /\ reading'[n] = p THEN Bytes(rblock'[p]) ELSE 0
  BY BytesPrimed DEF Unsettled, ReaderOf, Combiner

BytesInv == OrderInv /\ Readers /\ BytesHold

LEMMA BytesInit == Init => BytesInv
<1> SUFFICES ASSUME Init PROVE BytesInv
  OBVIOUS
<1>1. ASSUME NEW p \in Pipes
      PROVE  bytesUsed[p] = QueueBytes(queue[p]) + Announced(p) + Unsettled(p)
  <2>1. bytesUsed[p] = 0 /\ queue[p] = <<>>
    BY DEF Init
  <2>2. /\ agenda[WriterOf(p)] = <<>> /\ pc[ReaderOf(p)] = "read"
        /\ WriterOf(p) \in Producers /\ ReaderOf(p) \in Consumers
    BY PipeEnds DEF Init
  <2>3. QueueBytes(<<>>) = 0
    <3>1. <<>> \in Seq(Blocks)
      OBVIOUS
    <3>2. QED
      BY <3>1, QueueBytesFacts
  <2>4. Announced(p) = 0 /\ Unsettled(p) = 0
    BY <2>2, Announcement, Settlement DEF Enqueues
  <2>5. QED
    BY <2>1, <2>3, <2>4
<1>2. QED
  BY <1>1, OrderInit, ReadersInit DEF BytesInv, BytesHold

\* The bytes of a pipe after a step that leaves its count, its queue, and what
\* its two ends have under way alone.
PipeCounts(p) == bytesUsed[p] = QueueBytes(queue[p]) + Announced(p) + Unsettled(p)

LEMMA CountsNext ==
  ASSUME NEW p \in Pipes,
         bytesUsed'[p] = QueueBytes(queue'[p]) + Announced(p)' + Unsettled(p)'
  PROVE  PipeCounts(p)'
  BY BytesPrimed DEF PipeCounts

LEMMA BytesTypes ==
  ASSUME TypeOK, NEW p \in Pipes
  PROVE  /\ queue[p] \in Seq(Blocks) /\ wblock[p] \in Blocks /\ rblock[p] \in Blocks
         /\ QueueBytes(queue[p]) \in Nat /\ Bytes(wblock[p]) \in Nat /\ Bytes(rblock[p]) \in Nat
         /\ Announced(p) \in Nat /\ Unsettled(p) \in Nat /\ bytesUsed[p] \in Int
  <1>1. queue[p] \in Seq(Blocks) /\ wblock[p] \in Blocks /\ rblock[p] \in Blocks /\ bytesUsed[p] \in Int
    BY DEF TypeOK
  <1>2. QueueBytes(queue[p]) \in Nat
    BY <1>1, QueueBytesFacts
  <1>3. Bytes(wblock[p]) \in Nat /\ Bytes(rblock[p]) \in Nat
    BY <1>1, BytesType
  <1>4. Announced(p) \in Nat /\ Unsettled(p) \in Nat
    BY <1>3, Announcement, Settlement
  <1>5. QED
    BY <1>1, <1>2, <1>3, <1>4

\* What a thread does next after an operation.
LEMMA AfterOperation ==
  ASSUME NEW n, NEW a \in Seq(Operations), a # <<>>, GoodAgenda(n, a)
  PROVE  /\ Head(a) \in Operations /\ WriterOf(Head(a).pipe) = n
         /\ Head(a).op # "account" => \A p : ~Enqueues(Tail(a), p)
         /\ Head(a).op = "account" => \A p : Enqueues(Tail(a), p) <=> p = Head(a).pipe
<1> DEFINE t == Tail(a)
           h == Head(a)
<1>1. /\ t \in Seq(Operations) /\ h = a[1] /\ 1 \in DOMAIN a /\ h \in Operations
      /\ \A k \in DOMAIN t : k + 1 \in DOMAIN a /\ t[k] = a[k + 1]
      /\ \A k \in DOMAIN a : k # 1 => k - 1 \in DOMAIN t /\ t[k - 1] = a[k]
  BY TailEntries
<1> HIDE DEF t, h
<1>2. t # <<>> => 1 \in DOMAIN t /\ Head(t) = t[1]
  BY <1>1, TailEntries
<1>3. WriterOf(h.pipe) = n
  BY <1>1 DEF GoodAgenda
<1>4. /\ a[1].op = "account" => 2 \in DOMAIN a /\ a[2].op = "enqueue" /\ a[2].pipe = a[1].pipe
      /\ 2 \in DOMAIN a /\ a[2].op = "enqueue" => a[1].op = "account" /\ a[1].pipe = a[2].pipe
  <2>1. 1 + 1 = 2 /\ 2 - 1 = 1 /\ 2 > 1
    OBVIOUS
  <2>2. /\ a[1].op = "account" =>
              1 + 1 \in DOMAIN a /\ a[1 + 1].op = "enqueue" /\ a[1 + 1].pipe = a[1].pipe
        /\ 2 \in DOMAIN a /\ a[2].op = "enqueue" /\ 2 > 1 =>
              a[2 - 1].op = "account" /\ a[2 - 1].pipe = a[2].pipe
    BY <1>1 DEF GoodAgenda, Paired
  <2>3. QED
    BY <2>1, <2>2
<1>5. /\ t # <<>> => 2 \in DOMAIN a /\ Head(t) = a[2]
      /\ 2 \in DOMAIN a => t # <<>>
  <2>1. 1 + 1 = 2 /\ 2 - 1 = 1 /\ 2 # 1
    OBVIOUS
  <2>2. t # <<>> => 2 \in DOMAIN a /\ Head(t) = a[2]
    BY <1>1, <1>2, <2>1
  <2>3. 2 \in DOMAIN a => 1 \in DOMAIN t
    BY <1>1, <2>1
  <2>4. 1 \in DOMAIN t => t # <<>>
    BY <1>1, EntriesFacts
  <2>5. QED
    BY <2>2, <2>3, <2>4
<1>6. h.op # "account" => \A p : ~Enqueues(t, p)
  BY <1>1, <1>4, <1>5 DEF Enqueues
<1>7. h.op = "account" => \A p : Enqueues(t, p) <=> p = h.pipe
  BY <1>1, <1>4, <1>5 DEF Enqueues
<1>8. QED
  BY <1>1, <1>3, <1>6, <1>7 DEF t, h

\* A thread that has just read has something to write.
LEMMA ReadNoEnqueue ==
  /\ \A q, x, p : ~Enqueues(<<Write(q, x)>>, p)
  /\ \A n \in Producers : \A p : ~Enqueues(Close(OutPipes(n)), p)
<1>1. ASSUME NEW q, NEW x, NEW p PROVE ~Enqueues(<<Write(q, x)>>, p)
  BY DEF Enqueues, Write
<1>2. ASSUME NEW n \in Producers, NEW p PROVE ~Enqueues(Close(OutPipes(n)), p)
  <2> DEFINE q == OutPipes(n)
             c == Close(q)
  <2>1. q \in Seq(Pipes) /\ 1 \in 1..Len(q)
    <3>1. n = 0 => q = [i \in 1..Lanes |-> In(i)]
      BY DEF OutPipes, Lane
    <3>2. n # 0 => q = <<Out(n)>>
      BY DEF OutPipes
    <3>3. Len(q) >= 1 /\ Len(q) \in Nat
      BY <3>1, <3>2, Sizes, SMTT(30)
    <3>4. q \in Seq(Pipes)
      BY OutPipesType
    <3>5. QED
      BY <3>3, <3>4
  <2> HIDE DEF q
  <2>2. /\ c \in Seq(Operations) /\ Len(c) = 3 * Len(q)
        /\ \A k \in 1..Len(q) : c[3 * k - 2] = Write(q[k], End)
    BY <2>1, CloseOps
  <2> HIDE DEF c
  <2>3. c[1] = Write(q[1], End) /\ c # <<>> /\ Head(c) = c[1]
    <3>1. 3 * 1 - 2 = 1
      OBVIOUS
    <3>2. c[1] = Write(q[1], End)
      BY <2>1, <2>2, <3>1
    <3>3. Len(c) > 0 /\ Len(c) \in Nat
      BY <2>1, <2>2
    <3>4. QED
      BY <2>2, <3>2, <3>3
  <2>4. Head(c).op = "write"
    BY <2>3 DEF Write
  <2>5. QED
    BY <2>4 DEF Enqueues, c, q
<1>3. QED
  BY <1>1, <1>2

LEMMA BytesStep ==
  ASSUME BytesInv, [Next]_vars
  PROVE  BytesInv'
<1>1. OrderInv' /\ Readers'
  BY OrderStep, ReadersStep DEF BytesInv, OrderInv
<1>2. /\ TypeOK /\ AgendasHold
      /\ \A p \in Pipes : PipeCounts(p)
      /\ \A n \in Consumers : ReaderOf(reading[n]) = n /\ reading[n] \in Pipes
  BY DEF BytesInv, OrderInv, OrderHolds, TypeOK, BytesHold, PipeCounts, Readers
<1>3. SUFFICES \A p \in Pipes : PipeCounts(p)'
  BY <1>1 DEF BytesInv, BytesHold, PipeCounts, Pipes, Lane
<1>4. ASSUME NEW p \in Pipes, bytesUsed'[p] = bytesUsed[p], queue'[p] = queue[p],
             Announced(p)' = Announced(p), Unsettled(p)' = Unsettled(p)
      PROVE  PipeCounts(p)'
  BY <1>2, <1>4, CountsNext DEF PipeCounts
<1>5. ASSUME NEW p \in Pipes, agenda'[WriterOf(p)] = agenda[WriterOf(p)], wblock'[p] = wblock[p]
      PROVE  Announced(p)' = Announced(p)
  <2>1. PICK n : n = WriterOf(p)
    OBVIOUS
  <2>2. QED
    BY <1>5, <2>1, Announcement
<1>6. ASSUME NEW p \in Pipes, UNCHANGED <<rblock, pc, reading>>
      PROVE  Unsettled(p)' = Unsettled(p)
  <2>1. PICK n : n = ReaderOf(p)
    OBVIOUS
  <2>2. QED
    BY <1>6, <2>1, Settlement
<1>7. CASE SourceRead
  <2>1. ASSUME NEW p \in Pipes PROVE Announced(p)' = Announced(p)
    <3>1. CASE WriterOf(p) = 0
      <4>1. agenda[0] = <<>>
        BY <1>7 DEF SourceRead
      <4>2. \/ agenda'[0] = Close(OutPipes(0))
            \/ \E q, x : agenda'[0] = <<Write(q, x)>>
        <5> DEFINE x == Head(input)
                   w == <<Write(In(PipeIndex(x)), x)>>
        <5>1. \/ agenda' = [agenda EXCEPT ![0] = Close(OutPipes(0))]
              \/ agenda' = [agenda EXCEPT ![0] = w]
          BY <1>7 DEF SourceRead
        <5> HIDE DEF x
        <5>2. agenda'[0] = Close(OutPipes(0)) \/ agenda'[0] = w
          <6> HIDE DEF w
          <6>1. QED
            BY <1>2, <5>1, Sizes DEF TypeOK
        <5>3. QED
          BY <5>2
      <4>3. ~Enqueues(agenda[0], p) /\ ~Enqueues(agenda'[0], p)
        BY <4>1, <4>2, ReadNoEnqueue, Sizes DEF Enqueues
      <4>4. QED
        BY <3>1, <4>3, Announcement
    <3>2. CASE WriterOf(p) # 0
      <4>1. agenda'[WriterOf(p)] = agenda[WriterOf(p)] /\ wblock' = wblock
        BY <1>2, <1>7, <3>2, PipeEnds DEF SourceRead, TypeOK
      <4>2. QED
        BY <1>5, <4>1
    <3>3. QED
      BY <3>1, <3>2
  <2>2. QED
    BY <1>4, <1>6, <1>7, <2>1 DEF SourceRead
<1>8. ASSUME NEW n \in Producers, DoWrite(n) \/ DoAccount(n) \/ DoEnqueue(n)
      PROVE  \A p \in Pipes : PipeCounts(p)'
  <2>1. PICK a : a = agenda[n]
    OBVIOUS
  <2>2. a \in Seq(Operations) /\ a # <<>> /\ GoodAgenda(n, a)
    BY <1>2, <1>8, <2>1 DEF TypeOK, AgendasHold, DoWrite, DoAccount, DoEnqueue
  <2>3. PICK q \in Pipes : q = Head(a).pipe
    <3>1. Head(a) \in Operations
      BY <2>2, AfterOperation
    <3>2. QED
      BY <3>1 DEF Operations
  <2>4. /\ WriterOf(q) = n
        /\ Head(a).op # "account" => \A p : ~Enqueues(Tail(a), p)
        /\ Head(a).op = "account" => \A p : Enqueues(Tail(a), p) <=> p = q
    BY <2>2, <2>3, AfterOperation
  <2>5. UNCHANGED <<rblock, pc, reading>>
    BY <1>8 DEF DoWrite, DoAccount, DoEnqueue
  <2>6. ASSUME NEW p \in Pipes, WriterOf(p) # n
        PROVE  PipeCounts(p)'
    <3>1. p # q
      BY <2>4, <2>6
    <3>2. agenda'[WriterOf(p)] = agenda[WriterOf(p)]
      BY <1>2, <1>8, <2>6, PipeEnds DEF TypeOK, DoWrite, DoAccount, DoEnqueue
    <3>3. bytesUsed'[p] = bytesUsed[p] /\ queue'[p] = queue[p] /\ wblock'[p] = wblock[p]
      BY <1>2, <1>8, <2>1, <2>3, <3>1 DEF TypeOK, DoWrite, DoAccount, DoEnqueue
    <3>4. QED
      BY <1>4, <1>5, <1>6, <2>5, <3>2, <3>3
  <2>7. ASSUME NEW p \in Pipes, WriterOf(p) = n
        PROVE  PipeCounts(p)'
    <3>1. Unsettled(p)' = Unsettled(p)
      BY <1>6, <2>5
    <3>2. /\ Announced(p) = IF Enqueues(a, p) THEN Bytes(wblock[p]) ELSE 0
          /\ Announced(p)' = IF Enqueues(agenda'[n], p) THEN Bytes(wblock'[p]) ELSE 0
      BY <2>1, <2>7, Announcement
    <3>3. CASE DoWrite(n)
      <4>1. /\ Head(a).op = "write"
            /\ \E f \in {<<>>, Flush(q)} : agenda'[n] = f \o Tail(a)
            /\ UNCHANGED <<queue, bytesUsed>>
        BY <1>2, <2>1, <2>3, <3>3 DEF DoWrite, TypeOK
      <4>2. ~Enqueues(a, p)
        BY <4>1 DEF Enqueues
      <4>3. ~Enqueues(agenda'[n], p)
        <5>1. PICK f \in {<<>>, Flush(q)} : agenda'[n] = f \o Tail(a)
          BY <4>1
        <5>2. Tail(a) \in Seq(Operations)
          BY <2>2, TailEntries
        <5>3. CASE f = <<>>
          <6>1. <<>> \o Tail(a) = Tail(a)
            BY <5>2
          <6>2. QED
            BY <2>4, <4>1, <5>1, <5>3, <6>1
        <5>4. CASE f = Flush(q)
          <6>1. f \in Seq(Operations) /\ Len(f) = 2 /\ f[1] = Account(q)
            <7>1. Account(q) \in Operations /\ Enqueue(q) \in Operations /\ f = <<Account(q), Enqueue(q)>>
              BY <5>4 DEF Account, Enqueue, Operations, Flush
            <7>2. QED
              BY <7>1
          <6>2. PICK b : b = f \o Tail(a)
            OBVIOUS
          <6>3. b \in Seq(Operations) /\ Len(b) >= 2 /\ b[1] = f[1] /\ 1 \in 1..Len(b)
            <7>1. /\ b \in Seq(Operations) /\ Len(b) = Len(f) + Len(Tail(a))
                  /\ \A k \in 1..Len(f) : b[k] = f[k]
              BY <5>2, <6>1, <6>2, Concatenation
            <7>2. Len(Tail(a)) \in Nat /\ 1 \in 1..Len(f)
              BY <5>2, <6>1
            <7>3. QED
              BY <6>1, <7>1, <7>2
          <6>4. Head(b) = Account(q)
            BY <6>1, <6>3
          <6>5. QED
            BY <5>1, <6>2, <6>4 DEF Enqueues, Account
        <5>5. QED
          BY <5>1, <5>3, <5>4
      <4>4. QED
        BY <1>4, <3>1, <3>2, <4>1, <4>2, <4>3
    <3>4. CASE DoAccount(n)
      <4>1. /\ Head(a).op = "account" /\ agenda'[n] = Tail(a)
            /\ bytesUsed' = [bytesUsed EXCEPT ![q] = @ + Bytes(wblock[q])]
            /\ UNCHANGED <<queue, wblock>>
        BY <1>2, <2>1, <2>3, <3>4 DEF DoAccount, TypeOK
      <4>2. ~Enqueues(a, p)
        BY <4>1 DEF Enqueues
      <4>3. Enqueues(agenda'[n], p) <=> p = q
        BY <2>4, <4>1
      <4>4. bytesUsed'[p] = bytesUsed[p] + IF p = q THEN Bytes(wblock[p]) ELSE 0
        BY <1>2, <4>1, BytesTypes DEF TypeOK
      <4>5. PipeCounts(p) /\ queue'[p] = queue[p] /\ wblock'[p] = wblock[p]
        BY <1>2, <4>1
      <4>6. bytesUsed'[p] = QueueBytes(queue'[p]) + Announced(p)' + Unsettled(p)'
        BY <1>2, <3>1, <3>2, <4>2, <4>3, <4>4, <4>5, BytesTypes, SMTT(30) DEF PipeCounts
      <4>7. QED
        BY <4>6, CountsNext
    <3>5. CASE DoEnqueue(n)
      <4>1. /\ Head(a).op = "enqueue" /\ agenda'[n] = Tail(a)
            /\ queue' = [queue EXCEPT ![q] = Append(@, wblock[q])]
            /\ UNCHANGED <<bytesUsed>>
        BY <1>2, <2>1, <2>3, <3>5 DEF DoEnqueue, TypeOK
      <4>2. Enqueues(a, p) <=> p = q
        BY <2>2, <2>3, <4>1 DEF Enqueues
      <4>3. ~Enqueues(agenda'[n], p)
        BY <2>4, <4>1
      <4>4. queue'[p] = IF p = q THEN Append(queue[p], wblock[p]) ELSE queue[p]
        BY <1>2, <4>1 DEF TypeOK
      <4>5. QueueBytes(queue'[p]) = QueueBytes(queue[p]) + IF p = q THEN Bytes(wblock[p]) ELSE 0
        BY <1>2, <4>4, BytesTypes, QueueBytesFacts
      <4>6. PipeCounts(p) /\ bytesUsed'[p] = bytesUsed[p]
        BY <1>2, <4>1
      <4>7. bytesUsed'[p] = QueueBytes(queue'[p]) + Announced(p)' + Unsettled(p)'
        BY <1>2, <3>1, <3>2, <4>2, <4>3, <4>5, <4>6, BytesTypes DEF PipeCounts
      <4>8. QED
        BY <4>7, CountsNext
    <3>6. QED
      BY <1>8, <3>3, <3>4, <3>5
  <2>8. QED
    BY <2>6, <2>7
<1>9. ASSUME NEW n \in Consumers, NEW r \in Pipes, Dequeue(n, r)
      PROVE  \A p \in Pipes : PipeCounts(p)'
  <2>1. /\ ReaderOf(r) = n /\ pc[n] = "read" /\ queue[r] # <<>>
        /\ rblock' = [rblock EXCEPT ![r] = Head(queue[r])]
        /\ queue' = [queue EXCEPT ![r] = Tail(@)]
        /\ reading' = [reading EXCEPT ![n] = r]
        /\ pc' = [pc EXCEPT ![n] = "settle"]
        /\ UNCHANGED <<agenda, wblock, bytesUsed>>
    BY <1>9, StarvingReader DEF Dequeue
  <2>2. pc'[n] = "settle" /\ reading'[n] = r
    BY <1>2, <2>1 DEF TypeOK
  <2>3. ASSUME NEW p \in Pipes, p # r PROVE PipeCounts(p)'
    <3>1. queue'[p] = queue[p] /\ rblock'[p] = rblock[p]
      BY <1>2, <2>1, <2>3 DEF TypeOK
    <3>2. Unsettled(p)' = Unsettled(p)
      <4>1. PICK m \in Consumers : m = ReaderOf(p)
        BY PipeEnds
      <4>2. CASE m = n
        BY <2>1, <2>2, <2>3, <4>1, <4>2, Settlement
      <4>3. CASE m # n
        <5>1. pc'[m] = pc[m] /\ reading'[m] = reading[m]
          BY <1>2, <2>1, <4>1, <4>3 DEF TypeOK
        <5>2. QED
          BY <3>1, <4>1, <5>1, Settlement
      <4>4. QED
        BY <4>2, <4>3
    <3>3. QED
      BY <1>4, <1>5, <2>1, <3>1, <3>2
  <2>4. PipeCounts(r)'
    <3>1. queue'[r] = Tail(queue[r]) /\ rblock'[r] = Head(queue[r])
      BY <1>2, <2>1 DEF TypeOK
    <3>2. Unsettled(r) = 0 /\ Unsettled(r)' = Bytes(Head(queue[r]))
      BY <2>1, <2>2, <3>1, Settlement
    <3>3. QueueBytes(queue[r]) = Bytes(Head(queue[r])) + QueueBytes(Tail(queue[r]))
      BY <1>2, <2>1, BytesTypes, QueueBytesFacts
    <3>4. Announced(r)' = Announced(r)
      BY <1>5, <2>1
    <3>5. bytesUsed'[r] = bytesUsed[r] /\ PipeCounts(r)
      BY <1>2, <2>1
    <3>6. QueueBytes(Tail(queue[r])) \in Nat /\ Bytes(Head(queue[r])) \in Nat
      <4>1. queue[r] \in Seq(Blocks)
        BY <1>2, BytesTypes
      <4>2. Tail(queue[r]) \in Seq(Blocks) /\ Head(queue[r]) \in Blocks
        BY <2>1, <4>1, TailEntries
      <4>3. QED
        BY <4>2, QueueBytesFacts, BytesType
    <3>7. bytesUsed'[r] = QueueBytes(queue'[r]) + Announced(r)' + Unsettled(r)'
      BY <1>2, <3>1, <3>2, <3>3, <3>4, <3>5, <3>6, BytesTypes DEF PipeCounts
    <3>8. QED
      BY <3>7, CountsNext
  <2>5. QED
    BY <2>3, <2>4
<1>10. ASSUME NEW n \in Consumers, Settle(n)
       PROVE  \A p \in Pipes : PipeCounts(p)'
  <2>1. PICK r \in Pipes : r = reading[n]
    BY <1>2
  <2>2. /\ pc[n] = "settle" /\ ReaderOf(r) = n
        /\ bytesUsed' = [bytesUsed EXCEPT ![r] = @ - Bytes(rblock[r])]
        /\ \E e \in {"undefined", "read"} : pc' = [pc EXCEPT ![n] = e]
        /\ UNCHANGED <<agenda, wblock, queue, rblock, reading>>
    BY <1>2, <1>10, <2>1 DEF Settle
  <2>3. pc'[n] # "settle"
    BY <1>2, <2>2 DEF TypeOK
  <2>4. ASSUME NEW p \in Pipes, p # r PROVE PipeCounts(p)'
    <3>1. bytesUsed'[p] = bytesUsed[p]
      BY <1>2, <2>2, <2>4 DEF TypeOK
    <3>2. Unsettled(p)' = Unsettled(p)
      <4>1. PICK m \in Consumers : m = ReaderOf(p)
        BY PipeEnds
      <4>2. CASE m = n
        BY <2>1, <2>3, <2>4, <4>1, <4>2, Settlement
      <4>3. CASE m # n
        <5>1. pc'[m] = pc[m] /\ reading'[m] = reading[m] /\ rblock'[p] = rblock[p]
          BY <1>2, <2>2, <4>1, <4>3 DEF TypeOK
        <5>2. QED
          BY <4>1, <5>1, Settlement
      <4>4. QED
        BY <4>2, <4>3
    <3>3. QED
      BY <1>4, <1>5, <2>2, <3>1, <3>2
  <2>5. PipeCounts(r)'
    <3>1. Unsettled(r) = Bytes(rblock[r]) /\ Unsettled(r)' = 0
      BY <2>1, <2>2, <2>3, Settlement
    <3>2. Announced(r)' = Announced(r)
      BY <1>5, <2>2
    <3>3. bytesUsed'[r] = bytesUsed[r] - Bytes(rblock[r]) /\ PipeCounts(r) /\ queue'[r] = queue[r]
      BY <1>2, <2>2 DEF TypeOK
    <3>4. bytesUsed'[r] = QueueBytes(queue'[r]) + Announced(r)' + Unsettled(r)'
      BY <1>2, <3>1, <3>2, <3>3, BytesTypes DEF PipeCounts
    <3>5. QED
      BY <3>4, CountsNext
  <2>6. QED
    BY <2>4, <2>5
\* A consumer that is not settling goes on to another place than settling.
<1>11. ASSUME NEW n \in Consumers, NEW p \in Pipes, pc[n] = "read", pc'[n] # "settle",
              UNCHANGED reading, \A m \in Consumers : m # n => pc'[m] = pc[m],
              ReaderOf(p) # n => rblock'[p] = rblock[p]
       PROVE  Unsettled(p)' = Unsettled(p)
  <2>1. PICK m \in Consumers : m = ReaderOf(p)
    BY PipeEnds
  <2>2. CASE m = n
    BY <1>11, <2>1, <2>2, Settlement
  <2>3. CASE m # n
    BY <1>11, <2>1, <2>3, Settlement
  <2>4. QED
    BY <2>2, <2>3
<1>12. ASSUME NEW n \in Lane, WorkerRead(n)
       PROVE  \A p \in Pipes : PipeCounts(p)'
  <2>1. /\ pc[n] = "read" /\ agenda[n] = <<>>
        /\ \/ agenda' = [agenda EXCEPT ![n] = Close(OutPipes(n))]
           \/ agenda' = [agenda EXCEPT ![n] = <<Write(Out(n), Head(rblock[In(n)]))>>]
        /\ rblock' = [rblock EXCEPT ![In(n)] = Tail(@)]
        /\ \E e \in {"done", "read"} : pc' = [pc EXCEPT ![n] = e]
        /\ UNCHANGED <<wblock, queue, bytesUsed, reading>>
    BY <1>12 DEF WorkerRead
  <2>2. n \in Consumers /\ n \in Producers /\ In(n) \in Pipes /\ ReaderOf(In(n)) = n
    BY Sizes, PipeEnds
  <2>3. pc'[n] # "settle" /\ \A m \in Consumers : m # n => pc'[m] = pc[m]
    BY <1>2, <2>1, <2>2 DEF TypeOK
  <2>4. ASSUME NEW p \in Pipes PROVE PipeCounts(p)'
    <3>1. Unsettled(p)' = Unsettled(p)
      <4>1. ReaderOf(p) # n => rblock'[p] = rblock[p]
        BY <1>2, <2>1, <2>2 DEF TypeOK
      <4>2. QED
        BY <1>11, <2>1, <2>2, <2>3, <4>1
    <3>2. Announced(p)' = Announced(p)
      <4>1. CASE WriterOf(p) = n
        <5>1. \/ agenda'[n] = Close(OutPipes(n))
              \/ \E q, x : agenda'[n] = <<Write(q, x)>>
          <6> DEFINE w == <<Write(Out(n), Head(rblock[In(n)]))>>
          <6>1. agenda'[n] = Close(OutPipes(n)) \/ agenda'[n] = w
            <7>1. agenda' = [agenda EXCEPT ![n] = Close(OutPipes(n))] \/ agenda' = [agenda EXCEPT ![n] = w]
              BY <2>1
            <7> HIDE DEF w
            <7>2. QED
              BY <1>2, <2>2, <7>1 DEF TypeOK
          <6>2. QED
            BY <6>1
        <5>2. ~Enqueues(agenda[n], p) /\ ~Enqueues(agenda'[n], p)
          BY <2>1, <2>2, <5>1, ReadNoEnqueue DEF Enqueues
        <5>3. QED
          BY <4>1, <5>2, Announcement
      <4>2. CASE WriterOf(p) # n
        <5>1. agenda'[WriterOf(p)] = agenda[WriterOf(p)] /\ wblock' = wblock
          BY <1>2, <2>1, <4>2, PipeEnds DEF TypeOK
        <5>2. QED
          BY <1>5, <5>1
      <4>3. QED
        BY <4>1, <4>2
    <3>3. QED
      BY <1>4, <2>1, <3>1, <3>2
  <2>5. QED
    BY <2>4
<1>13. ASSUME NEW i \in Lane, CombinerRead(i) \/ CombinerEnd
       PROVE  \A p \in Pipes : PipeCounts(p)'
  <2>1. /\ pc[Combiner] = "read"
        /\ \E e \in {"done", "read"} : pc' = [pc EXCEPT ![Combiner] = e]
        /\ \E j \in Lane : rblock' = [rblock EXCEPT ![Out(j)] = Tail(@)]
        /\ UNCHANGED <<agenda, wblock, queue, bytesUsed, reading>>
    <3>1. CASE CombinerRead(i)
      <4>1. pc[Combiner] = "read" /\ pc' = pc
        BY <3>1 DEF CombinerRead, CombinerSeesAll
      <4>2. pc' = [pc EXCEPT ![Combiner] = "read"]
        BY <1>2, <4>1, Sizes DEF TypeOK
      <4>3. QED
        BY <3>1, <4>1, <4>2 DEF CombinerRead
    <3>2. CASE CombinerEnd
      BY <3>2, Sizes DEF CombinerEnd, CombinerSeesAll
    <3>3. QED
      BY <1>13, <3>1, <3>2
  <2>2. Combiner \in Consumers
    BY Sizes
  <2>3. pc'[Combiner] # "settle" /\ \A m \in Consumers : m # Combiner => pc'[m] = pc[m]
    BY <1>2, <2>1, <2>2 DEF TypeOK
  <2>4. ASSUME NEW p \in Pipes PROVE PipeCounts(p)'
    <3>1. ReaderOf(p) # Combiner => rblock'[p] = rblock[p]
      BY <1>2, <2>1, PipeEnds DEF TypeOK
    <3>2. Unsettled(p)' = Unsettled(p)
      BY <1>11, <2>1, <2>2, <2>3, <3>1
    <3>3. QED
      BY <1>4, <1>5, <2>1, <3>2
  <2>5. QED
    BY <2>4
<1>14. CASE UNCHANGED vars
  BY <1>4, <1>5, <1>6, <1>14 DEF vars
<1>15. QED
  BY Steps, Sizes, <1>3, <1>7, <1>8, <1>9, <1>10, <1>12, <1>13, <1>14

\* When everybody is done nothing is left in a queue but empty blocks.
LEMMA NothingQueued ==
  ASSUME OrderInv, AllDone, NEW p \in Pipes
  PROVE  QueueBytes(queue[p]) = 0
<1>1. Queued(p) = {}
  <2>1. PICK i \in Lane : p = In(i) \/ p = Out(i)
    BY PipeEnds
  <2>2. /\ LaneOrdered(i) /\ InLane(i) /\ EndsPassed(i)
        /\ pc[i] = "done" /\ pc[Combiner] = "done"
    BY Sizes DEF OrderInv, OrderHolds, LanesHold, AllDone
  <2>3. ASSUME NEW s \in 0..9, NEW t \in 0..9, s < t, End \in Part(i, s)
        PROVE  Part(i, t) = {}
    <3>1. SUFFICES ASSUME NEW x \in Part(i, t) PROVE FALSE
      OBVIOUS
    <3>2. Ord(End) < Ord(x)
      BY <2>2, <2>3 DEF LaneOrdered
    <3>3. x \in Items \cup {End}
      BY <2>2 DEF InLane
    <3>4. Ord(x) \in 1..(MaxItems + 1) /\ Ord(End) = MaxItems + 1
      BY <3>3, Tokens
    <3>5. QED
      BY <3>2, <3>4, Sizes
  <2>4. 2 \in 1..4 /\ Part(i, 2) = Queued(Out(i)) /\ Part(i, 6) = Queued(In(i))
    <3>1. 2 \in 1..4 /\ 2 + 4 = 6
      OBVIOUS
    <3>2. Part(i, 2) = PipePart(Out(i), 2) /\ Part(i, 2 + 4) = PipePart(In(i), 2)
      BY <3>1, LaneParts
    <3>3. QED
      BY <3>1, <3>2 DEF PipePart
  <2>5. CASE p = Out(i)
    <3>1. PICK s \in 0..1 : End \in Part(i, s)
      BY <2>2 DEF EndsPassed
    <3>2. s \in 0..9 /\ 2 \in 0..9 /\ s < 2
      OBVIOUS
    <3>3. QED
      BY <2>3, <2>4, <2>5, <3>1, <3>2
  <2>6. CASE p = In(i)
    <3>1. PICK s \in 0..4 : End \in Part(i, s)
      BY <2>2 DEF EndsPassed
    <3>2. s \in 0..9 /\ 6 \in 0..9 /\ s < 6
      OBVIOUS
    <3>3. QED
      BY <2>3, <2>4, <2>6, <3>1, <3>2
  <2>7. QED
    BY <2>1, <2>5, <2>6
<1>2. PICK q : q = queue[p]
  OBVIOUS
<1>3. q \in Seq(Blocks)
  BY <1>2 DEF OrderInv, TypeOK
<1>4. ASSUME NEW k \in DOMAIN q PROVE q[k] = <<>>
  <2>1. q[k] \in Seq(Items \cup {End})
    BY <1>3 DEF Blocks
  <2>2. Entries(q[k]) = {}
    BY <1>1, <1>2 DEF Queued, InBlocks
  <2>3. QED
    BY <2>1, <2>2, EntriesFacts
<1>5. QED
  BY <1>2, <1>3, <1>4, QueueBytesFacts

\* The bytes a pipe counts cover what is in its queue, so the unsigned count
\* never falls below zero: they are added before the block is enqueued and
\* taken off after it is dequeued.  Nothing is left of them at the end.
THEOREM DataflowBytesCoverQueue == Spec => []BytesCoverQueue
<1>1. BytesInv => BytesCoverQueue
  <2>1. SUFFICES ASSUME BytesInv PROVE BytesCoverQueue
    OBVIOUS
  <2>2. OrderInv /\ TypeOK /\ \A p \in Pipes : PipeCounts(p)
    BY <2>1 DEF BytesInv, OrderInv, BytesHold, PipeCounts
  <2>3. ASSUME NEW p \in Pipes PROVE bytesUsed[p] >= QueueBytes(queue[p])
    BY <2>2, BytesTypes DEF PipeCounts
  <2>4. ASSUME AllDone, NEW p \in Pipes PROVE bytesUsed[p] = 0
    <3>1. QueueBytes(queue[p]) = 0
      BY <2>2, <2>4, NothingQueued
    <3>2. Announced(p) = 0
      <4>1. agenda[WriterOf(p)] = <<>>
        BY <2>4, PipeEnds DEF AllDone
      <4>2. QED
        BY <4>1, Announcement DEF Enqueues
    <3>3. Unsettled(p) = 0
      <4>1. pc[ReaderOf(p)] = "done"
        BY <2>4, PipeEnds DEF AllDone
      <4>2. QED
        BY <4>1, Settlement
    <3>4. QED
      BY <2>2, <3>1, <3>2, <3>3 DEF PipeCounts
  <2>5. QED
    BY <2>3, <2>4 DEF BytesCoverQueue
<1>2. QED
  BY BytesInit, BytesStep, <1>1, PTL DEF Spec

-----------------------------------------------------------------------------
(***************************************************************************)
(* The run of such a graph: as many lanes, the threads of the nodes and    *)
(* the controller that starts and joins them.  Nodes and pipes are freed   *)
(* after all threads only, whatever the input and the limits of memory.    *)
(***************************************************************************)
CONSTANTS MaxHits, CheckInterval, MaxMemory

VARIABLES main, next, thread, known, isDone, check, hits, queued, freed

Control == INSTANCE DataflowControl

\* What DataflowControl assumes of its constants, but for the lanes.
ControlSizes == {MaxHits, MaxMemory} \subseteq Nat /\ CheckInterval \in Nat \ {0}

\* The loop of wait_all has joined the threads before the one it is at; the monitor
\* is told to end after it; past both, all are joined; only then is anything freed.
JoinedSoFar ==
    /\ main = "wait" => \A t \in Control!Node : t < next => thread[t] = "joined"
    /\ main = "start" => ~isDone
    /\ isDone => next = Control!Monitor
    /\ main \in {"joined", "done"} => \A t \in Control!Thread : thread[t] = "joined"
    /\ freed => main = "done"

ControlInv == Control!TypeOK /\ JoinedSoFar

LEMMA ThreadFacts ==
    ASSUME ControlSizes
    PROVE  /\ Control!Node \subseteq Control!Thread /\ Control!Lane \subseteq Control!Node
           /\ Control!Monitor \in Control!Thread /\ Control!Source \in Control!Node
           /\ 0 \in Control!Thread /\ Lanes \in Nat
BY DataflowAssumption
   DEF ControlSizes, Control!Node, Control!Thread, Control!Monitor, Control!Lane, Control!Source

LEMMA ControlInit ==
    ASSUME ControlSizes, Control!Init
    PROVE  ControlInv
<1>1. Control!TypeOK
  <2>1. thread \in [Control!Thread -> {"none", "running", "ended", "joined"}]
    BY DEF Control!Init
  <2>2. hits \in 0..MaxHits
    BY DataflowAssumption DEF ControlSizes, Control!Init
  <2>3. queued \in [Control!Lane -> Nat]
    BY DEF Control!Init
  <2> QED
    BY <2>1, <2>2, <2>3, ThreadFacts DEF Control!Init, Control!TypeOK
<1>2. JoinedSoFar
  BY DEF Control!Init, JoinedSoFar
<1> QED
  BY <1>1, <1>2 DEF ControlInv

LEMMA ControlTypeNext ==
    ASSUME ControlSizes, Control!TypeOK, [Control!Next]_Control!vars
    PROVE  Control!TypeOK'
<1> USE ThreadFacts, DataflowAssumption DEF ControlSizes, Control!TypeOK, Control!Running
<1>1. CASE Control!StartNode
  BY <1>1 DEF Control!StartNode, Control!Node, Control!Thread, Control!Monitor
<1>2. CASE Control!StoreController
  BY <1>2 DEF Control!StoreController
<1>3. CASE Control!StartMonitor
  BY <1>3 DEF Control!StartMonitor, Control!Thread, Control!Monitor
<1>4. CASE Control!JoinNode
  BY <1>4 DEF Control!JoinNode, Control!Node, Control!Thread, Control!Monitor
<1>5. CASE Control!EndMonitor
  BY <1>5 DEF Control!EndMonitor
<1>6. CASE Control!JoinMonitor
  BY <1>6 DEF Control!JoinMonitor
<1>7. CASE Control!RemoveAll
  BY <1>7 DEF Control!RemoveAll
<1>8. ASSUME NEW l \in Control!Lane, Control!SourceWrite(l) PROVE Control!TypeOK'
  BY <1>8 DEF Control!SourceWrite
<1>9. CASE Control!MemoryCheck
  BY <1>9 DEF Control!MemoryCheck, Control!IsFullMemory, Control!UsedMemory
<1>10. CASE Control!SourceEnd
  BY <1>10 DEF Control!SourceEnd
<1>11. ASSUME NEW l \in Control!Lane, Control!ConsumerStep(l) PROVE Control!TypeOK'
  BY <1>11 DEF Control!ConsumerStep, Control!ConsumerRead, Control!ConsumerEnd
<1>12. CASE Control!MonitorEnd
  BY <1>12 DEF Control!MonitorEnd
<1>13. CASE UNCHANGED Control!vars
  BY <1>13 DEF Control!vars
<1> QED
  BY <1>1, <1>2, <1>3, <1>4, <1>5, <1>6, <1>7, <1>8, <1>9, <1>10, <1>11, <1>12,
     <1>13 DEF Control!Next, Control!MainStep, Control!SourceStep, Control!Finished

\* wait_all goes on to the next thread only when the one before has ended, and a
\* thread that was joined is never started again.
LEMMA ControlJoinedNext ==
    ASSUME ControlSizes, Control!TypeOK, JoinedSoFar, [Control!Next]_Control!vars
    PROVE  JoinedSoFar'
<1> USE ThreadFacts, DataflowAssumption
    DEF ControlSizes, Control!TypeOK, JoinedSoFar, Control!Running
<1>1. CASE Control!StartNode
  BY <1>1 DEF Control!StartNode
<1>2. CASE Control!StoreController
  BY <1>2 DEF Control!StoreController
<1>3. CASE Control!StartMonitor
  BY <1>3 DEF Control!StartMonitor, Control!Node
<1>4. CASE Control!JoinNode
  <2>1. main' = "wait" /\ freed' = freed
    BY <1>4 DEF Control!JoinNode
  <2>2. ~isDone'
    BY <1>4 DEF Control!JoinNode, Control!Node, Control!Monitor
  <2>3. ASSUME NEW t \in Control!Node, t < next' PROVE thread'[t] = "joined"
    <3>1. t = next \/ t < next
      BY <1>4, <2>3 DEF Control!JoinNode, Control!Node
    <3> QED
      BY <1>4, <2>3, <3>1 DEF Control!JoinNode
  <2> QED
    BY <1>4, <2>1, <2>2, <2>3 DEF Control!JoinNode
<1>5. CASE Control!EndMonitor
  BY <1>5 DEF Control!EndMonitor
<1>6. CASE Control!JoinMonitor
  <2>1. next = Control!Monitor /\ main = "wait"
    BY <1>6 DEF Control!JoinMonitor
  <2>2. ASSUME NEW t \in Control!Thread PROVE thread'[t] = "joined"
    <3>1. t = Control!Monitor \/ (t \in Control!Node /\ t < Control!Monitor)
      BY DEF Control!Node, Control!Thread, Control!Monitor
    <3> QED
      BY <1>6, <2>1, <3>1 DEF Control!JoinMonitor
  <2> QED
    BY <1>6, <2>1, <2>2 DEF Control!JoinMonitor
<1>7. CASE Control!RemoveAll
  BY <1>7 DEF Control!RemoveAll
<1>8. ASSUME NEW l \in Control!Lane, Control!SourceWrite(l) PROVE JoinedSoFar'
  BY <1>8 DEF Control!SourceWrite
<1>9. CASE Control!MemoryCheck
  BY <1>9 DEF Control!MemoryCheck
<1>10. CASE Control!SourceEnd
  BY <1>10 DEF Control!SourceEnd
<1>11. ASSUME NEW l \in Control!Lane, Control!ConsumerStep(l) PROVE JoinedSoFar'
  BY <1>11 DEF Control!ConsumerStep, Control!ConsumerRead, Control!ConsumerEnd
<1>12. CASE Control!MonitorEnd
  BY <1>12 DEF Control!MonitorEnd
<1>13. CASE UNCHANGED Control!vars
  BY <1>13 DEF Control!vars
<1> QED
  BY <1>1, <1>2, <1>3, <1>4, <1>5, <1>6, <1>7, <1>8, <1>9, <1>10, <1>11, <1>12,
     <1>13 DEF Control!Next, Control!MainStep, Control!SourceStep, Control!Finished

\* The inductive invariant of a run.
THEOREM ControlInvariant ==
    ASSUME ControlSizes
    PROVE  Control!Spec => []ControlInv
<1>1. ControlInv /\ [Control!Next]_Control!vars => ControlInv'
  BY ControlTypeNext, ControlJoinedNext DEF ControlInv
<1> QED
  BY ControlInit, <1>1, PTL DEF Control!Spec

\* For any number of lanes and hits, nodes and pipes are freed by remove_all only
\* when every thread of the run, the monitor among them, has been joined.
THEOREM ControlSafe ==
    ASSUME ControlSizes
    PROVE  Control!Spec => [](Control!TypeOK /\ Control!FreedAfterThreads)
<1>1. ControlInv => Control!TypeOK /\ Control!FreedAfterThreads
  BY DEF ControlInv, JoinedSoFar, Control!FreedAfterThreads
<1> QED
  BY ControlInvariant, <1>1, PTL
=============================================================================
