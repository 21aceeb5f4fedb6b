------------------------ MODULE MoodycamelQueueProofs ------------------------
(***************************************************************************)
(* The lock-free queue implements the queue the nodes rely on, and keeps   *)
(* its promises about elements and blocks, for any sizes of blocks, pool   *)
(* and index, any bound on the elements and any finite set of readers, as  *)
(* long as no reader's count of given back claims is older than the        *)
(* indexes can tell (NoReaderLags).  With one reading thread, which is     *)
(* what a pipe has, that cannot happen and the results hold outright.      *)
(*                                                                         *)
(* The invariant Inv has five parts, each kept by every step:              *)
(*   TypeOK    what is stored where;                                       *)
(*   Claims    there are counts of all claims ever made and given back, of *)
(*             which the shared ones are what is left of them, such that   *)
(*             the claims that hold are covered by elements.  The claims   *)
(*             still undecided are ordered by their numbers: one that is   *)
(*             followed by too many others to be honoured must be given    *)
(*             back, and whichever the readers decide first, no more hold  *)
(*             than there are elements;                                    *)
(*   IndexInv  every block's base is the key of one entry, the entries of  *)
(*             a ring are in the order of the keys up to its tail, so the  *)
(*             distance between two keys is that of their entries, in the  *)
(*             ring in use as well as in the older ones readers still have;*)
(*   Elements  the block of every element not yet gone is in the index, in *)
(*             use, and has the element in its slot, and the block counts  *)
(*             the elements that are gone;                                 *)
(*   Owners    a block is in one place only.                               *)
(***************************************************************************)
EXTENDS MoodycamelQueue, FiniteSetTheorems, TLAPS

-----------------------------------------------------------------------------
(* Division and remainders *)

LEMMA Monotone ==
    ASSUME NEW m \in Nat, NEW a \in Int, NEW b \in Int, a <= b
    PROVE  m * a \in Int /\ m * b \in Int /\ m * a <= m * b
<1>1. PICK d \in Nat : b = a + d
  <2>1. b - a \in Nat /\ b = a + (b - a)
    OBVIOUS
  <2> QED BY <2>1
<1>2. m * b = m * a + m * d
  BY <1>1
<1>3. m * d \in Nat /\ m * a \in Int
  OBVIOUS
<1> DEFINE u == m * a  v == m * d  w == m * b
<1>4. w = u + v /\ v \in Nat /\ u \in Int
  BY <1>2, <1>3
<1> HIDE DEF u, v, w
<1>5. w \in Int /\ u <= w /\ u \in Int
  BY <1>4
<1> QED BY <1>5 DEF u, w

LEMMA Remainder ==
    ASSUME NEW c \in Nat \ {0}, NEW a \in Int
    PROVE  /\ a % c \in 0..(c - 1) /\ a \div c \in Int
           /\ c * (a \div c) \in Int
           /\ a = c * (a \div c) + (a % c)
OBVIOUS

\* Quotient and remainder are unique.
LEMMA Division ==
    ASSUME NEW c \in Nat \ {0}, NEW k \in Int, NEW r \in 0..(c - 1)
    PROVE  (c * k + r) % c = r /\ (c * k + r) \div c = k
<1> DEFINE a == c * k + r
           l == a \div c
           s == a % c
           u == c * k
           v == c * l
<1>1. u \in Int /\ a \in Int /\ a = u + r
  OBVIOUS
<1>2. s \in 0..(c - 1) /\ l \in Int /\ v \in Int /\ a = v + s
  BY <1>1, Remainder
<1>3. ~(k < l)
  <2> SUFFICES ASSUME k < l PROVE FALSE
    OBVIOUS
  <2>1. k + 1 \in Int /\ k + 1 <= l /\ c \in Nat
    BY <1>2
  <2>2. c * (k + 1) <= v
    BY <1>2, <2>1, Monotone
  <2>3. c * (k + 1) = u + c
    OBVIOUS
  <2> HIDE DEF a, l, s, u, v
  <2> QED BY <1>1, <1>2, <2>2, <2>3
<1>4. ~(l < k)
  <2> SUFFICES ASSUME l < k PROVE FALSE
    OBVIOUS
  <2>1. l + 1 \in Int /\ l + 1 <= k /\ c \in Nat
    BY <1>2
  <2>2. c * (l + 1) <= u
    BY <1>2, <2>1, Monotone
  <2>3. c * (l + 1) = v + c
    BY <1>2
  <2> HIDE DEF a, l, s, u, v
  <2> QED BY <1>1, <1>2, <2>2, <2>3
<1>5. k = l
  BY <1>2, <1>3, <1>4
<1>6. u = v
  BY <1>5
<1> HIDE DEF u, v, l, s, a
<1>7. r = s
  BY <1>1, <1>2, <1>6
<1> QED BY <1>5, <1>7 DEF a, s, l

\* Multiples of the divisor do not count.
LEMMA Shift ==
    ASSUME NEW c \in Nat \ {0}, NEW k \in Int, NEW a \in Int
    PROVE  (c * k + a) % c = a % c
<1> DEFINE l == a \div c  r == a % c
<1>1. l \in Int /\ r \in 0..(c - 1) /\ a = c * l + r
  BY Remainder
<1> HIDE DEF l, r
<1>2. c * (k + l) = c * k + c * l /\ c * k \in Int /\ c * l \in Int /\ k + l \in Int
  BY <1>1
<1>3. c * k + a = c * (k + l) + r
  BY <1>1, <1>2
<1>4. (c * (k + l) + r) % c = r
  BY <1>1, <1>2, Division
<1> QED BY <1>3, <1>4 DEF r

LEMMA Added ==
    ASSUME NEW c \in Nat \ {0}, NEW a \in Int, NEW b \in Int
    PROVE  ((a % c) + b) % c = (a + b) % c
<1> DEFINE l == a \div c  r == a % c
<1>1. l \in Int /\ r \in 0..(c - 1) /\ a = c * l + r /\ c * l \in Int
  BY Remainder
<1> HIDE DEF l, r
<1>2. a + b = c * l + (r + b) /\ r + b \in Int
  BY <1>1
<1>3. (c * l + (r + b)) % c = (r + b) % c
  BY <1>1, <1>2, Shift
<1> QED BY <1>2, <1>3 DEF r

LEMMA Subtracted ==
    ASSUME NEW c \in Nat \ {0}, NEW a \in Int, NEW b \in Int
    PROVE  (b - (a % c)) % c = (b - a) % c
<1> DEFINE l == a \div c  r == a % c
<1>1. l \in Int /\ r \in 0..(c - 1) /\ a = c * l + r /\ c * l \in Int
  BY Remainder
<1> HIDE DEF l, r
<1>2. b - r = c * l + (b - a) /\ b - a \in Int
  BY <1>1
<1>3. (c * l + (b - a)) % c = (b - a) % c
  BY <1>1, <1>2, Shift
<1> QED BY <1>2, <1>3 DEF r

\* Numbers less than the divisor apart have different remainders.
LEMMA Apart ==
    ASSUME NEW c \in Nat \ {0}, NEW a \in Int, NEW b \in Int,
           a % c = b % c, a <= b, b < a + c
    PROVE  a = b
<1> DEFINE l == a \div c  m == b \div c  r == a % c
<1>1. /\ l \in Int /\ m \in Int /\ r \in 0..(c - 1)
      /\ a = c * l + r /\ b = c * m + r /\ c * l \in Int /\ c * m \in Int
  BY Remainder
<1> HIDE DEF l, m, r
<1>2. ~(l < m)
  <2> SUFFICES ASSUME l < m PROVE FALSE
    OBVIOUS
  <2>1. l + 1 \in Int /\ l + 1 <= m /\ c \in Nat
    BY <1>1
  <2>2. c * (l + 1) <= c * m
    BY <1>1, <2>1, Monotone
  <2>3. c * (l + 1) = c * l + c
    BY <1>1
  <2> DEFINE u == c * l  v == c * m
  <2>4. u + c <= v /\ u \in Int /\ v \in Int /\ a = u + r /\ b = v + r
    BY <1>1, <2>2, <2>3
  <2> HIDE DEF u, v
  <2> QED BY <1>1, <2>4
<1>3. ~(m < l)
  <2> SUFFICES ASSUME m < l PROVE FALSE
    OBVIOUS
  <2>1. m + 1 \in Int /\ m + 1 <= l /\ c \in Nat
    BY <1>1
  <2>2. c * (m + 1) <= c * l
    BY <1>1, <2>1, Monotone
  <2>3. c * (m + 1) = c * m + c
    BY <1>1
  <2> DEFINE u == c * l  v == c * m
  <2>4. v + c <= u /\ u \in Int /\ v \in Int /\ a = u + r /\ b = v + r
    BY <1>1, <2>2, <2>3
  <2> HIDE DEF u, v
  <2> QED BY <1>1, <2>4
<1>4. l = m
  BY <1>1, <1>2, <1>3
<1> QED BY <1>1, <1>4

LEMMA SmallRemainder ==
    ASSUME NEW c \in Nat \ {0}, NEW r \in 0..(c - 1)
    PROVE  r % c = r
<1>1. c * 0 + r = r
  OBVIOUS
<1>2. (c * 0 + r) % c = r
  BY Division
<1> QED BY <1>1, <1>2

-----------------------------------------------------------------------------
(* Blocks, indexes and counts *)

\* The number of the block of an index: its base is BLOCK_SIZE times that.
Block(i) == i \div BLOCK_SIZE
ItemsOf(n) == {i \in Nat : Block(i) = n}

LEMMA Sizes ==
    /\ BLOCK_SIZE \in Nat \ {0} /\ BLOCK_SIZE > 1 /\ PoolSize \in Nat \ {0}
    /\ IndexSize \in Nat \ {0} /\ IndexSize > 1
    /\ MaxItems \in Nat /\ HalfRange \in Nat \ {0} /\ IsFiniteSet(Readers)
    /\ Cardinality(Readers) \in Nat /\ MaxItems + Cardinality(Readers) < HalfRange
<1>1. Cardinality(Readers) \in Nat
  BY QueueAssumption, FS_CardinalityType
<1> QED BY <1>1, QueueAssumption

LEMMA WrapFacts ==
    ASSUME NEW a \in Int, NEW b \in Int
    PROVE  /\ Wrap(a) \in Nat /\ Wrap(a) < 2 * HalfRange
           /\ Wrap(Wrap(a) + b) = Wrap(a + b)
           /\ Wrap(Wrap(a) - Wrap(b)) = Wrap(a - b)
           /\ 0 <= a /\ a < 2 * HalfRange => Wrap(a) = a
<1> DEFINE c == 2 * HalfRange
<1>1. c \in Nat \ {0}
  BY Sizes
<1> HIDE DEF c
<1>2. Wrap(a) \in 0..(c - 1) /\ Wrap(a) = a % c /\ Wrap(b) = b % c
  BY <1>1, Remainder DEF Wrap, c
<1>3. Wrap(Wrap(a) + b) = Wrap(a + b)
  BY <1>1, <1>2, Added DEF Wrap, c
<1>4. Wrap(Wrap(a) - Wrap(b)) = Wrap(a - b)
  <2> DEFINE r == a % c
  <2>1. r \in Int
    BY <1>1, Remainder
  <2>2. a - b = a + (-b) /\ -b \in Int
    OBVIOUS
  <2>3. (r + (-b)) % c = (a + (-b)) % c
    BY <1>1, <2>2, Added
  <2> HIDE DEF r
  <2>4. (r - (b % c)) % c = (r - b) % c
    BY <1>1, <2>1, Subtracted
  <2>5. r - b = r + (-b)
    BY <2>1
  <2>6. (r - (b % c)) % c = (a - b) % c
    BY <2>2, <2>3, <2>4, <2>5
  <2> QED BY <1>2, <2>6 DEF Wrap, c, r
<1>5. 0 <= a /\ a < c => Wrap(a) = a
  <2> SUFFICES ASSUME 0 <= a, a < c PROVE a % c = a
    BY DEF Wrap, c
  <2>1. a \in 0..(c - 1)
    BY <1>1
  <2> QED BY <1>1, <2>1, SmallRemainder
<1>6. Wrap(a) \in Nat /\ Wrap(a) < c
  BY <1>1, <1>2
<1> QED BY <1>3, <1>4, <1>5, <1>6 DEF c

LEMMA BlockFacts ==
    ASSUME NEW i \in Nat
    PROVE  /\ Block(i) \in Nat /\ i % BLOCK_SIZE \in Slots /\ i % BLOCK_SIZE \in Nat
           /\ i % BLOCK_SIZE < BLOCK_SIZE
           /\ BLOCK_SIZE * Block(i) \in Nat
           /\ i = BLOCK_SIZE * Block(i) + (i % BLOCK_SIZE)
           /\ BlockBase(i) = BLOCK_SIZE * Block(i)
<1> DEFINE n == Block(i)  s == i % BLOCK_SIZE  u == BLOCK_SIZE * n
<1>1. s \in 0..(BLOCK_SIZE - 1) /\ n \in Int /\ u \in Int /\ i = u + s
  <2>1. BLOCK_SIZE \in Nat \ {0} /\ i \in Int
    BY Sizes
  <2>2. n = i \div BLOCK_SIZE
    BY DEF Block
  <2> HIDE DEF n
  <2> QED BY ONLY <2>1, <2>2, Remainder
<1>2. n \in Nat
  BY Sizes DEF Block
<1>3. u \in Nat
  BY <1>2, Sizes
<1> HIDE DEF n, s, u
<1>4. i - s = u /\ s \in Nat /\ s < BLOCK_SIZE
  BY <1>1, <1>3, Sizes
<1> QED BY <1>1, <1>2, <1>3, <1>4 DEF n, s, u, BlockBase, Slots

\* An index is in block n when it is one of the block's slots away from its base.
LEMMA BlockAt ==
    ASSUME NEW n \in Nat, NEW s \in Slots
    PROVE  /\ BLOCK_SIZE * n + s \in Nat
           /\ Block(BLOCK_SIZE * n + s) = n /\ (BLOCK_SIZE * n + s) % BLOCK_SIZE = s
<1>1. s \in 0..(BLOCK_SIZE - 1) /\ n \in Int /\ s \in Nat /\ BLOCK_SIZE * n \in Nat
  BY Sizes DEF Slots
<1>2. BLOCK_SIZE * n + s \in Nat
  BY <1>1
<1> QED BY <1>1, <1>2, Sizes, Division DEF Block

LEMMA KeysDiffer ==
    ASSUME NEW n \in Int, NEW m \in Int
    PROVE  /\ BLOCK_SIZE * n = BLOCK_SIZE * m => n = m
           /\ BLOCK_SIZE * n # INVALID_BLOCK_BASE
           /\ (BLOCK_SIZE * n - BLOCK_SIZE * m) \div BLOCK_SIZE = n - m
           /\ n < m => BLOCK_SIZE * n < BLOCK_SIZE * m
<1>0. 0 \in 0..(BLOCK_SIZE - 1) /\ 1 \in 0..(BLOCK_SIZE - 1)
  BY Sizes
<1>1. BLOCK_SIZE * n + 0 = BLOCK_SIZE * n /\ BLOCK_SIZE * m + 0 = BLOCK_SIZE * m
  BY Sizes
<1>2. (BLOCK_SIZE * n) \div BLOCK_SIZE = n /\ (BLOCK_SIZE * n) % BLOCK_SIZE = 0
  BY <1>0, <1>1, Sizes, Division
<1>3. (BLOCK_SIZE * m) \div BLOCK_SIZE = m
  BY <1>0, <1>1, Sizes, Division
<1>4. 1 % BLOCK_SIZE = 1
  BY <1>0, Sizes, SmallRemainder
<1>5. BLOCK_SIZE * (n - m) = BLOCK_SIZE * n - BLOCK_SIZE * m
  BY Sizes
<1>6. (BLOCK_SIZE * (n - m)) \div BLOCK_SIZE = n - m
  <2>1. n - m \in Int /\ BLOCK_SIZE * (n - m) + 0 = BLOCK_SIZE * (n - m)
    BY Sizes
  <2> QED BY <1>0, <2>1, Sizes, Division
<1>7. n < m => BLOCK_SIZE * n < BLOCK_SIZE * m
  <2> SUFFICES ASSUME n < m PROVE BLOCK_SIZE * n < BLOCK_SIZE * m
    OBVIOUS
  <2>1. n + 1 \in Int /\ n + 1 <= m /\ BLOCK_SIZE \in Nat
    BY Sizes
  <2>2. BLOCK_SIZE * (n + 1) <= BLOCK_SIZE * m /\ BLOCK_SIZE * m \in Int
    BY <2>1, Monotone
  <2>3. BLOCK_SIZE * (n + 1) = BLOCK_SIZE * n + BLOCK_SIZE /\ BLOCK_SIZE * n \in Int
    BY Sizes
  <2> QED BY <2>2, <2>3, Sizes
<1> QED BY <1>2, <1>3, <1>4, <1>5, <1>6, <1>7 DEF INVALID_BLOCK_BASE

LEMMA BlockOrder ==
    ASSUME NEW i \in Nat, NEW j \in Nat
    PROVE  /\ i <= j => Block(i) <= Block(j)
           /\ i < j /\ j % BLOCK_SIZE = 0 => Block(i) < Block(j)
           /\ \A n \in Nat : BLOCK_SIZE * n <= j <=> n <= Block(j)
<1>1. ASSUME NEW n \in Nat PROVE BLOCK_SIZE * n <= j <=> n <= Block(j)
  <2> DEFINE u == BLOCK_SIZE * n  m == Block(j)  v == BLOCK_SIZE * m  s == j % BLOCK_SIZE
  <2>1. m \in Nat /\ v \in Nat /\ s \in Nat /\ s < BLOCK_SIZE /\ j = v + s
    BY BlockFacts
  <2>0. u \in Nat
    BY Sizes
  <2>2. n <= m => u <= v
    <3> SUFFICES ASSUME n <= m PROVE u <= v
      OBVIOUS
    <3>1. BLOCK_SIZE \in Nat /\ n \in Int /\ m \in Int
      BY <2>1, Sizes
    <3> QED BY <3>1, Monotone
  <2>3. m < n => v + BLOCK_SIZE <= u
    <3> SUFFICES ASSUME m < n PROVE v + BLOCK_SIZE <= u
      OBVIOUS
    <3>1. m + 1 \in Int /\ m + 1 <= n /\ BLOCK_SIZE \in Nat
      BY <2>1, Sizes
    <3>2. BLOCK_SIZE * (m + 1) <= u
      BY <3>1, Monotone
    <3>3. BLOCK_SIZE * (m + 1) = v + BLOCK_SIZE
      BY <2>1, Sizes
    <3> QED BY <3>2, <3>3
  <2> HIDE DEF u, m, v, s
  <2>4. u <= j <=> n <= m
    BY <2>0, <2>1, <2>2, <2>3, Sizes
  <2> QED BY <2>4 DEF u, m
<1> DEFINE n == Block(i)  u == BLOCK_SIZE * n  s == i % BLOCK_SIZE
<1>2. n \in Nat /\ u \in Nat /\ s \in Nat /\ i = u + s
  BY BlockFacts
<1>3. i <= j => n <= Block(j)
  <2>1. i <= j => u <= j
    BY <1>2
  <2> QED BY <1>1, <1>2, <2>1
<1>4. ASSUME i < j, j % BLOCK_SIZE = 0 PROVE n < Block(j)
  <2> DEFINE m == Block(j)
  <2>1. m \in Nat /\ j = BLOCK_SIZE * m + 0 /\ n <= m /\ BLOCK_SIZE * m \in Nat
    BY <1>3, <1>4, BlockFacts
  <2>2. n # m
    BY <1>2, <1>4, <2>1
  <2> HIDE DEF m
  <2>3. n < m
    BY <1>2, <2>1, <2>2
  <2> QED BY <2>3 DEF m
<1> QED BY <1>1, <1>3, <1>4

\* Where a block ends.
LEMMA BlockEnds ==
    ASSUME NEW i \in Nat
    PROVE  /\ i % BLOCK_SIZE = 0 => Block(i + BLOCK_SIZE - 1) = Block(i) /\ BLOCK_SIZE * Block(i) = i
           /\ i % BLOCK_SIZE # 0 => Block(i + BLOCK_SIZE - 1) = Block(i) + 1
           /\ Block((i + 1) + BLOCK_SIZE - 1) = Block(i) + 1
           /\ i % BLOCK_SIZE # 0 => BLOCK_SIZE * Block(i) < i
<1> DEFINE n == Block(i)  s == i % BLOCK_SIZE  u == BLOCK_SIZE * n
<1>1. n \in Nat /\ s \in Nat /\ s < BLOCK_SIZE /\ u \in Nat /\ i = u + s
  BY BlockFacts
<1>2. BLOCK_SIZE * (n + 1) = u + BLOCK_SIZE
  BY <1>1, Sizes
<1>3. ASSUME NEW m \in Nat, NEW t \in Slots PROVE Block(BLOCK_SIZE * m + t) = m
  BY BlockAt
<1> HIDE DEF n, s, u
<1>4. s = 0 => i + BLOCK_SIZE - 1 = u + (BLOCK_SIZE - 1) /\ BLOCK_SIZE - 1 \in Slots
  BY <1>1, Sizes DEF Slots
<1>5. s # 0 => i + BLOCK_SIZE - 1 = (u + BLOCK_SIZE) + (s - 1) /\ s - 1 \in Slots /\ u < i
  BY <1>1, Sizes DEF Slots
<1>6. (i + 1) + BLOCK_SIZE - 1 = (u + BLOCK_SIZE) + s /\ s \in Slots
  BY <1>1, Sizes DEF Slots
<1>7. n + 1 \in Nat
  BY <1>1
<1>8. s = 0 => Block(i + BLOCK_SIZE - 1) = n
  BY <1>1, <1>3, <1>4 DEF u
<1>9. s # 0 => Block(i + BLOCK_SIZE - 1) = n + 1
  BY <1>2, <1>3, <1>5, <1>7
<1>10. Block((i + 1) + BLOCK_SIZE - 1) = n + 1
  BY <1>2, <1>3, <1>6, <1>7
<1>11. s = 0 => u = i
  BY <1>1
<1> QED BY <1>5, <1>8, <1>9, <1>10, <1>11 DEF n, s, u

LEMMA ItemsFacts ==
    ASSUME NEW n \in Nat
    PROVE  /\ IsFiniteSet(ItemsOf(n)) /\ Cardinality(ItemsOf(n)) = BLOCK_SIZE
<1> DEFINE a == BLOCK_SIZE * n
<1>1. a \in Nat
  BY Sizes
<1>2. ItemsOf(n) = a..(a + BLOCK_SIZE - 1)
  <2>1. ASSUME NEW i \in ItemsOf(n) PROVE i \in a..(a + BLOCK_SIZE - 1)
    <3>1. i \in Nat /\ Block(i) = n
      BY DEF ItemsOf
    <3>2. i % BLOCK_SIZE \in Nat /\ i % BLOCK_SIZE < BLOCK_SIZE /\ i = a + (i % BLOCK_SIZE)
      BY <3>1, BlockFacts
    <3> QED BY <1>1, <3>2, Sizes
  <2>2. ASSUME NEW i \in a..(a + BLOCK_SIZE - 1) PROVE i \in ItemsOf(n)
    <3>1. i - a \in Slots /\ i = a + (i - a) /\ i \in Nat
      BY <1>1, Sizes DEF Slots
    <3>2. Block(a + (i - a)) = n
      BY <3>1, BlockAt
    <3> QED BY <3>1, <3>2 DEF ItemsOf
  <2> QED BY <2>1, <2>2
<1> DEFINE b == a + BLOCK_SIZE - 1
<1>3. a \in Int /\ b \in Int /\ ~(a > b) /\ b - a + 1 = BLOCK_SIZE
  BY <1>1, Sizes
<1> HIDE DEF a, b
<1>4. IsFiniteSet(a..b) /\ Cardinality(a..b) = IF a > b THEN 0 ELSE b - a + 1
  BY <1>3, FS_Interval
<1> QED BY <1>2, <1>3, <1>4 DEF b

-----------------------------------------------------------------------------
(* Claims *)

At(steps) == {r \in Readers : reader[r].at \in steps}

\* The steps at which a reader's count of given back claims matters, at which it
\* has a claim to no element yet, and at which it deals with a claim at all.
Deciding == {"look", "claim", "check"}
Undecided == At({"check", "giveback"})
Claiming == Deciding \cup {"giveback", "take"}

\* The elements readers have the right to: those taken, and those about to be.
Owned == headIndex + Cardinality(At({"take"}))

\* C claims were made and O given back; t[r] is the number of r's claim, o[r] how
\* many were given back when r loaded their count.
ClaimCounts(C, O, t, o) ==
    /\ dequeueOptimisticCount = Wrap(C)
    /\ dequeueOvercommit = Wrap(O)
    /\ \A r \in Readers : reader[r].at \in Deciding =>
          /\ o[r] <= O
          /\ O - o[r] + Cardinality(Readers) <= HalfRange
          /\ reader[r].overcommit = Wrap(o[r])
    /\ \A r \in Readers : reader[r].at = "check" => reader[r].count = Wrap(t[r])

\* Of the undecided claims those up to the number s could all hold at once.  And
\* where a reader finds that one with a larger number holds (t[r] - o[r] is less
\* than tailIndex), it and all before it could.
ClaimOrder(C, O, t, o, s) ==
    /\ C = Owned + O + Cardinality(Undecided)
    /\ s < C
    /\ \A r \in Undecided : t[r] < C
    /\ \A r, q \in Undecided : t[r] = t[q] => r = q
    /\ Owned + Cardinality({r \in Undecided : t[r] <= s}) <= tailIndex
    /\ \A r \in Readers : reader[r].at = "check" /\ s < t[r] =>
          Owned + Cardinality({q \in Undecided : t[q] < t[r]}) <= t[r] - o[r]

Claims ==
    \E C, O \in Nat, t, o \in [Readers -> Nat], s \in Int :
        ClaimCounts(C, O, t, o) /\ ClaimOrder(C, O, t, o, s)

Indexed ==
    /\ reader \in [Readers -> Locals]
    /\ tailIndex \in 0..MaxItems
    /\ headIndex \in 0..MaxItems

LEMMA Counted ==
    ASSUME NEW S \in SUBSET Readers
    PROVE  /\ IsFiniteSet(S) /\ Cardinality(S) \in Nat /\ Cardinality(S) <= Cardinality(Readers)
           /\ \A r \in Readers : r \notin S => Cardinality(S \cup {r}) = Cardinality(S) + 1
           /\ \A r \in S : Cardinality(S \ {r}) = Cardinality(S) - 1 /\ Cardinality(S) > 0
           /\ \A Q \in SUBSET S : Cardinality(Q) <= Cardinality(S)
<1>1. IsFiniteSet(S) /\ Cardinality(S) <= Cardinality(Readers)
  BY Sizes, FS_Subset
<1>2. Cardinality(S) \in Nat
  BY <1>1, FS_CardinalityType
<1>3. \A r \in Readers : r \notin S => Cardinality(S \cup {r}) = Cardinality(S) + 1
  BY <1>1, FS_AddElement
<1>4. ASSUME NEW r \in S PROVE Cardinality(S \ {r}) = Cardinality(S) - 1 /\ Cardinality(S) > 0
  <2>1. IsFiniteSet(S \ {r}) /\ Cardinality(S \ {r}) = Cardinality(S) - 1
    BY <1>1, FS_RemoveElement
  <2>2. Cardinality(S \ {r}) \in Nat
    BY <2>1, FS_CardinalityType
  <2> QED BY <1>2, <2>1, <2>2
<1>5. \A Q \in SUBSET S : Cardinality(Q) <= Cardinality(S)
  BY <1>1, FS_Subset
<1> QED BY <1>1, <1>2, <1>3, <1>4, <1>5

\* A step of a reader that is at no claim, or a growing tail, leaves claims as they are.
LEMMA ClaimsKept ==
    ASSUME Claims, Indexed, tailIndex' \in Nat, tailIndex <= tailIndex',
           UNCHANGED <<headIndex, dequeueOptimisticCount, dequeueOvercommit>>,
           \A q \in Readers : reader[q].at \in Claiming \/ reader'[q].at \in Claiming =>
               /\ reader'[q].at = reader[q].at
               /\ reader'[q].overcommit = reader[q].overcommit
               /\ reader'[q].count = reader[q].count
    PROVE  Claims'
<1>1. PICK C \in Nat, O \in Nat, t \in [Readers -> Nat], o \in [Readers -> Nat], s \in Int :
         ClaimCounts(C, O, t, o) /\ ClaimOrder(C, O, t, o, s)
  BY DEF Claims
<1>2. At({"take"})' = At({"take"}) /\ Undecided' = Undecided
  <2>1. \A q \in Readers : reader'[q].at \in {"take"} <=> reader[q].at \in {"take"}
    BY DEF Claiming
  <2>2. \A q \in Readers :
          reader'[q].at \in {"check", "giveback"} <=> reader[q].at \in {"check", "giveback"}
    BY DEF Claiming, Deciding
  <2> QED BY <2>1, <2>2 DEF At, Undecided
<1>3. Owned' = Owned
  BY <1>2 DEF Owned
<1>4. ClaimCounts(C, O, t, o)'
  BY <1>1 DEF ClaimCounts, Claiming, Deciding
<1>5. ClaimOrder(C, O, t, o, s)'
  <2>1. Owned' \in Int /\ Cardinality({r \in Undecided : t[r] <= s}) \in Int
    BY <1>3, Counted DEF Owned, At, Undecided, Indexed
  <2>2. /\ C = Owned' + O + Cardinality(Undecided') /\ s < C
        /\ \A r \in Undecided' : t[r] < C
        /\ \A r, q \in Undecided' : t[r] = t[q] => r = q
    BY <1>1, <1>2, <1>3 DEF ClaimOrder
  <2>3. Owned' + Cardinality({r \in Undecided' : t[r] <= s}) <= tailIndex'
    <3> DEFINE n == Cardinality({r \in Undecided : t[r] <= s})
    <3>1. Owned + n <= tailIndex /\ n \in Int /\ Owned \in Int
      BY <1>1, <1>3, <2>1 DEF ClaimOrder
    <3> HIDE DEF n
    <3>2. Owned' + n <= tailIndex'
      BY <1>3, <3>1 DEF Indexed
    <3> QED BY <1>2, <3>2 DEF n
  <2>4. \A r \in Readers : reader'[r].at = "check" /\ s < t[r] =>
          Owned' + Cardinality({q \in Undecided' : t[q] < t[r]}) <= t[r] - o[r]
    BY <1>1, <1>2, <1>3 DEF ClaimOrder, Claiming, Deciding
  <2> QED BY <2>2, <2>3, <2>4 DEF ClaimOrder
<1> QED BY <1>4, <1>5 DEF Claims

LEMMA OwnedFacts ==
    ASSUME Indexed
    PROVE  /\ Owned \in Nat /\ headIndex <= Owned
           /\ Cardinality(Undecided) \in Nat /\ IsFiniteSet(Undecided)
           /\ Undecided \in SUBSET Readers
           /\ \A t \in [Readers -> Nat], s \in Int :
                /\ Cardinality({r \in Undecided : t[r] <= s}) \in Nat
                /\ Cardinality({r \in Undecided : t[r] < s}) \in Nat
<1>1. At({"take"}) \in SUBSET Readers /\ Undecided \in SUBSET Readers
  BY DEF At, Undecided
<1>2. /\ Cardinality(At({"take"})) \in Nat /\ Cardinality(Undecided) \in Nat
      /\ IsFiniteSet(Undecided)
  BY <1>1, Counted
<1>3. \A t \in [Readers -> Nat], s \in Int :
        /\ {r \in Undecided : t[r] <= s} \in SUBSET Readers
        /\ {r \in Undecided : t[r] < s} \in SUBSET Readers
  BY <1>1
<1>4. \A t \in [Readers -> Nat], s \in Int :
        /\ Cardinality({r \in Undecided : t[r] <= s}) \in Nat
        /\ Cardinality({r \in Undecided : t[r] < s}) \in Nat
  BY <1>3, Counted
<1>5. Owned \in Nat /\ headIndex <= Owned
  BY <1>2 DEF Owned, Indexed
<1> QED BY <1>1, <1>2, <1>4, <1>5

\* Loading the number of given back claims.
LEMMA ClaimsLoaded ==
    ASSUME Claims, Indexed, NEW r \in Readers, LoadOvercommit(r)
    PROVE  Claims'
<1>1. PICK C \in Nat, O \in Nat, t \in [Readers -> Nat], o \in [Readers -> Nat], s \in Int :
         ClaimCounts(C, O, t, o) /\ ClaimOrder(C, O, t, o, s)
  BY DEF Claims
<1>2. /\ reader[r].at = "overcommit" /\ reader'[r].at = "look"
      /\ reader'[r].overcommit = dequeueOvercommit
      /\ \A q \in Readers \ {r} : reader'[q] = reader[q]
      /\ UNCHANGED <<tailIndex, headIndex, dequeueOptimisticCount, dequeueOvercommit>>
  BY DEF LoadOvercommit, ReaderAt, Indexed, Locals, queueVars
<1> DEFINE p == [o EXCEPT ![r] = O]
<1>3. p \in [Readers -> Nat] /\ p[r] = O /\ \A q \in Readers \ {r} : p[q] = o[q]
  OBVIOUS
<1> HIDE DEF p
<1>4. At({"take"})' = At({"take"}) /\ Undecided' = Undecided
  BY <1>2 DEF At, Undecided
<1>5. Owned' = Owned
  BY <1>2, <1>4 DEF Owned
<1>6. ClaimCounts(C, O, t, p)'
  <2>1. O - O + Cardinality(Readers) <= HalfRange /\ O <= O
    BY Sizes
  <2>2. \A q \in Readers : reader'[q].at \in Deciding =>
          /\ p[q] <= O
          /\ O - p[q] + Cardinality(Readers) <= HalfRange
          /\ reader'[q].overcommit = Wrap(p[q])
    BY <1>1, <1>2, <1>3, <2>1 DEF ClaimCounts
  <2>3. \A q \in Readers : reader'[q].at = "check" => reader'[q].count = Wrap(t[q])
    BY <1>1, <1>2 DEF ClaimCounts
  <2> QED BY <1>1, <1>2, <2>2, <2>3 DEF ClaimCounts
<1>7. ClaimOrder(C, O, t, p, s)'
  <2>1. \A q \in Readers : reader'[q].at = "check" => q # r /\ reader[q].at = "check"
    BY <1>2
  <2>2. \A q \in Readers : reader'[q].at = "check" /\ s < t[q] =>
          Owned' + Cardinality({u \in Undecided' : t[u] < t[q]}) <= t[q] - p[q]
    BY <1>1, <1>3, <1>4, <1>5, <2>1 DEF ClaimOrder
  <2> QED BY <1>1, <1>2, <1>4, <1>5, <2>2 DEF ClaimOrder
<1> QED BY <1>3, <1>6, <1>7 DEF Claims

LEMMA ClaimsLooked ==
    ASSUME Claims, Indexed, NEW r \in Readers, LookForElement(r)
    PROVE  Claims'
<1>1. PICK C \in Nat, O \in Nat, t \in [Readers -> Nat], o \in [Readers -> Nat], s \in Int :
         ClaimCounts(C, O, t, o) /\ ClaimOrder(C, O, t, o, s)
  BY DEF Claims
<1>2. /\ reader[r].at = "look" /\ reader'[r].at \in {"claim", "poll"}
      /\ reader'[r].at = "claim" => reader'[r].overcommit = reader[r].overcommit
      /\ \A q \in Readers \ {r} : reader'[q] = reader[q]
      /\ UNCHANGED <<tailIndex, headIndex, dequeueOptimisticCount, dequeueOvercommit>>
  BY DEF LookForElement, ReaderAt, ReaderTo, PollAgain, Polling, Indexed, Locals, queueVars
<1>3. At({"take"})' = At({"take"}) /\ Undecided' = Undecided
  BY <1>2 DEF At, Undecided
<1>4. Owned' = Owned
  BY <1>2, <1>3 DEF Owned
<1>5. ClaimCounts(C, O, t, o)'
  <2>1. \A q \in Readers : reader'[q].at \in Deciding =>
           reader[q].at \in Deciding /\ reader'[q].overcommit = reader[q].overcommit
    BY <1>2 DEF Deciding
  <2>2. \A q \in Readers : reader'[q].at = "check" => reader'[q] = reader[q]
    BY <1>2
  <2> QED BY <1>1, <1>2, <2>1, <2>2 DEF ClaimCounts
<1>6. ClaimOrder(C, O, t, o, s)'
  <2>1. \A q \in Readers : reader'[q].at = "check" => reader[q].at = "check"
    BY <1>2
  <2> QED BY <1>1, <1>2, <1>3, <1>4, <2>1 DEF ClaimOrder
<1> QED BY <1>5, <1>6 DEF Claims

\* A new claim is the latest of all.
LEMMA ClaimsMade ==
    ASSUME Claims, Indexed, NEW r \in Readers, Claim(r)
    PROVE  Claims'
<1>1. PICK C \in Nat, O \in Nat, t \in [Readers -> Nat], o \in [Readers -> Nat], s \in Int :
         ClaimCounts(C, O, t, o) /\ ClaimOrder(C, O, t, o, s)
  BY DEF Claims
<1>2. /\ reader[r].at = "claim" /\ reader'[r].at = "check"
      /\ reader'[r].overcommit = reader[r].overcommit
      /\ reader'[r].count = dequeueOptimisticCount
      /\ \A q \in Readers \ {r} : reader'[q] = reader[q]
      /\ dequeueOptimisticCount' = Wrap(dequeueOptimisticCount + 1)
      /\ UNCHANGED <<tailIndex, headIndex, dequeueOvercommit>>
  BY DEF Claim, ReaderAt, Indexed, Locals
<1> DEFINE u == [t EXCEPT ![r] = C]
<1>3. u \in [Readers -> Nat] /\ u[r] = C /\ \A q \in Readers \ {r} : u[q] = t[q]
  OBVIOUS
<1> HIDE DEF u
<1>4. At({"take"})' = At({"take"}) /\ Undecided' = Undecided \cup {r} /\ r \notin Undecided
      /\ Undecided \subseteq Readers
  BY <1>2 DEF At, Undecided
<1>5. Owned' = Owned
  BY <1>2, <1>4 DEF Owned
<1>6. \A q \in Undecided : q # r /\ t[q] \in Nat /\ t[q] < C /\ u[q] = t[q]
  BY <1>1, <1>3, <1>4 DEF ClaimOrder
<1>7. C + 1 \in Nat /\ s < C /\ C = Owned + O + Cardinality(Undecided)
  BY <1>1 DEF ClaimOrder
<1>8. Owned \in Nat /\ Cardinality(Undecided) \in Nat /\ Cardinality(Undecided') = Cardinality(Undecided) + 1
  BY <1>4, OwnedFacts, Counted
<1>9. reader[r].at \in Deciding /\ o[r] <= O
  BY <1>1, <1>2 DEF ClaimCounts, Deciding
<1>10. ClaimCounts(C + 1, O, u, o)'
  <2>1. Wrap(dequeueOptimisticCount + 1) = Wrap(C + 1)
    BY <1>1, WrapFacts DEF ClaimCounts
  <2>2. \A q \in Readers : reader'[q].at \in Deciding =>
          /\ reader[q].at \in Deciding /\ reader'[q].overcommit = reader[q].overcommit
    BY <1>2, <1>9
  <2>3. \A q \in Readers : reader'[q].at = "check" => reader'[q].count = Wrap(u[q])
    BY <1>1, <1>2, <1>3 DEF ClaimCounts
  <2> QED BY <1>1, <1>2, <2>1, <2>2, <2>3 DEF ClaimCounts
<1>11. ClaimOrder(C + 1, O, u, o, s)'
  <2>1. C + 1 = Owned' + O + Cardinality(Undecided')
    BY <1>5, <1>7, <1>8
  <2>2. \A q \in Undecided' : u[q] < C + 1
    BY <1>3, <1>4, <1>6
  <2>3. \A p, q \in Undecided' : u[p] = u[q] => p = q
    <3>1. \A p, q \in Undecided : t[p] = t[q] => p = q
      BY <1>1 DEF ClaimOrder
    <3> QED BY <1>3, <1>4, <1>6, <3>1
  <2>4. {q \in Undecided' : u[q] <= s} = {q \in Undecided : t[q] <= s}
    BY <1>3, <1>4, <1>6, <1>7
  <2>5. ASSUME NEW q \in Readers, reader'[q].at = "check", s < u[q]
        PROVE  Owned' + Cardinality({p \in Undecided' : u[p] < u[q]}) <= u[q] - o[q]
    <3>1. CASE q = r
      <4>1. {p \in Undecided' : u[p] < u[q]} = Undecided
        BY <1>3, <1>4, <1>6, <3>1
      <4>2. Owned + Cardinality(Undecided) <= C - o[r] /\ o[r] \in Nat
        BY <1>7, <1>8, <1>9
      <4> QED BY <1>3, <1>5, <3>1, <4>1, <4>2
    <3>2. CASE q # r
      <4>1. reader[q].at = "check" /\ q \in Undecided /\ u[q] = t[q] /\ t[q] < C
        BY <1>2, <1>6, <2>5, <3>2 DEF Undecided, At
      <4>2. {p \in Undecided' : u[p] < u[q]} = {p \in Undecided : t[p] < t[q]}
        BY <1>3, <1>4, <1>6, <4>1
      <4>3. Owned + Cardinality({p \in Undecided : t[p] < t[q]}) <= t[q] - o[q]
        BY <1>1, <2>5, <4>1 DEF ClaimOrder
      <4> QED BY <1>5, <4>1, <4>2, <4>3
    <3> QED BY <3>1, <3>2
  <2>6. s < C + 1
    BY <1>7
  <2>7. Owned' + Cardinality({q \in Undecided' : u[q] <= s}) <= tailIndex'
    BY <1>1, <1>2, <1>5, <2>4 DEF ClaimOrder
  <2> QED BY <2>1, <2>2, <2>3, <2>5, <2>6, <2>7 DEF ClaimOrder
<1> QED BY <1>3, <1>7, <1>10, <1>11 DEF Claims

\* A claim that passes the check is one of those that elements are there for: by
\* then at most Owned of them and of the earlier claims are needed.
LEMMA ClaimsChecked ==
    ASSUME Claims, Indexed, NEW r \in Readers, CheckClaim(r)
    PROVE  Claims' /\ (reader'[r].at = "take" => Owned < tailIndex)
<1>1. PICK C \in Nat, O \in Nat, t \in [Readers -> Nat], o \in [Readers -> Nat], s \in Int :
         ClaimCounts(C, O, t, o) /\ ClaimOrder(C, O, t, o, s)
  BY DEF Claims
<1>2. /\ reader[r].at = "check"
      /\ reader'[r].at = IF Before(reader[r].count - reader[r].overcommit, tailIndex)
                         THEN "take" ELSE "giveback"
      /\ \A q \in Readers \ {r} : reader'[q] = reader[q]
      /\ UNCHANGED <<tailIndex, headIndex, dequeueOptimisticCount, dequeueOvercommit>>
  BY DEF CheckClaim, ReaderAt, ReaderTo, Indexed, Locals, queueVars
<1>3. /\ o[r] <= O /\ O - o[r] + Cardinality(Readers) <= HalfRange
      /\ reader[r].overcommit = Wrap(o[r]) /\ reader[r].count = Wrap(t[r])
  BY <1>1, <1>2 DEF ClaimCounts, Deciding
<1>4. /\ r \in Undecided /\ t[r] < C /\ s < C
      /\ C = Owned + O + Cardinality(Undecided)
      /\ \A p, q \in Undecided : t[p] = t[q] => p = q
      /\ \A q \in Undecided : t[q] < C
  BY <1>1, <1>2 DEF ClaimOrder, Undecided, At
<1>5. /\ Owned \in Nat /\ Cardinality(Undecided) \in Nat /\ Undecided \in SUBSET Readers
      /\ Cardinality(Undecided) <= Cardinality(Readers)
      /\ \A v \in Int : /\ Cardinality({q \in Undecided : t[q] <= v}) \in Nat
                        /\ Cardinality({q \in Undecided : t[q] < v}) \in Nat
  BY OwnedFacts, Counted
<1>6. \A q \in Readers : reader'[q].at \in Deciding =>
         q # r /\ reader[q].at \in Deciding /\ reader'[q] = reader[q]
  BY <1>2 DEF Deciding
<1>7. ClaimCounts(C, O, t, o)'
  BY <1>1, <1>2, <1>6 DEF ClaimCounts, Deciding
<1>8. CASE reader'[r].at = "giveback"
  <2>1. At({"take"})' = At({"take"}) /\ Undecided' = Undecided
    BY <1>2, <1>8 DEF At, Undecided
  <2>2. Owned' = Owned
    BY <1>2, <2>1 DEF Owned
  <2>3. ClaimOrder(C, O, t, o, s)'
    BY <1>1, <1>2, <1>8, <2>1, <2>2 DEF ClaimOrder
  <2> QED BY <1>7, <1>8, <2>3 DEF Claims
<1>9. CASE reader'[r].at = "take"
  <2>1. t[r] - o[r] < tailIndex
    <3> DEFINE x == t[r] - o[r] - tailIndex
    <3>1. x \in Int
      BY DEF Indexed
    <3>2. Wrap(reader[r].count - reader[r].overcommit - tailIndex) > HalfRange
      BY <1>2, <1>9 DEF Before
    <3>3. Wrap(reader[r].count - reader[r].overcommit - tailIndex) = Wrap(x)
      <4> DEFINE a == t[r]  b == o[r]  c == Wrap(a) - Wrap(b)  k == 0 - tailIndex
      <4>1. a \in Int /\ b \in Int /\ k \in Int
        BY DEF Indexed
      <4> HIDE DEF a, b, k
      <4>2. Wrap(a) \in Nat /\ Wrap(b) \in Nat /\ Wrap(Wrap(a) - Wrap(b)) = Wrap(a - b)
        BY <4>1, WrapFacts
      <4>6. c \in Int /\ a - b \in Int /\ Wrap(c) = Wrap(a - b)
        BY <4>1, <4>2
      <4> HIDE DEF c
      <4>7. Wrap(Wrap(c) + k) = Wrap(c + k)
        BY <4>1, <4>6, WrapFacts
      <4>3. Wrap(Wrap(c) + k) = Wrap(c + k) /\ Wrap(Wrap(a - b) + k) = Wrap((a - b) + k)
        BY <4>1, <4>6, <4>7, WrapFacts
      <4>4. Wrap(c + k) = Wrap((a - b) + k)
        BY <4>3, <4>6
      <4>5. c + k = c - tailIndex /\ (a - b) + k = (a - b) - tailIndex
        BY <4>1, <4>6 DEF k, Indexed
      <4> QED BY <1>3, <4>4, <4>5 DEF a, b, c
    <3>4. Owned <= tailIndex
      <4> DEFINE n == Cardinality({q \in Undecided : t[q] <= s})
      <4>1. Owned + n <= tailIndex /\ n \in Nat
        BY <1>1, <1>5 DEF ClaimOrder
      <4> HIDE DEF n
      <4> QED BY <1>5, <4>1 DEF Indexed
    <3>5. x < HalfRange
      BY <1>3, <1>4, <1>5, <3>4, Sizes DEF Indexed
    <3>6. 0 <= x => Wrap(x) = x
      BY <3>1, <3>5, Sizes, WrapFacts
    <3> HIDE DEF x
    <3>7. ~(0 <= x)
      BY <3>1, <3>2, <3>3, <3>5, <3>6, Sizes
    <3> QED BY <3>1, <3>7 DEF x, Indexed
  <2>2. At({"take"})' = At({"take"}) \cup {r} /\ r \notin At({"take"}) /\ Undecided' = Undecided \ {r}
    BY <1>2, <1>9 DEF At, Undecided
  <2>3. Owned' = Owned + 1
    <3>1. At({"take"}) \in SUBSET Readers
      BY DEF At
    <3>2. Cardinality(At({"take"}) \cup {r}) = Cardinality(At({"take"})) + 1 /\ Cardinality(At({"take"})) \in Nat
      BY <2>2, <3>1, Counted
    <3> QED BY <1>2, <2>2, <3>2 DEF Owned, Indexed
  <2>4. Cardinality(Undecided') = Cardinality(Undecided) - 1
    BY <1>4, <1>5, <2>2, Counted
  \* One claim fewer among the undecided up to one later than r's.
  <2>5. ASSUME NEW v \in Int, t[r] < v
        PROVE  Cardinality({q \in Undecided' : t[q] < v}) = Cardinality({q \in Undecided : t[q] < v}) - 1
    <3>1. {q \in Undecided' : t[q] < v} = {q \in Undecided : t[q] < v} \ {r}
      BY <2>2
    <3>2. r \in {q \in Undecided : t[q] < v} /\ {q \in Undecided : t[q] < v} \in SUBSET Readers
      BY <1>4, <1>5, <2>5
    <3> QED BY <3>1, <3>2, Counted
  <2>6. \A q \in Readers : reader'[q].at = "check" => q # r /\ reader[q].at = "check" /\ q \in Undecided
    BY <1>2, <1>9 DEF Undecided, At
  <2>7. C = Owned' + O + Cardinality(Undecided')
    BY <1>4, <1>5, <2>3, <2>4
  <2>8. /\ \A q \in Undecided' : t[q] < C
        /\ \A p, q \in Undecided' : t[p] = t[q] => p = q
    BY <1>4, <2>2
  <2>9. CASE s < t[r]
    <3>1. Owned + Cardinality({q \in Undecided : t[q] < t[r]}) <= t[r] - o[r]
      BY <1>1, <1>2, <2>9 DEF ClaimOrder
    <3>2. {q \in Undecided' : t[q] <= t[r]} = {q \in Undecided : t[q] < t[r]}
      <4>1. ASSUME NEW q \in Undecided PROVE q # r /\ t[q] <= t[r] <=> t[q] < t[r]
        <5>1. t[q] = t[r] => q = r
          BY <1>4
        <5>2. t[q] \in Int /\ t[r] \in Int
          BY <1>5
        <5> QED BY <5>1, <5>2
      <4>2. \A q : q \in Undecided' <=> q \in Undecided /\ q # r
        BY <2>2
      <4> QED BY <4>1, <4>2
    <3>3. Owned' + Cardinality({q \in Undecided' : t[q] <= t[r]}) <= tailIndex' /\ Owned < tailIndex
      <4> DEFINE n == Cardinality({q \in Undecided : t[q] < t[r]})
      <4>4. t[r] \in Int /\ o[r] \in Int
        OBVIOUS
      <4>1. n \in Nat
        BY <1>5, <4>4
      <4>2. Owned + n <= t[r] - o[r] /\ Cardinality({q \in Undecided' : t[q] <= t[r]}) = n
        BY <3>1, <3>2
      <4> HIDE DEF n
      <4>3. Owned + n < tailIndex
        BY <1>5, <2>1, <4>1, <4>2, <4>4 DEF Indexed
      <4> QED BY <1>2, <1>5, <2>3, <4>1, <4>2, <4>3 DEF Indexed
    <3>4. ASSUME NEW q \in Readers, reader'[q].at = "check", t[r] < t[q]
          PROVE  Owned' + Cardinality({p \in Undecided' : t[p] < t[q]}) <= t[q] - o[q]
      <4>1. s < t[q] /\ t[q] \in Int
        BY <2>9, <3>4
      <4>2. Owned + Cardinality({p \in Undecided : t[p] < t[q]}) <= t[q] - o[q]
        BY <1>1, <2>6, <3>4, <4>1 DEF ClaimOrder
      <4>3. /\ Cardinality({p \in Undecided' : t[p] < t[q]}) = Cardinality({p \in Undecided : t[p] < t[q]}) - 1
            /\ Cardinality({p \in Undecided : t[p] < t[q]}) \in Nat
        BY <1>5, <2>5, <3>4, <4>1
      <4> QED BY <1>5, <2>3, <4>2, <4>3
    <3>5. ClaimOrder(C, O, t, o, t[r])'
      BY <1>4, <2>7, <2>8, <3>3, <3>4 DEF ClaimOrder
    <3>6. t[r] \in Int
      OBVIOUS
    <3> QED BY <1>7, <3>3, <3>5, <3>6 DEF Claims
  <2>10. CASE t[r] <= s
    <3> DEFINE n == Cardinality({q \in Undecided : t[q] <= s})
    <3>1. Owned + n <= tailIndex /\ n \in Nat
      BY <1>1, <1>5 DEF ClaimOrder
    <3>2. Cardinality({q \in Undecided' : t[q] <= s}) = n - 1 /\ n > 0
      <4>1. {q \in Undecided' : t[q] <= s} = {q \in Undecided : t[q] <= s} \ {r}
        BY <2>2
      <4>2. r \in {q \in Undecided : t[q] <= s} /\ {q \in Undecided : t[q] <= s} \in SUBSET Readers
        BY <1>4, <1>5, <2>10
      <4> QED BY <4>1, <4>2, Counted
    <3> HIDE DEF n
    <3>3. Owned' + Cardinality({q \in Undecided' : t[q] <= s}) <= tailIndex' /\ Owned < tailIndex
      BY <1>2, <1>5, <2>3, <3>1, <3>2 DEF Indexed
    <3>4. ASSUME NEW q \in Readers, reader'[q].at = "check", s < t[q]
          PROVE  Owned' + Cardinality({p \in Undecided' : t[p] < t[q]}) <= t[q] - o[q]
      <4>1. t[r] < t[q] /\ t[q] \in Int
        BY <2>10, <3>4
      <4>2. Owned + Cardinality({p \in Undecided : t[p] < t[q]}) <= t[q] - o[q]
        BY <1>1, <2>6, <3>4, <4>1 DEF ClaimOrder
      <4>3. /\ Cardinality({p \in Undecided' : t[p] < t[q]}) = Cardinality({p \in Undecided : t[p] < t[q]}) - 1
            /\ Cardinality({p \in Undecided : t[p] < t[q]}) \in Nat
        BY <1>5, <2>5, <4>1
      <4> QED BY <1>5, <2>3, <4>2, <4>3
    <3>5. ClaimOrder(C, O, t, o, s)'
      BY <1>4, <2>7, <2>8, <3>3, <3>4 DEF ClaimOrder
    <3> QED BY <1>7, <3>3, <3>5 DEF Claims
  <2> QED BY <2>9, <2>10
<1> QED BY <1>2, <1>8, <1>9

\* A claim given back is counted, and no reader is so late that it cannot tell.
LEMMA ClaimsGivenBack ==
    ASSUME Claims, Indexed, NoReaderLags', NEW r \in Readers, GiveBack(r)
    PROVE  Claims'
<1>1. PICK C \in Nat, O \in Nat, t \in [Readers -> Nat], o \in [Readers -> Nat], s \in Int :
         ClaimCounts(C, O, t, o) /\ ClaimOrder(C, O, t, o, s)
  BY DEF Claims
<1>2. /\ reader[r].at = "giveback" /\ reader'[r].at = "poll"
      /\ \A q \in Readers \ {r} : reader'[q] = reader[q]
      /\ dequeueOvercommit' = Wrap(dequeueOvercommit + 1)
      /\ UNCHANGED <<tailIndex, headIndex, dequeueOptimisticCount>>
  BY DEF GiveBack, ReaderAt, PollAgain, Polling, Indexed, Locals
<1>3. At({"take"})' = At({"take"}) /\ Undecided' = Undecided \ {r} /\ r \in Undecided
  BY <1>2 DEF At, Undecided
<1>4. Owned' = Owned
  BY <1>2, <1>3 DEF Owned
<1>5. /\ Owned \in Nat /\ Cardinality(Undecided) \in Nat /\ Undecided \in SUBSET Readers
      /\ \A v \in Int : Cardinality({q \in Undecided : t[q] <= v}) \in Nat
  BY OwnedFacts
<1>6. Cardinality(Undecided') = Cardinality(Undecided) - 1 /\ Cardinality(Readers) > 0
  BY <1>3, <1>5, Counted
<1>7. /\ C = Owned + O + Cardinality(Undecided) /\ s < C
      /\ \A q \in Undecided : t[q] < C
      /\ \A p, q \in Undecided : t[p] = t[q] => p = q
      /\ Owned + Cardinality({q \in Undecided : t[q] <= s}) <= tailIndex
      /\ \A q \in Readers : reader[q].at = "check" /\ s < t[q] =>
            Owned + Cardinality({p \in Undecided : t[p] < t[q]}) <= t[q] - o[q]
  BY <1>1 DEF ClaimOrder
<1>8. \A q \in Readers : reader'[q].at \in Deciding =>
         q # r /\ reader[q].at \in Deciding /\ reader'[q] = reader[q]
  BY <1>2 DEF Deciding
<1>9. ClaimCounts(C, O + 1, t, o)'
  <2>1. dequeueOvercommit' = Wrap(O + 1)
    BY <1>1, <1>2, WrapFacts DEF ClaimCounts
  <2>2. ASSUME NEW q \in Readers, reader'[q].at \in Deciding
        PROVE  /\ o[q] <= O + 1 /\ O + 1 - o[q] + Cardinality(Readers) <= HalfRange
               /\ reader'[q].overcommit = Wrap(o[q])
    <3>1. /\ o[q] <= O /\ O - o[q] + Cardinality(Readers) <= HalfRange
          /\ reader'[q].overcommit = Wrap(o[q])
      BY <1>1, <1>8, <2>2 DEF ClaimCounts
    <3>2. Wrap(dequeueOvercommit' - reader'[q].overcommit) + Cardinality(Readers) <= HalfRange
      BY <2>2 DEF NoReaderLags, Deciding
    <3> DEFINE x == O + 1 - o[q]
    <3>3. x \in Nat /\ x < 2 * HalfRange
      <4>1. x \in Nat /\ x + Cardinality(Readers) <= HalfRange + 1
        BY <3>1, Sizes
      <4> HIDE DEF x
      <4> QED BY <1>6, <4>1, Sizes
    <3>4. Wrap(dequeueOvercommit' - reader'[q].overcommit) = Wrap(x)
      <4>1. O + 1 \in Int /\ o[q] \in Int
        OBVIOUS
      <4>2. Wrap(Wrap(O + 1) - Wrap(o[q])) = Wrap((O + 1) - o[q])
        BY <4>1, WrapFacts
      <4> QED BY <2>1, <3>1, <4>2
    <3>5. Wrap(x) = x
      BY <3>3, WrapFacts
    <3> HIDE DEF x
    <3>6. x + Cardinality(Readers) <= HalfRange
      BY <3>2, <3>4, <3>5
    <3> QED BY <3>1, <3>6 DEF x
  <2>3. \A q \in Readers : reader'[q].at = "check" => reader'[q].count = Wrap(t[q])
    BY <1>1, <1>8 DEF ClaimCounts, Deciding
  <2> QED BY <1>1, <1>2, <2>1, <2>2, <2>3 DEF ClaimCounts
<1>10. ClaimOrder(C, O + 1, t, o, s)'
  <2>1. C = Owned' + (O + 1) + Cardinality(Undecided')
    BY <1>4, <1>5, <1>6, <1>7
  <2>2. ASSUME NEW v \in Int
        PROVE  /\ Cardinality({q \in Undecided' : t[q] <= v}) <= Cardinality({q \in Undecided : t[q] <= v})
               /\ Cardinality({q \in Undecided' : t[q] < v}) <= Cardinality({q \in Undecided : t[q] < v})
               /\ Cardinality({q \in Undecided' : t[q] <= v}) \in Nat
               /\ Cardinality({q \in Undecided : t[q] <= v}) \in Nat
               /\ Cardinality({q \in Undecided' : t[q] < v}) \in Nat
               /\ Cardinality({q \in Undecided : t[q] < v}) \in Nat
    <3>1. /\ {q \in Undecided' : t[q] <= v} \in SUBSET {q \in Undecided : t[q] <= v}
          /\ {q \in Undecided' : t[q] < v} \in SUBSET {q \in Undecided : t[q] < v}
          /\ {q \in Undecided : t[q] <= v} \in SUBSET Readers
          /\ {q \in Undecided : t[q] < v} \in SUBSET Readers
      BY <1>3, <1>5
    <3>2. /\ {q \in Undecided' : t[q] <= v} \in SUBSET Readers
          /\ {q \in Undecided' : t[q] < v} \in SUBSET Readers
      BY <3>1
    <3> QED BY <3>1, <3>2, Counted
  <2>3. Owned' + Cardinality({q \in Undecided' : t[q] <= s}) <= tailIndex'
    <3> DEFINE n == Cardinality({q \in Undecided : t[q] <= s})
               m == Cardinality({q \in Undecided' : t[q] <= s})
    <3>1. n \in Nat /\ m \in Nat /\ m <= n /\ Owned + n <= tailIndex
      BY <1>7, <2>2
    <3> HIDE DEF n, m
    <3>2. Owned + m <= tailIndex
      BY <1>5, <3>1 DEF Indexed
    <3> QED BY <1>2, <1>4, <3>2 DEF m
  <2>4. ASSUME NEW q \in Readers, reader'[q].at = "check", s < t[q]
        PROVE  Owned' + Cardinality({p \in Undecided' : t[p] < t[q]}) <= t[q] - o[q]
    <3>1. reader[q].at = "check" /\ t[q] \in Int
      BY <1>2, <2>4
    <3> DEFINE n == Cardinality({p \in Undecided : t[p] < t[q]})
               m == Cardinality({p \in Undecided' : t[p] < t[q]})
    <3>2. n \in Nat /\ m \in Nat /\ m <= n /\ Owned + n <= t[q] - o[q]
      BY <1>7, <2>2, <2>4, <3>1
    <3> HIDE DEF n, m
    <3>3. Owned + m <= t[q] - o[q]
      BY <1>5, <3>2
    <3> QED BY <1>4, <3>3 DEF m
  <2>5. /\ \A q \in Undecided' : t[q] < C
        /\ \A p, q \in Undecided' : t[p] = t[q] => p = q
    BY <1>3, <1>7
  <2>6. s < C
    BY <1>7
  <2> QED BY <2>1, <2>3, <2>4, <2>5, <2>6 DEF ClaimOrder
<1>11. O + 1 \in Nat
  OBVIOUS
<1> QED BY <1>9, <1>10, <1>11 DEF Claims

\* The element taken was owned before.
LEMMA ClaimsTaken ==
    ASSUME Claims, Indexed, NEW r \in Readers, TakeIndex(r)
    PROVE  Claims' /\ headIndex < tailIndex /\ headIndex' = headIndex + 1
<1>1. PICK C \in Nat, O \in Nat, t \in [Readers -> Nat], o \in [Readers -> Nat], s \in Int :
         ClaimCounts(C, O, t, o) /\ ClaimOrder(C, O, t, o, s)
  BY DEF Claims
<1>2. /\ reader[r].at = "take" /\ reader'[r].at = "header"
      /\ \A q \in Readers \ {r} : reader'[q] = reader[q]
      /\ headIndex' = Wrap(headIndex + 1)
      /\ UNCHANGED <<tailIndex, dequeueOptimisticCount, dequeueOvercommit>>
  BY DEF TakeIndex, ReaderAt, Polling, Indexed, Locals
<1>3. At({"take"})' = At({"take"}) \ {r} /\ r \in At({"take"}) /\ Undecided' = Undecided
      /\ At({"take"}) \in SUBSET Readers
  BY <1>2 DEF At, Undecided
<1>4. /\ Cardinality(At({"take"})') = Cardinality(At({"take"})) - 1
      /\ Cardinality(At({"take"})) > 0 /\ Cardinality(At({"take"})) \in Nat
  BY <1>3, Counted
<1>5. Owned \in Nat /\ Cardinality({q \in Undecided : t[q] <= s}) \in Nat
  BY OwnedFacts
<1>6. Owned + Cardinality({q \in Undecided : t[q] <= s}) <= tailIndex
  BY <1>1 DEF ClaimOrder
<1>7. headIndex < Owned
  BY <1>4 DEF Owned, Indexed
<1>8. headIndex < tailIndex
  BY <1>5, <1>6, <1>7 DEF Indexed
<1>9. headIndex' = headIndex + 1
  <2>1. headIndex + 1 \in Nat /\ headIndex + 1 < 2 * HalfRange
    BY <1>8, Sizes DEF Indexed
  <2> QED BY <1>2, <2>1, WrapFacts
<1>10. Owned' = Owned
  BY <1>4, <1>9 DEF Owned, Indexed
<1>11. \A q \in Readers : reader'[q].at \in Deciding =>
         q # r /\ reader[q].at \in Deciding /\ reader'[q] = reader[q]
  BY <1>2 DEF Deciding
<1>12. ClaimCounts(C, O, t, o)'
  BY <1>1, <1>2, <1>11 DEF ClaimCounts, Deciding
<1>13. ClaimOrder(C, O, t, o, s)'
  <2>1. \A q \in Readers : reader'[q].at = "check" => reader[q].at = "check"
    BY <1>2
  <2> QED BY <1>1, <1>2, <1>3, <1>10, <2>1 DEF ClaimOrder
<1> QED BY <1>8, <1>9, <1>12, <1>13 DEF Claims

\* Claims that passed the check are covered by elements.
LEMMA ClaimsCovered ==
    ASSUME Claims, Indexed
    PROVE  Owned <= tailIndex /\ headIndex <= tailIndex
<1>1. PICK C \in Nat, O \in Nat, t \in [Readers -> Nat], o \in [Readers -> Nat], s \in Int :
         ClaimCounts(C, O, t, o) /\ ClaimOrder(C, O, t, o, s)
  BY DEF Claims
<1> DEFINE n == Cardinality({r \in Undecided : t[r] <= s})
<1>2. Owned + n <= tailIndex /\ n \in Nat /\ Owned \in Nat /\ headIndex <= Owned
  BY <1>1, OwnedFacts DEF ClaimOrder
<1> HIDE DEF n
<1> QED BY <1>2 DEF Indexed

-----------------------------------------------------------------------------
(* The block index: what has to be so for a reader to find its block       *)

\* Elements constructed; blocks with a key in the index; blocks up to its tail.
Enqueued == IF ProducerAt("publish") THEN tailIndex + 1 ELSE tailIndex
Keyed == IF producer.at \in {"tail", "block", "link", "publish"}
         THEN Block(tailIndex) + 1 ELSE Block(tailIndex + BLOCK_SIZE - 1)
Tailed == IF ProducerAt("tail") THEN Keyed - 1 ELSE Keyed

\* In a ring at whose place 0 the block of number d is, or would be.
Ring == headers[blockIndex]
Place(h, d, n) == (n - d) % h.capacity
EntryFor(h, d, n) == h.index[Place(h, d, n)]

HasKey(e, n) == e \in DOMAIN entries /\ entries[e].key = BLOCK_SIZE * n
InIndex(e, n, b) == HasKey(e, n) /\ entries[e].value = b /\ b \in Blocks

RingOK(h) ==
    /\ h.capacity \in Nat \ {0}
    /\ h.tail \in 0..(h.capacity - 1)
    /\ h.index \in [0..(h.capacity - 1) -> DOMAIN entries]

Header == [capacity : Nat, tail : Nat, index : UNION {[S -> Nat] : S \in SUBSET Nat}]

Entry == [key : Nat, value : Blocks \cup {NULL}]

RingTypes ==
    /\ headers \in Seq(Header) /\ headers # <<>>
    /\ \A h \in DOMAIN headers : RingOK(headers[h])
    /\ Ring.capacity = Len(entries)
    /\ \A p, q \in 0..(Ring.capacity - 1) : Ring.index[p] = Ring.index[q] => p = q

KeyTypes ==
    \A e \in DOMAIN entries :
        \/ entries[e].key = INVALID_BLOCK_BASE /\ entries[e].value = NULL
        \/ \E n \in Nat : HasKey(e, n)

\* The producer prepares one block at a time.
Enqueuing ==
    /\ producer.at # "idle" => tailIndex < MaxItems
    /\ producer.at \in {"grow", "key", "tail", "block", "link"} => tailIndex % BLOCK_SIZE = 0
    /\ producer.at \in {"key", "tail", "block", "link"} => producer.entry \in DOMAIN entries
    /\ ProducerAt("grow") => Tailed > 0

\* Where a ring has its tail, there is the key of a block.
TailKeys ==
    \A h \in DOMAIN headers, e \in Nat :
        (Tailed > 0 \/ h # blockIndex) /\ e = headers[h].index[headers[h].tail]
          => \E n \in Nat : HasKey(e, n)

\* With d[h] the number of the block at place 0 of ring h, and B[h] that of the block
\* for which the producer replaced it by a larger one: every key in the index is at
\* the place of its number, an old ring has its entries at the places they have
\* in the one in use, and blocks that were in the index then are found by both.
Rings(d, B) ==
    /\ \A h \in DOMAIN headers : h # blockIndex => B[h] <= Block(tailIndex)
    /\ Ring.tail = Place(Ring, d[blockIndex], Tailed - 1)
    /\ \A e, n \in Nat : HasKey(e, n) =>
          /\ n < Keyed /\ Keyed <= n + Ring.capacity
          /\ EntryFor(Ring, d[blockIndex], n) = e
    /\ \A h \in DOMAIN headers : \A p \in 0..(headers[h].capacity - 1), n \in Nat :
          headers[h].index[p] = EntryFor(Ring, d[blockIndex], n) =>
              Place(headers[h], d[h], n) = p
    /\ \A h \in DOMAIN headers, e, n \in Nat, b \in Blocks :
          InIndex(e, n, b) /\ h # blockIndex /\ n < B[h] =>
              EntryFor(headers[h], d[h], n) = e

EntryReserved(d) ==
    producer.at \in {"key", "tail", "block", "link"} =>
        /\ producer.entry = EntryFor(Ring, d[blockIndex], Block(tailIndex))
        /\ entries[producer.entry].value = NULL
        /\ \A e, n \in Nat : ~ProducerAt("key") /\ e = producer.entry /\ n = Block(tailIndex)
             => HasKey(e, n)

RingsSearched(B) ==
    \A r \in Readers :
      /\ reader[r].at \in {"position", "key"} =>
           /\ reader[r].header \in DOMAIN headers
           /\ reader[r].header # blockIndex => Block(reader[r].index) < B[reader[r].header]
      /\ reader[r].at = "key" =>
           /\ reader[r].position \in 0..(headers[reader[r].header].capacity - 1)
           /\ \A e \in Nat : e = headers[reader[r].header].index[reader[r].position]
                => \E n \in Nat : HasKey(e, n)

Placed ==
    \E d \in [Nat -> Int], B \in [Nat -> Nat] :
        Rings(d, B) /\ EntryReserved(d) /\ RingsSearched(B)

IndexInv == RingTypes /\ KeyTypes /\ Enqueuing /\ TailKeys /\ Placed

-----------------------------------------------------------------------------
(* The elements, and the blocks they are in                                *)

Using == {"header", "position", "key", "value", "move", "empty"}
Undone(i) == headIndex <= i \/ \E r \in Readers : reader[r].at \in Using /\ reader[r].index = i
Unmoved(i) == headIndex <= i \/ \E r \in Readers : reader[r].at \in Holding /\ reader[r].index = i
DoneOf(n) == {i \in ItemsOf(n) : ~Undone(i)}

\* A reader has the index it took to itself.
Indexes ==
    /\ \A r \in Readers : reader[r].at \in Using => reader[r].index < headIndex
    /\ \A r, q \in Readers :
         reader[r].at \in Using /\ reader[q].at \in Using /\ reader[r].index = reader[q].index
           => r = q

\* What a reader found is the entry of its block, and stays so till it unlinks it.
Found(r, e, i) ==
    /\ reader[r].at \in {"value", "move", "empty", "unlink"}
    /\ reader[r].entry = e
    /\ reader[r].index = i

EntryFound ==
    \A r \in Readers, e, i \in Nat : Found(r, e, i) =>
        \E b \in Blocks : /\ InIndex(e, Block(i), b)
                          /\ reader[r].at # "value" => reader[r].block = b

\* A block stays in the index until all of its elements are gone.
BlocksLive ==
    \A i \in Nat : BLOCK_SIZE * Block(i) < Enqueued /\ Undone(i) =>
        \E e \in Nat, b \in Blocks : InIndex(e, Block(i), b)

Contents ==
    \A e, i \in Nat, b \in Blocks :
        InIndex(e, Block(i), b) /\ i < Enqueued /\ Unmoved(i)
          => blocks[b].slots[i % BLOCK_SIZE] = i + 1

Counts ==
    \A e, n \in Nat, b \in Blocks :
        InIndex(e, n, b) => blocks[b].emptied = Cardinality(DoneOf(n))

Prepared ==
    ProducerAt("link") =>
        /\ producer.block \in Blocks
        /\ blocks[producer.block].emptied = 0
        /\ blocks[producer.block].slots[0] = tailIndex + 1

TailBlock ==
    tailIndex % BLOCK_SIZE # 0 \/ ProducerAt("publish") =>
        \A e, n \in Nat, b \in Blocks :
            InIndex(e, n, b) /\ n = Block(tailIndex) => b = tailBlock

\* Exactly one reader unlinks a block that is empty.
Unlinking ==
    /\ \A r \in Readers : reader[r].at = "unlink" => blocks[reader[r].block].emptied = BLOCK_SIZE
    /\ \A r, q \in Readers :
         reader[r].at = "unlink" /\ reader[q].at = "unlink" /\ reader[r].block = reader[q].block
           => r = q
    /\ \A e, n \in Nat, b \in Blocks : InIndex(e, n, b) /\ blocks[b].emptied = BLOCK_SIZE =>
         \E r \in Readers : reader[r].at = "unlink" /\ reader[r].block = b

Elements ==
    /\ Indexes /\ EntryFound /\ BlocksLive /\ Contents /\ Counts /\ Prepared /\ TailBlock
    /\ Unlinking

\* A block in use has one place: in the index, with the producer, or with the reader
\* who frees it.
InUse == ((1..initialBlockPoolIndex) \cup heap) \ freeList

FreeFromPool ==
    /\ freeList \subseteq 1..initialBlockPoolIndex
    /\ heap \subseteq (PoolSize + 1)..(PoolSize + allocations)

InOneEntry ==
    /\ \A e, n \in Nat, b \in Blocks : InIndex(e, n, b) => b \in InUse
    /\ \A e, f, n, m \in Nat, b \in Blocks : InIndex(e, n, b) /\ InIndex(f, m, b) => e = f

WithProducer ==
    ProducerAt("link") =>
        /\ producer.block \in InUse
        /\ \A e, n \in Nat, b \in Blocks : InIndex(e, n, b) => b # producer.block

WithReader ==
    /\ \A r \in Readers : reader[r].at = "free" =>
         /\ reader[r].block \in InUse
         /\ ProducerAt("link") => producer.block # reader[r].block
         /\ \A e, n \in Nat, b \in Blocks : InIndex(e, n, b) => b # reader[r].block
    /\ \A r, q \in Readers :
         reader[r].at = "free" /\ reader[q].at = "free" /\ reader[r].block = reader[q].block
           => r = q

NoneLost ==
    \A b \in InUse :
        \/ \E e, n \in Nat : InIndex(e, n, b)
        \/ ProducerAt("link") /\ producer.block = b
        \/ \E r \in Readers : reader[r].at = "free" /\ reader[r].block = b

Owners == FreeFromPool /\ InOneEntry /\ WithProducer /\ WithReader /\ NoneLost

Inv == TypeOK /\ Claims /\ IndexInv /\ Elements /\ Owners

-----------------------------------------------------------------------------
(* What follows from the invariant, and what leaves it as it is            *)

LEMMA RingFacts ==
    ASSUME TypeOK, RingTypes
    PROVE  /\ blockIndex \in Nat \ {0} /\ DOMAIN headers = 1..blockIndex
           /\ blockIndex \in DOMAIN headers /\ DOMAIN headers \subseteq Nat
           /\ Len(entries) \in Nat /\ DOMAIN entries = 1..Len(entries) /\ DOMAIN entries \subseteq Nat
           /\ Ring.capacity = Len(entries)
           /\ \A e \in DOMAIN entries :
                entries[e].key \in Nat /\ entries[e].value \in Blocks \cup {NULL}
           /\ \A h \in DOMAIN headers :
                /\ headers[h].capacity \in Nat \ {0}
                /\ headers[h].tail \in 0..(headers[h].capacity - 1)
                /\ \A p \in 0..(headers[h].capacity - 1) : headers[h].index[p] \in DOMAIN entries
                /\ \A n, k \in Int :
                     /\ Place(headers[h], k, n) \in 0..(headers[h].capacity - 1)
                     /\ EntryFor(headers[h], k, n) \in DOMAIN entries
<1>1. blockIndex \in Nat \ {0} /\ DOMAIN headers = 1..blockIndex
  BY DEF RingTypes, blockIndex
<1>2. blockIndex \in DOMAIN headers /\ DOMAIN headers \subseteq Nat
  BY <1>1
<1>3. /\ Len(entries) \in Nat /\ DOMAIN entries = 1..Len(entries) /\ DOMAIN entries \subseteq Nat
      /\ \A e \in DOMAIN entries :
           entries[e].key \in Nat /\ entries[e].value \in Blocks \cup {NULL}
  <2>1. entries \in Seq(Entry)
    BY DEF TypeOK, Entry
  <2>2. /\ Len(entries) \in Nat /\ DOMAIN entries = 1..Len(entries)
        /\ \A e \in DOMAIN entries : entries[e] \in Entry
    BY <2>1
  <2> QED BY <2>2 DEF Entry
<1>4. ASSUME NEW h \in DOMAIN headers
      PROVE  /\ headers[h].capacity \in Nat \ {0}
             /\ headers[h].tail \in 0..(headers[h].capacity - 1)
             /\ \A p \in 0..(headers[h].capacity - 1) : headers[h].index[p] \in DOMAIN entries
             /\ \A n, k \in Int :
                  /\ Place(headers[h], k, n) \in 0..(headers[h].capacity - 1)
                  /\ EntryFor(headers[h], k, n) \in DOMAIN entries
  <2>1. /\ headers[h].capacity \in Nat \ {0}
        /\ headers[h].tail \in 0..(headers[h].capacity - 1)
        /\ headers[h].index \in [0..(headers[h].capacity - 1) -> DOMAIN entries]
    BY DEF RingTypes, RingOK
  <2>2. \A p \in 0..(headers[h].capacity - 1) : headers[h].index[p] \in DOMAIN entries
    BY <2>1
  <2>3. \A n, k \in Int : Place(headers[h], k, n) \in 0..(headers[h].capacity - 1)
    <3>1. \A n, k \in Int : n - k \in Int
      OBVIOUS
    <3> QED BY <2>1, <3>1, Remainder DEF Place
  <2>4. \A n, k \in Int : EntryFor(headers[h], k, n) \in DOMAIN entries
    BY <2>2, <2>3 DEF EntryFor
  <2> QED BY <2>1, <2>2, <2>3, <2>4
<1>5. Ring.capacity = Len(entries)
  BY DEF RingTypes
<1> QED BY <1>1, <1>2, <1>3, <1>4, <1>5

\* A block has one entry, and an entry one block.
LEMMA OneEntry ==
    ASSUME TypeOK, RingTypes, Placed
    PROVE  /\ \A e, f, n \in Nat : HasKey(e, n) /\ HasKey(f, n) => e = f
           /\ \A e, n, m \in Nat : HasKey(e, n) /\ HasKey(e, m) => n = m
           /\ \A e, n \in Nat : HasKey(e, n) => n < Keyed
<1>1. PICK d \in [Nat -> Int], B \in [Nat -> Nat] :
         Rings(d, B) /\ EntryReserved(d) /\ RingsSearched(B)
  BY DEF Placed
<1>2. \A e, n \in Nat : HasKey(e, n) => n < Keyed /\ EntryFor(Ring, d[blockIndex], n) = e
  BY <1>1 DEF Rings
<1>3. \A e, n, m \in Nat : HasKey(e, n) /\ HasKey(e, m) => n = m
  BY KeysDiffer DEF HasKey
<1> QED BY <1>2, <1>3

LEMMA RingsKept ==
    ASSUME IndexInv, UNCHANGED <<headers, entries, producer, tailIndex>>,
           NEW d \in [Nat -> Int], NEW B \in [Nat -> Nat], Rings(d, B), EntryReserved(d),
           RingsSearched(B)'
    PROVE  IndexInv'
<1>1. RingTypes' /\ KeyTypes' /\ Enqueuing' /\ TailKeys'
  BY DEF IndexInv, RingTypes, RingOK, KeyTypes, Enqueuing, TailKeys, Ring, blockIndex, HasKey,
         Keyed, Tailed, ProducerAt
<1>2. Rings(d, B)'
  <2>1. Rings(d, B) /\ UNCHANGED <<headers, entries, producer, tailIndex>>
    OBVIOUS
  <2> QED
    BY ONLY <2>1 DEF Rings, Ring, Place, EntryFor, blockIndex, HasKey, InIndex, Keyed, Tailed, ProducerAt
<1>3. EntryReserved(d)'
  BY DEF EntryReserved, Ring, Place, EntryFor, blockIndex, HasKey, ProducerAt
<1> QED BY <1>1, <1>2, <1>3 DEF IndexInv, Placed

LEMMA IndexKept ==
    ASSUME IndexInv, UNCHANGED <<headers, entries, producer, tailIndex>>,
           \A q \in Readers : reader'[q].at \in {"position", "key"} => reader'[q] = reader[q]
    PROVE  IndexInv'
<1>1. PICK d \in [Nat -> Int], B \in [Nat -> Nat] :
         Rings(d, B) /\ EntryReserved(d) /\ RingsSearched(B)
  BY DEF IndexInv, Placed
<1>2. RingsSearched(B)'
  BY <1>1 DEF RingsSearched, blockIndex, HasKey
<1> QED BY <1>1, <1>2, RingsKept

\* Steps between taking an index and finding the entry, and those after it.
Early == {"header", "position", "key"}
Late == {"value", "move", "empty", "unlink", "free"}

ReadersKept ==
    \A q \in Readers :
        /\ reader'[q].at \in Early <=> reader[q].at \in Early
        /\ reader[q].at \in Early => reader'[q].index = reader[q].index
        /\ reader[q].at \in Late \/ reader'[q].at \in Late => reader'[q] = reader[q]

IndexSame ==
    /\ \A e, n \in Nat, b \in Blocks : InIndex(e, n, b)' <=> InIndex(e, n, b)
    /\ producer'.at = "link" <=> producer.at = "link"
    /\ producer.at = "link" => producer'.block = producer.block

LEMMA SameUsers ==
    ASSUME ReadersKept, UNCHANGED headIndex
    PROVE  /\ \A q \in Readers : reader'[q].at \in Using <=> reader[q].at \in Using
           /\ \A q \in Readers : reader[q].at \in Using => reader'[q].index = reader[q].index
           /\ \A i \in Nat : Undone(i)' <=> Undone(i)
           /\ \A i \in Nat : Unmoved(i)' <=> Unmoved(i)
           /\ \A n \in Nat : DoneOf(n)' = DoneOf(n)
<1>1. \A q \in Readers :
        /\ reader'[q].at \in Using <=> reader[q].at \in Using
        /\ reader'[q].at \in Holding <=> reader[q].at \in Holding
        /\ reader[q].at \in Using \/ reader[q].at \in Holding => reader'[q].index = reader[q].index
  BY DEF ReadersKept, Early, Late, Using, Holding
<1>2. \A i \in Nat : Undone(i)' <=> Undone(i)
  BY <1>1 DEF Undone
<1>3. \A i \in Nat : Unmoved(i)' <=> Unmoved(i)
  BY <1>1 DEF Unmoved
<1>4. ASSUME NEW n \in Nat PROVE DoneOf(n)' = DoneOf(n)
  <2>1. ItemsOf(n) \subseteq Nat
    BY DEF ItemsOf
  <2> QED BY <1>2, <2>1 DEF DoneOf
<1> QED BY <1>1, <1>2, <1>3, <1>4

\* The readers changed, but no element got undone or done, moved or unmoved.
LEMMA ElementsSame ==
    ASSUME Elements, IndexSame, Indexes', EntryFound',
           \A i \in Nat : (Undone(i)' <=> Undone(i)) /\ (Unmoved(i)' <=> Unmoved(i)),
           \A q \in Readers :
               reader[q].at = "unlink" \/ reader'[q].at = "unlink" => reader'[q] = reader[q],
           UNCHANGED <<tailIndex, tailBlock, blocks>>,
           producer'.at = "publish" <=> producer.at = "publish"
    PROVE  Elements'
<1>1. \A n \in Nat : DoneOf(n)' = DoneOf(n)
  <2> SUFFICES ASSUME NEW n \in Nat PROVE DoneOf(n)' = DoneOf(n)
    OBVIOUS
  <2>1. ItemsOf(n) \subseteq Nat
    BY DEF ItemsOf
  <2> QED BY <2>1 DEF DoneOf
<1>2. Enqueued' = Enqueued
  BY DEF Enqueued, ProducerAt
<1>4. \A e, n \in Nat, b \in Blocks : InIndex(e, n, b)' <=> InIndex(e, n, b)
  BY DEF IndexSame
<1>7. BlocksLive'
  <2> SUFFICES ASSUME NEW i \in Nat, BLOCK_SIZE * Block(i) < Enqueued', Undone(i)'
               PROVE  \E e \in Nat, b \in Blocks : InIndex(e, Block(i), b)'
    BY DEF BlocksLive
  <2>1. PICK e \in Nat, b \in Blocks : InIndex(e, Block(i), b)
    BY <1>2 DEF Elements, BlocksLive
  <2>2. Block(i) \in Nat
    BY BlockFacts
  <2> QED BY <1>4, <2>1, <2>2
<1>8. Contents'
  <2> SUFFICES ASSUME NEW e \in Nat, NEW i \in Nat, NEW b \in Blocks,
                      InIndex(e, Block(i), b)', i < Enqueued', Unmoved(i)'
               PROVE  blocks'[b].slots[i % BLOCK_SIZE] = i + 1
    BY DEF Contents
  <2>1. Block(i) \in Nat
    BY BlockFacts
  <2> QED BY <1>2, <1>4, <2>1 DEF Elements, Contents
<1>9. Counts'
  BY <1>1, <1>4 DEF Elements, Counts
<1>10. Prepared'
  BY DEF Elements, Prepared, ProducerAt, IndexSame
<1>11. TailBlock'
  BY <1>4 DEF Elements, TailBlock, ProducerAt
<1>12. Unlinking'
  BY <1>4 DEF Elements, Unlinking
<1> QED BY <1>7, <1>8, <1>9, <1>10, <1>11, <1>12 DEF Elements

\* It is enough that one reader found its entry.
LEMMA EntryFoundKept ==
    ASSUME EntryFound, IndexSame, NEW r \in Readers,
           \A q \in Readers \ {r} : reader'[q] = reader[q],
           \A e, i \in Nat : Found(r, e, i)' =>
               \E b \in Blocks : /\ InIndex(e, Block(i), b)
                                 /\ reader'[r].at # "value" => reader'[r].block = b
    PROVE  EntryFound'
<1>1. \A e, n \in Nat, b \in Blocks : InIndex(e, n, b)' <=> InIndex(e, n, b)
  BY DEF IndexSame
<1> SUFFICES ASSUME NEW q \in Readers, NEW e \in Nat, NEW i \in Nat, Found(q, e, i)'
             PROVE  \E b \in Blocks : /\ InIndex(e, Block(i), b)'
                                      /\ reader'[q].at # "value" => reader'[q].block = b
  BY DEF EntryFound
<1>2. \E b \in Blocks : InIndex(e, Block(i), b) /\ (reader'[q].at # "value" => reader'[q].block = b)
  <2>1. CASE q = r
    BY <2>1
  <2>2. CASE q # r
    <3>1. reader'[q] = reader[q] /\ Found(q, e, i)
      BY <2>2 DEF Found
    <3> QED BY <3>1 DEF EntryFound
  <2> QED BY <2>1, <2>2
<1>3. Block(i) \in Nat
  BY BlockFacts
<1> QED BY <1>1, <1>2, <1>3

LEMMA ElementsKept ==
    ASSUME Elements, ReadersKept, IndexSame,
           UNCHANGED <<headIndex, tailIndex, tailBlock, blocks>>,
           producer'.at = "publish" <=> producer.at = "publish"
    PROVE  Elements'
<1>1. /\ \A q \in Readers : reader'[q].at \in Using <=> reader[q].at \in Using
      /\ \A q \in Readers : reader[q].at \in Using => reader'[q].index = reader[q].index
      /\ \A i \in Nat : Undone(i)' <=> Undone(i)
      /\ \A i \in Nat : Unmoved(i)' <=> Unmoved(i)
  BY SameUsers
<1>2. \A q \in Readers :
        reader[q].at \in Late \/ reader'[q].at \in Late => reader'[q] = reader[q]
  BY DEF ReadersKept
<1>3. Indexes'
  BY <1>1 DEF Elements, Indexes
<1>4. EntryFound'
  <2> SUFFICES ASSUME NEW q \in Readers, NEW e \in Nat, NEW i \in Nat, Found(q, e, i)'
               PROVE  \E b \in Blocks : /\ InIndex(e, Block(i), b)'
                                        /\ reader'[q].at # "value" => reader'[q].block = b
    BY DEF EntryFound
  <2>1. reader'[q] = reader[q] /\ Found(q, e, i)
    BY <1>2 DEF Late, Found
  <2>2. PICK b \in Blocks : InIndex(e, Block(i), b) /\ (reader[q].at # "value" => reader[q].block = b)
    BY <2>1 DEF Elements, EntryFound
  <2>3. Block(i) \in Nat
    BY BlockFacts
  <2> QED BY <2>1, <2>2, <2>3 DEF IndexSame
<1> QED BY <1>1, <1>2, <1>3, <1>4, ElementsSame DEF Late

LEMMA OwnersKept ==
    ASSUME Owners, IndexSame,
           \A q \in Readers :
               reader[q].at = "free" \/ reader'[q].at = "free" => reader'[q] = reader[q],
           UNCHANGED <<freeList, heap, initialBlockPoolIndex, allocations>>
    PROVE  Owners'
<1>1. \A q \in Readers : reader[q].at = "free" \/ reader'[q].at = "free" => reader'[q] = reader[q]
  OBVIOUS
<1>2. \A e, n \in Nat, b \in Blocks : InIndex(e, n, b)' <=> InIndex(e, n, b)
  BY DEF IndexSame
<1>3. InUse' = InUse
  BY DEF InUse
<1>4. /\ producer'.at = "link" <=> producer.at = "link"
      /\ producer.at = "link" => producer'.block = producer.block
  BY DEF IndexSame
<1>5. FreeFromPool'
  BY DEF Owners, FreeFromPool
<1>6. InOneEntry'
  <2>1. /\ \A e, n \in Nat, b \in Blocks : InIndex(e, n, b) => b \in InUse
        /\ \A e, f, n, m \in Nat, b \in Blocks : InIndex(e, n, b) /\ InIndex(f, m, b) => e = f
    BY DEF Owners, InOneEntry
  <2>2. \A e, n \in Nat, b \in Blocks : InIndex(e, n, b)' => b \in InUse'
    BY ONLY <1>2, <1>3, <2>1
  <2>3. \A e, f, n, m \in Nat, b \in Blocks : InIndex(e, n, b)' /\ InIndex(f, m, b)' => e = f
    BY ONLY <1>2, <2>1
  <2> QED BY <2>2, <2>3 DEF InOneEntry
<1>7. WithProducer'
  BY <1>2, <1>3, <1>4 DEF Owners, WithProducer, ProducerAt
<1>8. WithReader'
  BY <1>1, <1>2, <1>3, <1>4 DEF Owners, WithReader, ProducerAt
<1>9. NoneLost'
  <2> SUFFICES ASSUME NEW b \in InUse', ~(ProducerAt("link") /\ producer.block = b)',
                      ~(\E r \in Readers : reader'[r].at = "free" /\ reader'[r].block = b)
               PROVE  \E e, n \in Nat : InIndex(e, n, b)'
    BY DEF NoneLost
  <2>1. PICK e \in Nat, n \in Nat : InIndex(e, n, b)
    BY <1>1, <1>3, <1>4 DEF Owners, NoneLost, ProducerAt
  <2>2. b \in Blocks
    BY <2>1 DEF InIndex
  <2> QED BY <1>2, <2>1, <2>2
<1> QED BY <1>5, <1>6, <1>7, <1>8, <1>9 DEF Owners

\* Nothing about the index or the producer changed.
LEMMA SameIndex ==
    ASSUME UNCHANGED <<entries, producer>>
    PROVE  IndexSame
BY DEF IndexSame, InIndex, HasKey

LEMMA IndexedTypes ==
    ASSUME TypeOK
    PROVE  Indexed /\ tailIndex \in Nat /\ headIndex \in Nat
BY Sizes DEF TypeOK, Indexed

LEMMA OneReader ==
    ASSUME Indexed, NEW r \in Readers, DequeueStep(r)
    PROVE  \A q \in Readers \ {r} : reader'[q] = reader[q]
<1>1. reader \in [Readers -> Locals]
  BY DEF Indexed
<1>2. CASE SizeTail(r) \/ SizeHead(r) \/ LoadTail(r) \/ LoadOvercommit(r) \/ LookForElement(r)
  BY <1>1, <1>2 DEF SizeTail, SizeHead, LoadTail, LoadOvercommit, LookForElement, PollAgain, ReaderTo
<1>3. CASE Claim(r) \/ CheckClaim(r) \/ GiveBack(r) \/ TakeIndex(r)
  BY <1>1, <1>3 DEF Claim, CheckClaim, GiveBack, TakeIndex, PollAgain, ReaderTo
<1>4. CASE LoadHeader(r) \/ LoadIndexTail(r) \/ LoadKey(r) \/ LoadBlock(r)
  BY <1>1, <1>4 DEF LoadHeader, LoadIndexTail, LoadKey, LoadBlock
<1>5. CASE MoveElement(r) \/ SetEmpty(r) \/ UnlinkBlock(r) \/ FreeBlock(r)
  BY <1>1, <1>5 DEF MoveElement, SetEmpty, UnlinkBlock, FreeBlock, PollAgain, ReaderTo
<1> QED BY <1>2, <1>3, <1>4, <1>5 DEF DequeueStep

-----------------------------------------------------------------------------
(* The steps of a reader up to the claim that holds                        *)

ClaimStep(r) ==
    \/ SizeTail(r) \/ SizeHead(r)
    \/ LoadTail(r) \/ LoadOvercommit(r) \/ LookForElement(r)
    \/ Claim(r) \/ CheckClaim(r) \/ GiveBack(r)

LEMMA ClaimStepEffect ==
    ASSUME Indexed, NEW r \in Readers, ClaimStep(r)
    PROVE  /\ reader[r].at \notin Early \cup Late
           /\ reader'[r].at \notin Early \cup Late
           /\ UNCHANGED <<tailIndex, headIndex, blockVars, indexVars, tailBlock, producer, delivered>>
<1>1. reader \in [Readers -> Locals]
  BY DEF Indexed
<1>2. CASE SizeTail(r) \/ SizeHead(r)
  BY <1>1, <1>2 DEF SizeTail, SizeHead, PollAgain, Polling, ReaderAt, queueVars, Early, Late, Locals
<1>3. CASE LoadTail(r) \/ LoadOvercommit(r) \/ LookForElement(r)
  BY <1>1, <1>3 DEF LoadTail, LoadOvercommit, LookForElement, PollAgain, Polling, ReaderTo, ReaderAt,
                    queueVars, Early, Late, Locals
<1>4. CASE Claim(r) \/ CheckClaim(r) \/ GiveBack(r)
  BY <1>1, <1>4 DEF Claim, CheckClaim, GiveBack, PollAgain, Polling, ReaderTo, ReaderAt,
                    queueVars, Early, Late, Locals
<1> QED BY <1>2, <1>3, <1>4 DEF ClaimStep

LEMMA ClaimStepRest ==
    ASSUME Inv, NEW r \in Readers, ClaimStep(r)
    PROVE  IndexInv' /\ Elements' /\ Owners'
<1>1. Indexed
  BY IndexedTypes DEF Inv
<1>2. /\ reader[r].at \notin Early \cup Late
      /\ reader'[r].at \notin Early \cup Late
      /\ UNCHANGED <<tailIndex, headIndex, blockVars, indexVars, tailBlock, producer>>
  BY <1>1, ClaimStepEffect
<1>3. \A q \in Readers \ {r} : reader'[q] = reader[q]
  BY <1>1, OneReader DEF ClaimStep, DequeueStep
<1>4. ReadersKept
  BY <1>2, <1>3 DEF ReadersKept
<1>5. IndexSame
  BY <1>2, SameIndex DEF indexVars
<1>6. Elements'
  BY <1>2, <1>4, <1>5, ElementsKept DEF Inv, blockVars
<1>7. Owners'
  BY <1>2, <1>3, <1>5, OwnersKept DEF Inv, blockVars, Late
<1>8. IndexInv'
  BY <1>2, <1>3, IndexKept DEF Inv, indexVars, Early
<1> QED BY <1>6, <1>7, <1>8

LEMMA ClaimStepClaims ==
    ASSUME Inv, NoReaderLags', NEW r \in Readers, ClaimStep(r)
    PROVE  Claims'
<1>1. Indexed /\ Claims
  BY IndexedTypes DEF Inv
<1>2. reader \in [Readers -> Locals]
  BY <1>1 DEF Indexed
<1>3. \A q \in Readers \ {r} : reader'[q] = reader[q]
  BY <1>1, OneReader DEF ClaimStep, DequeueStep
<1>4. ASSUME SizeTail(r) \/ SizeHead(r) \/ LoadTail(r) PROVE Claims'
  <2>1. reader[r].at \notin Claiming /\ reader'[r].at \notin Claiming
    BY <1>2, <1>4 DEF SizeTail, SizeHead, LoadTail, PollAgain, Polling, ReaderAt, Claiming, Deciding, Locals
  <2>2. UNCHANGED <<tailIndex, headIndex, dequeueOptimisticCount, dequeueOvercommit>>
    BY <1>4 DEF SizeTail, SizeHead, LoadTail, queueVars
  <2>3. tailIndex' \in Nat /\ tailIndex <= tailIndex'
    BY <2>2, IndexedTypes DEF Inv
  <2> QED BY <1>1, <1>3, <2>1, <2>2, <2>3, ClaimsKept
<1> QED BY <1>1, <1>4, ClaimsLoaded, ClaimsLooked, ClaimsMade, ClaimsChecked, ClaimsGivenBack DEF ClaimStep

-----------------------------------------------------------------------------
(* The steps of a reader from taking an index to finding the block         *)

LEMMA TakeIndexKeeps ==
    ASSUME Inv, NEW r \in Readers, TakeIndex(r)
    PROVE  Claims' /\ IndexInv' /\ Elements' /\ Owners'
<1>1. Indexed /\ reader \in [Readers -> Locals] /\ headIndex \in Nat
  BY IndexedTypes DEF Inv, Indexed
<1>2. Claims' /\ headIndex' = headIndex + 1
  BY <1>1, ClaimsTaken DEF Inv
<1>3. \A q \in Readers \ {r} : reader'[q] = reader[q]
  BY <1>1, OneReader DEF DequeueStep
<1>4. /\ reader[r].at = "take" /\ reader'[r].at = "header" /\ reader'[r].index = headIndex
      /\ UNCHANGED <<tailIndex, entries, headers, producer, tailBlock>>
      /\ UNCHANGED <<blocks, initialBlockPoolIndex, freeList, heap, allocations>>
  BY <1>1 DEF TakeIndex, ReaderAt, Polling, blockVars, indexVars
<1>5. IndexSame
  BY <1>4, SameIndex
<1>6. \A q \in Readers : reader[q].at \in Using =>
        q # r /\ reader[q].index < headIndex /\ reader'[q] = reader[q]
  BY <1>3, <1>4 DEF Using, Inv, Elements, Indexes
<1>7. Indexes'
  <2>1. ASSUME NEW q \in Readers, reader'[q].at \in Using, q # r
        PROVE  reader[q].at \in Using /\ reader'[q] = reader[q] /\ reader[q].index < headIndex
    BY <1>3, <1>6, <2>1
  <2>2. \A q \in Readers : reader'[q].at \in Using => reader'[q].index < headIndex'
    <3> SUFFICES ASSUME NEW q \in Readers, reader'[q].at \in Using
                 PROVE  reader'[q].index < headIndex + 1
      BY <1>2
    <3>1. CASE q = r
      BY <1>1, <1>4, <3>1
    <3>2. CASE q # r
      <4>1. reader'[q].index < headIndex /\ reader[q].index \in Int /\ reader'[q].index = reader[q].index
        BY <1>1, <2>1, <3>2 DEF Locals
      <4> QED BY <1>1, <4>1
    <3> QED BY <3>1, <3>2
  <2>3. ASSUME NEW p \in Readers, NEW q \in Readers, reader'[p].at \in Using, reader'[q].at \in Using,
               reader'[p].index = reader'[q].index
        PROVE  p = q
    <3>1. CASE p = r /\ q # r
      BY <1>1, <1>4, <2>1, <2>3, <3>1
    <3>2. CASE p # r /\ q = r
      BY <1>1, <1>4, <2>1, <2>3, <3>2
    <3>3. CASE p # r /\ q # r
      BY <2>1, <2>3, <3>3 DEF Inv, Elements, Indexes
    <3> QED BY <3>1, <3>2, <3>3
  <2> QED BY <2>2, <2>3 DEF Indexes
<1>8. EntryFound'
  BY <1>3, <1>4, <1>5, EntryFoundKept DEF Found, Inv, Elements
<1>9. ASSUME NEW i \in Nat PROVE (Undone(i)' <=> Undone(i)) /\ (Unmoved(i)' <=> Unmoved(i))
  <2>1. headIndex' <= i <=> headIndex <= i /\ i # headIndex
    BY <1>1, <1>2
  <2>2. Undone(i)' <=> Undone(i)
    BY <1>3, <1>4, <1>6, <2>1 DEF Undone, Using
  <2>3. Unmoved(i)' <=> Unmoved(i)
    BY <1>3, <1>4, <1>6, <2>1 DEF Unmoved, Using, Holding
  <2> QED BY <2>2, <2>3
<1>10. Elements'
  BY <1>3, <1>4, <1>5, <1>7, <1>8, <1>9, ElementsSame DEF Inv
<1>11. Owners'
  BY <1>3, <1>4, <1>5, OwnersKept DEF Inv
<1>12. IndexInv'
  BY <1>3, <1>4, IndexKept DEF Inv
<1> QED BY <1>2, <1>10, <1>11, <1>12

LEMMA TailedPositive ==
    ASSUME TypeOK, Enqueuing, tailIndex > 0
    PROVE  Tailed > 0
<1>1. tailIndex \in Nat /\ 0 \in Nat
  BY IndexedTypes
<1> DEFINE n == Block(tailIndex)  m == Block(tailIndex + BLOCK_SIZE - 1)
<1>2. n \in Nat
  BY <1>1, BlockFacts
<1>3. tailIndex % BLOCK_SIZE = 0 => n > 0 /\ m = n
  <2>1. Block(0) \in Nat
    BY BlockFacts
  <2>2. tailIndex % BLOCK_SIZE = 0 => Block(0) < n
    BY <1>1, BlockOrder
  <2>3. tailIndex % BLOCK_SIZE = 0 => m = n
    BY <1>1, BlockEnds
  <2> HIDE DEF n, m
  <2> QED BY <1>2, <2>1, <2>2, <2>3
<1>4. tailIndex % BLOCK_SIZE # 0 => m = n + 1
  BY <1>1, BlockEnds
<1> HIDE DEF n, m
<1>5. m > 0
  BY <1>2, <1>3, <1>4
<1>6. Keyed = IF producer.at \in {"tail", "block", "link", "publish"} THEN n + 1 ELSE m
  BY DEF Keyed, n, m
<1>7. producer.at = "tail" => n > 0
  BY <1>3 DEF Enqueuing
<1> QED BY <1>2, <1>5, <1>6, <1>7 DEF Tailed, ProducerAt

\* A step that leaves claims alone.
LEMMA ClaimsSame ==
    ASSUME Inv, NEW r \in Readers, reader[r].at \notin Claiming, reader'[r].at \notin Claiming,
           \A q \in Readers \ {r} : reader'[q] = reader[q],
           UNCHANGED <<tailIndex, headIndex, dequeueOptimisticCount, dequeueOvercommit>>
    PROVE  Claims'
<1>1. Claims /\ Indexed /\ tailIndex' \in Nat /\ tailIndex <= tailIndex'
  BY IndexedTypes DEF Inv
<1>2. \A q \in Readers : reader[q].at \in Claiming \/ reader'[q].at \in Claiming =>
        reader'[q] = reader[q]
  OBVIOUS
<1> QED BY <1>1, <1>2, ClaimsKept

LEMMA LoadHeaderKeeps ==
    ASSUME Inv, NEW r \in Readers, LoadHeader(r)
    PROVE  Claims' /\ IndexInv' /\ Elements' /\ Owners'
<1>1. Indexed /\ reader \in [Readers -> Locals]
  BY IndexedTypes DEF Inv, Indexed
<1>2. \A q \in Readers \ {r} : reader'[q] = reader[q]
  BY <1>1, OneReader DEF DequeueStep
<1>3. /\ reader[r].at = "header" /\ reader'[r].at = "position"
      /\ reader'[r].header = blockIndex /\ reader'[r].index = reader[r].index
      /\ UNCHANGED <<queueVars, blockVars, indexVars, tailBlock, producer>>
  BY <1>1 DEF LoadHeader, ReaderAt, Locals
<1>4. ReadersKept
  BY <1>2, <1>3 DEF ReadersKept, Early, Late
<1>5. IndexSame
  BY <1>3, SameIndex DEF indexVars
<1>6. Elements'
  BY <1>3, <1>4, <1>5, ElementsKept DEF Inv, blockVars, queueVars
<1>7. Owners'
  BY <1>2, <1>3, <1>5, OwnersKept DEF Inv, blockVars
<1>8. Claims'
  BY <1>2, <1>3, ClaimsSame DEF Claiming, Deciding, queueVars
<1>9. PICK d \in [Nat -> Int], B \in [Nat -> Nat] :
         Rings(d, B) /\ EntryReserved(d) /\ RingsSearched(B)
  BY DEF Inv, IndexInv, Placed
<1>10. RingsSearched(B)'
  <2>1. blockIndex \in DOMAIN headers
    BY RingFacts DEF Inv, IndexInv
  <2>2. blockIndex' = blockIndex /\ headers' = headers /\ entries' = entries
    BY <1>3 DEF blockIndex, indexVars
  <2>3. \A q \in Readers \ {r} : reader'[q].at \in {"position", "key"} =>
          /\ reader'[q].header \in DOMAIN headers
          /\ reader'[q].header # blockIndex => Block(reader'[q].index) < B[reader'[q].header]
    BY <1>2, <1>9 DEF RingsSearched
  <2>4. \A q \in Readers : reader'[q].at = "key" =>
          /\ reader'[q].position \in 0..(headers[reader'[q].header].capacity - 1)
          /\ \A e \in Nat : e = headers[reader'[q].header].index[reader'[q].position]
               => \E n \in Nat : HasKey(e, n)
    BY <1>2, <1>3, <1>9 DEF RingsSearched
  <2>5. \A e, n \in Nat : HasKey(e, n)' <=> HasKey(e, n)
    BY <2>2 DEF HasKey
  <2> QED BY <1>3, <2>1, <2>2, <2>3, <2>4, <2>5 DEF RingsSearched
<1>11. IndexInv'
  BY <1>3, <1>9, <1>10, RingsKept DEF Inv, indexVars, queueVars
<1> QED BY <1>6, <1>7, <1>8, <1>11

LEMMA LoadIndexTailKeeps ==
    ASSUME Inv, NEW r \in Readers, LoadIndexTail(r)
    PROVE  Claims' /\ IndexInv' /\ Elements' /\ Owners'
<1>1. Indexed /\ reader \in [Readers -> Locals]
  BY IndexedTypes DEF Inv, Indexed
<1>2. \A q \in Readers \ {r} : reader'[q] = reader[q]
  BY <1>1, OneReader DEF DequeueStep
<1>3. /\ reader[r].at = "position" /\ reader'[r].at = "key"
      /\ reader'[r].header = reader[r].header /\ reader'[r].index = reader[r].index
      /\ reader'[r].position = headers[reader[r].header].tail
      /\ UNCHANGED <<queueVars, blockVars, indexVars, tailBlock, producer>>
  BY <1>1 DEF LoadIndexTail, ReaderAt, Locals
<1>4. ReadersKept
  BY <1>2, <1>3 DEF ReadersKept, Early, Late
<1>5. IndexSame
  BY <1>3, SameIndex DEF indexVars
<1>6. Elements'
  BY <1>3, <1>4, <1>5, ElementsKept DEF Inv, blockVars, queueVars
<1>7. Owners'
  BY <1>2, <1>3, <1>5, OwnersKept DEF Inv, blockVars
<1>8. Claims'
  BY <1>2, <1>3, ClaimsSame DEF Claiming, Deciding, queueVars
<1>9. PICK d \in [Nat -> Int], B \in [Nat -> Nat] :
         Rings(d, B) /\ EntryReserved(d) /\ RingsSearched(B)
  BY DEF Inv, IndexInv, Placed
\* There is something in the queue, so the tail of the ring was set.
<1>10. Tailed > 0
  <2>1. reader[r].index < headIndex /\ reader[r].index \in Nat
    BY <1>1, <1>3 DEF Inv, Elements, Indexes, Using, Locals
  <2>2. headIndex <= tailIndex /\ tailIndex \in Nat /\ headIndex \in Nat
    BY ClaimsCovered, IndexedTypes DEF Inv
  <2>3. tailIndex > 0
    BY <2>1, <2>2
  <2> QED BY <2>3, TailedPositive DEF Inv, IndexInv
<1>11. RingsSearched(B)'
  <2>1. /\ reader[r].header \in DOMAIN headers
        /\ reader[r].header # blockIndex => Block(reader[r].index) < B[reader[r].header]
    BY <1>3, <1>9 DEF RingsSearched
  <2>2. blockIndex' = blockIndex /\ headers' = headers /\ entries' = entries
    BY <1>3 DEF blockIndex, indexVars
  <2>3. headers[reader[r].header].tail \in 0..(headers[reader[r].header].capacity - 1)
    BY <2>1, RingFacts DEF Inv, IndexInv
  <2>4. \A e \in Nat : e = headers[reader[r].header].index[headers[reader[r].header].tail]
          => \E n \in Nat : HasKey(e, n)
    BY <1>10, <2>1 DEF Inv, IndexInv, TailKeys
  <2>5. \A q \in Readers \ {r} :
          /\ reader'[q].at \in {"position", "key"} =>
               /\ reader'[q].header \in DOMAIN headers
               /\ reader'[q].header # blockIndex => Block(reader'[q].index) < B[reader'[q].header]
          /\ reader'[q].at = "key" =>
               /\ reader'[q].position \in 0..(headers[reader'[q].header].capacity - 1)
               /\ \A e \in Nat : e = headers[reader'[q].header].index[reader'[q].position]
                    => \E n \in Nat : HasKey(e, n)
    BY <1>2, <1>9 DEF RingsSearched
  <2>6. \A e, n \in Nat : HasKey(e, n)' <=> HasKey(e, n)
    BY <2>2 DEF HasKey
  <2> QED BY <1>3, <2>1, <2>2, <2>3, <2>4, <2>5, <2>6 DEF RingsSearched
<1>12. IndexInv'
  BY <1>3, <1>9, <1>11, RingsKept DEF Inv, indexVars, queueVars
<1> QED BY <1>6, <1>7, <1>8, <1>12

\* A reader that takes a step from one of Early to Late, or within Late, found the
\* entry of its block.
LEMMA FindingKeeps ==
    ASSUME Inv, NEW r \in Readers,
           \A q \in Readers \ {r} : reader'[q] = reader[q],
           reader[r].at \in {"key", "value"}, reader'[r].at \in {"value", "move"},
           reader'[r].index = reader[r].index,
           UNCHANGED <<queueVars, blockVars, indexVars, tailBlock, producer>>,
           \A e, i \in Nat : Found(r, e, i)' =>
               \E b \in Blocks : /\ InIndex(e, Block(i), b)
                                 /\ reader'[r].at # "value" => reader'[r].block = b
    PROVE  Claims' /\ IndexInv' /\ Elements' /\ Owners'
<1>1. IndexSame
  BY SameIndex DEF indexVars
<1>2. UNCHANGED <<tailIndex, headIndex, tailBlock, blocks>>
  BY DEF queueVars, blockVars
<1>3. \A q \in Readers :
        /\ reader'[q].at \in Using <=> reader[q].at \in Using
        /\ reader'[q].at \in Holding <=> reader[q].at \in Holding
        /\ reader'[q].index = reader[q].index
  BY DEF Using, Holding
<1>4. Indexes'
  BY <1>2, <1>3 DEF Inv, Elements, Indexes
<1>5. EntryFound'
  BY <1>1, EntryFoundKept DEF Inv, Elements
<1>6. \A i \in Nat : (Undone(i)' <=> Undone(i)) /\ (Unmoved(i)' <=> Unmoved(i))
  BY <1>2, <1>3 DEF Undone, Unmoved
<1>7. Elements'
  BY <1>1, <1>2, <1>4, <1>5, <1>6, ElementsSame DEF Inv
<1>8. Owners'
  BY <1>1, OwnersKept DEF Inv, blockVars
<1>9. Claims'
  BY ClaimsSame DEF Claiming, Deciding, queueVars
<1>10. IndexInv'
  BY IndexKept DEF Inv, indexVars, queueVars
<1> QED BY <1>7, <1>8, <1>9, <1>10

\* Going by the key it reads, a reader arrives at the entry of its block.
Located(h, p, i) ==
    h.index[(p + (BlockBase(i) - entries[h.index[p]].key) \div BLOCK_SIZE) % h.capacity]

LEMMA EntryLocated ==
    ASSUME Inv, NEW r \in Readers, reader[r].at = "key",
           NEW hh \in Nat, hh = reader[r].header, NEW p \in Nat, p = reader[r].position,
           NEW h, h = headers[hh], NEW i \in Nat, i = reader[r].index,
           NEW e \in Nat, e = Located(h, p, i)
    PROVE  \E b \in Blocks : InIndex(e, Block(i), b)
<1>1. PICK d \in [Nat -> Int], B \in [Nat -> Nat] :
         Rings(d, B) /\ EntryReserved(d) /\ RingsSearched(B)
  BY DEF Inv, IndexInv, Placed
<1>2. /\ hh \in DOMAIN headers /\ p \in 0..(h.capacity - 1)
      /\ hh # blockIndex => Block(i) < B[hh]
      /\ \A f \in Nat : f = h.index[p] => \E n \in Nat : HasKey(f, n)
  BY <1>1 DEF RingsSearched
<1> DEFINE f == h.index[p]
<1>3. h.capacity \in Nat \ {0} /\ f \in Nat
  BY <1>2, RingFacts DEF Inv, IndexInv
<1>4. PICK n \in Nat : HasKey(f, n)
  BY <1>2, <1>3
<1>5. entries[f].key = BLOCK_SIZE * n /\ EntryFor(Ring, d[blockIndex], n) = f
  BY <1>1, <1>3, <1>4 DEF HasKey, Rings
<1>6. Place(h, d[hh], n) = p
  <2>1. headers[hh].index[p] = EntryFor(Ring, d[blockIndex], n) /\ p \in 0..(headers[hh].capacity - 1)
    BY <1>2, <1>5
  <2>2. \A g \in DOMAIN headers : \A q \in 0..(headers[g].capacity - 1), j \in Nat :
          headers[g].index[q] = EntryFor(Ring, d[blockIndex], j) => Place(headers[g], d[g], j) = q
    BY <1>1 DEF Rings
  <2>3. hh \in DOMAIN headers /\ n \in Nat
    BY <1>2
  <2>4. Place(headers[hh], d[hh], n) = p
    BY ONLY <2>1, <2>2, <2>3
  <2> QED BY <2>4
<1> DEFINE m == Block(i)  c == h.capacity  k == d[hh]
<1>7. m \in Nat /\ c \in Nat \ {0} /\ k \in Int
  BY <1>2, <1>3, BlockFacts, RingFacts DEF Inv, IndexInv
<1>13. BlockBase(i) = BLOCK_SIZE * m
  BY BlockFacts
<1>14. BLOCK_SIZE * m \in Nat /\ BLOCK_SIZE * m <= i
  <2> DEFINE u == BLOCK_SIZE * m  v == i % BLOCK_SIZE
  <2>1. u \in Nat /\ v \in Nat /\ i = u + v
    BY BlockFacts
  <2> HIDE DEF u, v
  <2>2. u \in Nat /\ u <= i
    BY <2>1
  <2> QED BY <2>2 DEF u
<1>8. (BlockBase(i) - entries[f].key) \div BLOCK_SIZE = m - n
  <2>1. (BLOCK_SIZE * m - BLOCK_SIZE * n) \div BLOCK_SIZE = m - n
    BY <1>7, KeysDiffer
  <2> QED BY <1>5, <1>13, <2>1
<1> HIDE DEF m
<1>9. (p + (m - n)) % c = (m - k) % c
  <2>1. p = (n - k) % c
    BY <1>6 DEF Place
  <2> HIDE DEF c, k
  <2>2. n - k \in Int /\ m - n \in Int /\ (n - k) + (m - n) = m - k
    BY <1>7
  <2>3. (((n - k) % c) + (m - n)) % c = ((n - k) + (m - n)) % c
    BY <1>7, <2>2, Added
  <2> QED BY <2>1, <2>2, <2>3
<1>10. e = EntryFor(h, k, m)
  <2>1. e = h.index[(p + (m - n)) % c]
    BY <1>8 DEF Located
  <2> QED BY <1>9, <2>1 DEF EntryFor, Place
\* Its block is in the index, since it is not done with its element.
<1>11. PICK g \in Nat, b \in Blocks : InIndex(g, m, b)
  <2>1. i < headIndex
    BY DEF Inv, Elements, Indexes, Using
  <2>2. headIndex <= tailIndex /\ tailIndex \in Nat /\ headIndex \in Nat
    BY ClaimsCovered, IndexedTypes DEF Inv
  <2>3. tailIndex <= Enqueued /\ Enqueued \in Nat
    BY <2>2 DEF Enqueued
  <2>4. Undone(i)
    BY DEF Undone, Using
  <2> DEFINE u == BLOCK_SIZE * m
  <2>5. u \in Nat /\ u <= i
    BY <1>14
  <2> HIDE DEF u
  <2>6. u < Enqueued
    BY <2>1, <2>2, <2>3, <2>5
  <2> QED BY <2>4, <2>6 DEF u, m, Inv, Elements, BlocksLive
<1>12. EntryFor(h, k, m) = g
  <2>1. CASE hh = blockIndex
    BY <1>1, <1>7, <1>11, <2>1 DEF Rings, InIndex, Ring
  <2>2. CASE hh # blockIndex
    BY <1>1, <1>2, <1>7, <1>11, <2>2 DEF Rings, m
  <2> QED BY <2>1, <2>2
<1> QED BY <1>10, <1>11, <1>12 DEF m

LEMMA LoadKeyKeeps ==
    ASSUME Inv, NEW r \in Readers, LoadKey(r)
    PROVE  Claims' /\ IndexInv' /\ Elements' /\ Owners'
<1>1. Indexed /\ reader \in [Readers -> Locals]
  BY IndexedTypes DEF Inv, Indexed
<1>2. \A q \in Readers \ {r} : reader'[q] = reader[q]
  BY <1>1, OneReader DEF DequeueStep
<1> DEFINE hh == reader[r].header  p == reader[r].position  h == headers[hh]  i == reader[r].index
           e == Located(h, p, i)
<1>3. /\ reader[r].at = "key" /\ reader'[r].at = "value"
      /\ reader'[r].entry = e /\ reader'[r].index = i
      /\ UNCHANGED <<queueVars, blockVars, indexVars, tailBlock, producer>>
  BY <1>1 DEF LoadKey, ReaderAt, Locals, Located
<1>4. hh \in Nat /\ p \in Nat /\ i \in Nat
  BY <1>1 DEF Locals
<1>5. ASSUME NEW f \in Nat, NEW j \in Nat, Found(r, f, j)'
      PROVE  \E b \in Blocks : InIndex(f, Block(j), b)
  <2>1. f = e /\ j = i
    BY <1>3, <1>5 DEF Found
  <2> HIDE DEF hh, p, i, h
  <2>2. PICK hh1 \in Nat, p1 \in Nat, h1 \in {h} : hh1 = hh /\ p1 = p /\ h1 = h
    BY <1>4
  <2> QED BY <1>3, <2>1, <2>2, EntryLocated DEF hh, p, i, h
<1> QED BY <1>2, <1>3, <1>5, FindingKeeps

LEMMA LoadBlockKeeps ==
    ASSUME Inv, NEW r \in Readers, LoadBlock(r)
    PROVE  Claims' /\ IndexInv' /\ Elements' /\ Owners'
<1>1. Indexed /\ reader \in [Readers -> Locals]
  BY IndexedTypes DEF Inv, Indexed
<1>2. \A q \in Readers \ {r} : reader'[q] = reader[q]
  BY <1>1, OneReader DEF DequeueStep
<1>3. /\ reader[r].at = "value" /\ reader'[r].at = "move"
      /\ reader'[r].entry = reader[r].entry /\ reader'[r].index = reader[r].index
      /\ reader'[r].block = entries[reader[r].entry].value
      /\ UNCHANGED <<queueVars, blockVars, indexVars, tailBlock, producer>>
  BY <1>1 DEF LoadBlock, ReaderAt, Locals
<1>4. ASSUME NEW e \in Nat, NEW i \in Nat, Found(r, e, i)'
      PROVE  \E b \in Blocks : InIndex(e, Block(i), b) /\ reader'[r].block = b
  <2>1. Found(r, e, i)
    BY <1>3, <1>4 DEF Found
  <2>2. PICK b \in Blocks : InIndex(e, Block(i), b)
    BY <2>1 DEF Inv, Elements, EntryFound
  <2>3. reader[r].entry = e
    BY <2>1 DEF Found
  <2> QED BY <1>3, <2>2, <2>3 DEF InIndex
<1> QED BY <1>2, <1>3, <1>4, FindingKeeps

-----------------------------------------------------------------------------
(* The steps of a reader with its element and the block of it              *)

LEMMA BlockTypes ==
    ASSUME TypeOK
    PROVE  /\ \A b \in Blocks : blocks[b].emptied \in 0..BLOCK_SIZE
           /\ Blocks \subseteq Nat \ {0}
           /\ DOMAIN blocks = Blocks
<1>1. (MaxItems + BLOCK_SIZE - 1) \div BLOCK_SIZE \in Int
  BY Sizes, Remainder
<1>2. Blocks \subseteq Nat \ {0}
  BY <1>1, Sizes DEF Blocks
<1> QED BY <1>2 DEF TypeOK

LEMMA SlotStored ==
    ASSUME TypeOK, NEW b \in Blocks, NEW s \in Slots, NEW x,
           blocks' = [blocks EXCEPT ![b].slots[s] = x]
    PROVE  /\ \A c \in Blocks : blocks'[c].emptied = blocks[c].emptied
           /\ \A c \in Blocks : c # b => blocks'[c].slots = blocks[c].slots
           /\ \A t \in Slots : t # s => blocks'[b].slots[t] = blocks[b].slots[t]
           /\ blocks'[b].slots[s] = x
<1>1. blocks \in [Blocks -> [slots : [Slots -> Items \cup {NULL}], emptied : 0..BLOCK_SIZE]]
  BY DEF TypeOK
<1> QED BY <1>1

LEMMA EmptiedStored ==
    ASSUME TypeOK, NEW b \in Blocks, NEW x, blocks' = [blocks EXCEPT ![b].emptied = x]
    PROVE  /\ \A c \in Blocks : blocks'[c].slots = blocks[c].slots
           /\ \A c \in Blocks : c # b => blocks'[c].emptied = blocks[c].emptied
           /\ blocks'[b].emptied = x
<1>1. blocks \in [Blocks -> [slots : [Slots -> Items \cup {NULL}], emptied : 0..BLOCK_SIZE]]
  BY DEF TypeOK
<1> QED BY <1>1

\* Elements of a block are told apart by their slots.
LEMMA SlotsDiffer ==
    ASSUME NEW i \in Nat, NEW j \in Nat, Block(i) = Block(j), i # j
    PROVE  i % BLOCK_SIZE # j % BLOCK_SIZE
<1> DEFINE u == BLOCK_SIZE * Block(i)  v == i % BLOCK_SIZE  w == j % BLOCK_SIZE
<1>1. i = u + v /\ j = u + w
  BY BlockFacts
<1> HIDE DEF u, v, w
<1>2. v # w
  BY <1>1
<1> QED BY <1>2 DEF v, w

LEMMA DoneFacts ==
    ASSUME NEW n \in Nat
    PROVE  /\ IsFiniteSet(DoneOf(n)) /\ Cardinality(DoneOf(n)) \in 0..BLOCK_SIZE
           /\ \A i \in Nat : Block(i) = n /\ Undone(i) =>
                Cardinality(DoneOf(n)) < BLOCK_SIZE /\ i \notin DoneOf(n)
<1>1. IsFiniteSet(ItemsOf(n)) /\ Cardinality(ItemsOf(n)) = BLOCK_SIZE /\ DoneOf(n) \subseteq ItemsOf(n)
  BY ItemsFacts DEF DoneOf
<1>2. IsFiniteSet(DoneOf(n)) /\ Cardinality(DoneOf(n)) <= BLOCK_SIZE
  BY <1>1, FS_Subset
<1>3. Cardinality(DoneOf(n)) \in Nat
  BY <1>2, FS_CardinalityType
<1>4. ASSUME NEW i \in Nat, Block(i) = n, Undone(i)
      PROVE  Cardinality(DoneOf(n)) < BLOCK_SIZE /\ i \notin DoneOf(n)
  <2>1. i \in ItemsOf(n) /\ i \notin DoneOf(n)
    BY <1>4 DEF ItemsOf, DoneOf
  <2>2. Cardinality(DoneOf(n)) # BLOCK_SIZE
    BY <1>1, <2>1, FS_Subset
  <2> QED BY <1>2, <1>3, <2>1, <2>2, Sizes
<1> QED BY <1>2, <1>3, <1>4, Sizes

\* What a reader has in its hands while it uses a block.
LEMMA BlockInHand ==
    ASSUME Inv, NEW r \in Readers, reader[r].at \in {"move", "empty", "unlink"}
    PROVE  \E e, i \in Nat, b \in Blocks :
             /\ e = reader[r].entry /\ i = reader[r].index /\ b = reader[r].block
             /\ InIndex(e, Block(i), b) /\ Block(i) \in Nat
             /\ \A f, n \in Nat : InIndex(f, n, b) => f = e /\ n = Block(i)
             /\ \A f \in Nat, c \in Blocks : InIndex(f, Block(i), c) => f = e /\ c = b
             /\ \A n \in Nat, c \in Blocks : InIndex(e, n, c) => c = b /\ n = Block(i)
             /\ ProducerAt("link") => producer.block # b
             /\ b \in InUse
             /\ \A q \in Readers : reader[q].at = "free" => reader[q].block # b
<1>1. reader[r] \in Locals
  BY IndexedTypes DEF Inv, Indexed
<1>2. PICK e \in Nat, i \in Nat : e = reader[r].entry /\ i = reader[r].index
  BY <1>1 DEF Locals
<1>3. PICK b \in Blocks : InIndex(e, Block(i), b) /\ b = reader[r].block
  BY <1>2 DEF Found, Inv, Elements, EntryFound
<1>4. Block(i) \in Nat
  BY BlockFacts
<1>5. /\ \A f, g, n \in Nat : HasKey(f, n) /\ HasKey(g, n) => f = g
      /\ \A f, n, m \in Nat : HasKey(f, n) /\ HasKey(f, m) => n = m
  BY OneEntry DEF Inv, IndexInv
<1>6. \A f, n \in Nat : InIndex(f, n, b) => f = e /\ n = Block(i)
  <2> SUFFICES ASSUME NEW f \in Nat, NEW n \in Nat, InIndex(f, n, b) PROVE f = e /\ n = Block(i)
    OBVIOUS
  <2>1. f = e
    BY <1>3, <1>4 DEF Inv, Owners, InOneEntry
  <2> QED BY <1>3, <1>4, <1>5, <2>1 DEF InIndex
<1>7. \A f \in Nat, c \in Blocks : InIndex(f, Block(i), c) => f = e /\ c = b
  BY <1>3, <1>4, <1>5 DEF InIndex
<1>8. \A n \in Nat, c \in Blocks : InIndex(e, n, c) => c = b /\ n = Block(i)
  BY <1>3, <1>4, <1>5 DEF InIndex
<1>9. ProducerAt("link") => producer.block # b
  BY <1>3, <1>4 DEF Inv, Owners, WithProducer
<1>10. b \in InUse /\ \A q \in Readers : reader[q].at = "free" => reader[q].block # b
  BY <1>3, <1>4 DEF Inv, Owners, WithReader, InOneEntry
<1> QED BY <1>2, <1>3, <1>4, <1>6, <1>7, <1>8, <1>9, <1>10

\* Moving an element out of its slot concerns none of the others.
LEMMA MoveElementKeeps ==
    ASSUME Inv, NEW r \in Readers, MoveElement(r)
    PROVE  Claims' /\ IndexInv' /\ Elements' /\ Owners'
<1>1. Indexed /\ reader \in [Readers -> Locals] /\ headIndex \in Nat
  BY IndexedTypes DEF Inv, Indexed
<1>2. \A q \in Readers \ {r} : reader'[q] = reader[q]
  BY <1>1, OneReader DEF DequeueStep
<1>3. /\ reader[r].at = "move" /\ reader'[r] = [reader[r] EXCEPT !.at = "empty"]
      /\ UNCHANGED <<tailIndex, headIndex, dequeueOptimisticCount, dequeueOvercommit>>
      /\ UNCHANGED <<initialBlockPoolIndex, freeList, heap, allocations>>
      /\ UNCHANGED <<entries, headers, tailBlock, producer>>
  BY <1>1 DEF MoveElement, ReaderAt, ReaderTo, Locals, queueVars, indexVars
<1>4. /\ reader'[r].at = "empty" /\ reader'[r].entry = reader[r].entry
      /\ reader'[r].index = reader[r].index /\ reader'[r].block = reader[r].block
  BY <1>1, <1>3 DEF Locals
<1>5. PICK e \in Nat, i \in Nat, b \in Blocks :
             /\ e = reader[r].entry /\ i = reader[r].index /\ b = reader[r].block
             /\ InIndex(e, Block(i), b) /\ Block(i) \in Nat
             /\ \A f, n \in Nat : InIndex(f, n, b) => f = e /\ n = Block(i)
             /\ \A f \in Nat, c \in Blocks : InIndex(f, Block(i), c) => f = e /\ c = b
             /\ ProducerAt("link") => producer.block # b
  BY <1>3, BlockInHand
<1>6. PICK s \in Slots : s = i % BLOCK_SIZE
  BY BlockFacts
<1>7. blocks' = [blocks EXCEPT ![b].slots[s] = NULL]
  BY <1>5, <1>6 DEF MoveElement
<1>8. /\ \A c \in Blocks : blocks'[c].emptied = blocks[c].emptied
      /\ \A c \in Blocks : c # b => blocks'[c].slots = blocks[c].slots
      /\ \A t \in Slots : t # s => blocks'[b].slots[t] = blocks[b].slots[t]
  BY <1>7, SlotStored DEF Inv
<1>9. IndexSame
  BY <1>3, SameIndex
<1>10. \A q \in Readers : /\ reader'[q].at \in Using <=> reader[q].at \in Using
                          /\ reader'[q].index = reader[q].index
                          /\ reader'[q].at \in Holding <=> reader[q].at \in Holding /\ q # r
  BY <1>2, <1>3, <1>4 DEF Using, Holding
<1>11. /\ \A q \in Readers : reader[q].at \in Using => reader[q].index < headIndex
       /\ \A p, q \in Readers :
            reader[p].at \in Using /\ reader[q].at \in Using /\ reader[p].index = reader[q].index
              => p = q
  BY DEF Inv, Elements, Indexes
<1>12. Indexes'
  BY <1>3, <1>10, <1>11 DEF Indexes
<1>13. EntryFound'
  <2>1. ASSUME NEW f \in Nat, NEW j \in Nat, Found(r, f, j)'
        PROVE  \E c \in Blocks : InIndex(f, Block(j), c) /\ reader'[r].block = c
    BY <1>4, <1>5, <2>1 DEF Found
  <2> QED BY <1>2, <1>9, <2>1, EntryFoundKept DEF Inv, Elements
<1>14. \A j \in Nat : Undone(j)' <=> Undone(j)
  BY <1>3, <1>10 DEF Undone
<1>15. \A j \in Nat : Unmoved(j)' => Unmoved(j) /\ j # i
  <2> SUFFICES ASSUME NEW j \in Nat, Unmoved(j)' PROVE Unmoved(j) /\ j # i
    OBVIOUS
  <2>1. i < headIndex /\ reader[r].at \in Using /\ Holding \subseteq Using
    BY <1>3, <1>5, <1>11 DEF Using, Holding
  <2>2. CASE headIndex <= j
    BY <1>1, <2>1, <2>2 DEF Unmoved
  <2>3. CASE \E q \in Readers : reader'[q].at \in Holding /\ reader'[q].index = j
    BY <1>5, <1>10, <1>11, <2>1, <2>3 DEF Unmoved
  <2> QED BY <1>3, <2>2, <2>3 DEF Unmoved
<1>16. \A n \in Nat : DoneOf(n)' = DoneOf(n)
  <2> SUFFICES ASSUME NEW n \in Nat PROVE DoneOf(n)' = DoneOf(n)
    OBVIOUS
  <2>1. ItemsOf(n) \subseteq Nat
    BY DEF ItemsOf
  <2> QED BY <1>14, <2>1 DEF DoneOf
<1>17. Enqueued' = Enqueued
  BY <1>3 DEF Enqueued, ProducerAt
<1>18. \A f, n \in Nat, c \in Blocks : InIndex(f, n, c)' <=> InIndex(f, n, c)
  BY <1>9 DEF IndexSame
<1>19. BlocksLive'
  <2> SUFFICES ASSUME NEW j \in Nat, BLOCK_SIZE * Block(j) < Enqueued', Undone(j)'
               PROVE  \E f \in Nat, c \in Blocks : InIndex(f, Block(j), c)'
    BY DEF BlocksLive
  <2>1. PICK f \in Nat, c \in Blocks : InIndex(f, Block(j), c)
    BY <1>14, <1>17 DEF Inv, Elements, BlocksLive
  <2>2. Block(j) \in Nat
    BY BlockFacts
  <2> QED BY <1>18, <2>1, <2>2
<1>20. Contents'
  <2> SUFFICES ASSUME NEW f \in Nat, NEW j \in Nat, NEW c \in Blocks,
                      InIndex(f, Block(j), c)', j < Enqueued', Unmoved(j)'
               PROVE  blocks'[c].slots[j % BLOCK_SIZE] = j + 1
    BY DEF Contents
  <2>1. Block(j) \in Nat /\ j % BLOCK_SIZE \in Slots
    BY BlockFacts
  <2>2. InIndex(f, Block(j), c) /\ Unmoved(j) /\ j # i
    BY <1>15, <1>18, <2>1
  <2>3. blocks[c].slots[j % BLOCK_SIZE] = j + 1
    BY <1>17, <2>2 DEF Inv, Elements, Contents
  <2>4. CASE c = b
    <3>1. Block(i) = Block(j)
      BY <1>5, <2>1, <2>2, <2>4
    <3>2. i % BLOCK_SIZE # j % BLOCK_SIZE
      BY <2>2, <3>1, SlotsDiffer
    <3> QED BY <1>6, <1>8, <2>1, <2>3, <2>4, <3>2
  <2>5. CASE c # b
    BY <1>8, <2>3, <2>5
  <2> QED BY <2>4, <2>5
<1>21. Counts'
  BY <1>8, <1>16, <1>18 DEF Inv, Elements, Counts
<1>22. Prepared'
  BY <1>3, <1>5, <1>8 DEF Inv, Elements, Prepared, ProducerAt
<1>23. TailBlock'
  BY <1>3, <1>18 DEF Inv, Elements, TailBlock, ProducerAt
<1>24. Unlinking'
  <2>1. \A q \in Readers : reader'[q].at = "unlink" \/ reader[q].at = "unlink" => reader'[q] = reader[q]
    BY <1>2, <1>3, <1>4
  <2>2. \A q \in Readers : reader[q].at = "unlink" => reader[q].block \in Blocks
    BY BlockInHand
  <2> QED BY <1>8, <1>18, <2>1, <2>2 DEF Inv, Elements, Unlinking
<1>25. Elements'
  BY <1>12, <1>13, <1>19, <1>20, <1>21, <1>22, <1>23, <1>24 DEF Elements
<1>26. Owners'
  BY <1>2, <1>3, <1>4, <1>9, OwnersKept DEF Inv
<1>27. Claims'
  BY <1>2, <1>3, <1>4, ClaimsSame DEF Claiming, Deciding
<1>28. IndexInv'
  BY <1>2, <1>3, <1>4, IndexKept DEF Inv
<1> QED BY <1>25, <1>26, <1>27, <1>28

\* An element is done, and its block has one more of them.
LEMMA SetEmptyKeeps ==
    ASSUME Inv, NEW r \in Readers, SetEmpty(r)
    PROVE  /\ Claims' /\ IndexInv' /\ Elements' /\ Owners'
           /\ \A b \in Blocks : b = reader[r].block => blocks[b].emptied < BLOCK_SIZE
<1>1. Indexed /\ reader \in [Readers -> Locals] /\ headIndex \in Nat
  BY IndexedTypes DEF Inv, Indexed
<1>2. \A q \in Readers \ {r} : reader'[q] = reader[q]
  BY <1>1, OneReader DEF DequeueStep
<1>3. /\ reader[r].at = "empty"
      /\ UNCHANGED <<tailIndex, headIndex, dequeueOptimisticCount, dequeueOvercommit>>
      /\ UNCHANGED <<initialBlockPoolIndex, freeList, heap, allocations>>
      /\ UNCHANGED <<entries, headers, tailBlock, producer>>
  BY <1>1 DEF SetEmpty, ReaderAt, Locals, queueVars, indexVars
<1>5. PICK e \in Nat, i \in Nat, b \in Blocks :
             /\ e = reader[r].entry /\ i = reader[r].index /\ b = reader[r].block
             /\ InIndex(e, Block(i), b) /\ Block(i) \in Nat
             /\ \A f, n \in Nat : InIndex(f, n, b) => f = e /\ n = Block(i)
             /\ \A f \in Nat, c \in Blocks : InIndex(f, Block(i), c) => f = e /\ c = b
             /\ ProducerAt("link") => producer.block # b
  <2>1. reader[r].at \in {"move", "empty", "unlink"}
    BY <1>3
  <2>2. PICK e \in Nat, i \in Nat, b \in Blocks :
             /\ e = reader[r].entry /\ i = reader[r].index /\ b = reader[r].block
             /\ InIndex(e, Block(i), b) /\ Block(i) \in Nat
             /\ \A f, n \in Nat : InIndex(f, n, b) => f = e /\ n = Block(i)
             /\ \A f \in Nat, c \in Blocks : InIndex(f, Block(i), c) => f = e /\ c = b
             /\ \A n \in Nat, c \in Blocks : InIndex(e, n, c) => c = b /\ n = Block(i)
             /\ ProducerAt("link") => producer.block # b
             /\ b \in InUse
             /\ \A q \in Readers : reader[q].at = "free" => reader[q].block # b
    BY <2>1, BlockInHand
  <2> QED BY ONLY <2>2
<1>4. /\ reader'[r].at \in {"unlink", "poll"}
      /\ reader'[r].at = "unlink" <=> blocks[b].emptied = BLOCK_SIZE - 1
      /\ reader'[r].at = "unlink" => /\ reader'[r].entry = e /\ reader'[r].index = i
                                     /\ reader'[r].block = b
  BY <1>1, <1>5 DEF SetEmpty, Polling, Locals
<1>6. blocks' = [blocks EXCEPT ![b].emptied = blocks[b].emptied + 1]
  BY <1>5, BlockTypes DEF SetEmpty, Inv
<1>7. PICK x \in Nat : x = blocks[b].emptied
  BY BlockTypes DEF Inv
<1>8. /\ \A c \in Blocks : blocks'[c].slots = blocks[c].slots
      /\ \A c \in Blocks : c # b => blocks'[c].emptied = blocks[c].emptied
      /\ blocks'[b].emptied = x + 1
  <2> DEFINE y == x + 1
  <2>1. blocks' = [blocks EXCEPT ![b].emptied = y]
    BY <1>6, <1>7
  <2> HIDE DEF y
  <2>2. /\ \A c \in Blocks : blocks'[c].slots = blocks[c].slots
        /\ \A c \in Blocks : c # b => blocks'[c].emptied = blocks[c].emptied
        /\ blocks'[b].emptied = y
    BY <2>1, EmptiedStored DEF Inv
  <2> QED BY <2>2 DEF y
<1>9. IndexSame
  BY <1>3, SameIndex
<1>18. \A f, n \in Nat, c \in Blocks : InIndex(f, n, c)' <=> InIndex(f, n, c)
  BY <1>9 DEF IndexSame
<1>10. /\ \A q \in Readers : /\ reader'[q].at \in Using <=> reader[q].at \in Using /\ q # r
                             /\ reader'[q].at \in Holding <=> reader[q].at \in Holding
       /\ \A q \in Readers : q # r => reader'[q].index = reader[q].index
  BY <1>2, <1>3, <1>4 DEF Using, Holding
<1>11. /\ \A q \in Readers : reader[q].at \in Using => reader[q].index < headIndex
       /\ \A p, q \in Readers :
            reader[p].at \in Using /\ reader[q].at \in Using /\ reader[p].index = reader[q].index
              => p = q
  BY DEF Inv, Elements, Indexes
<1>12. Indexes'
  BY <1>3, <1>10, <1>11 DEF Indexes
<1>13. EntryFound'
  <2>1. ASSUME NEW f \in Nat, NEW j \in Nat, Found(r, f, j)'
        PROVE  \E c \in Blocks : InIndex(f, Block(j), c) /\ reader'[r].block = c
    BY <1>4, <1>5, <2>1 DEF Found
  <2> QED BY <1>2, <1>9, <2>1, EntryFoundKept DEF Inv, Elements
<1>14. r \in Readers /\ reader[r].at \in Using /\ i < headIndex /\ Undone(i)
  BY <1>3, <1>5, <1>11 DEF Using, Undone
<1>15. \A j \in Nat : Undone(j)' <=> Undone(j) /\ j # i
  <2> SUFFICES ASSUME NEW j \in Nat PROVE Undone(j)' <=> Undone(j) /\ j # i
    OBVIOUS
  <2>1. headIndex <= j => j # i
    BY <1>1, <1>14
  <2>2. (\E q \in Readers : reader'[q].at \in Using /\ reader'[q].index = j)
          <=> (\E q \in Readers : reader[q].at \in Using /\ reader[q].index = j) /\ j # i
    BY <1>5, <1>10, <1>11, <1>14
  <2> QED BY <1>3, <2>1, <2>2 DEF Undone
<1>16. \A j \in Nat : Unmoved(j)' <=> Unmoved(j)
  <2>1. \A q \in Readers : reader[q].at \in Holding => q # r
    BY <1>3 DEF Holding
  <2> QED BY <1>3, <1>10, <2>1 DEF Unmoved
<1>17. Enqueued' = Enqueued
  BY <1>3 DEF Enqueued, ProducerAt
<1>19. BlocksLive'
  <2> SUFFICES ASSUME NEW j \in Nat, BLOCK_SIZE * Block(j) < Enqueued', Undone(j)'
               PROVE  \E f \in Nat, c \in Blocks : InIndex(f, Block(j), c)'
    BY DEF BlocksLive
  <2>1. PICK f \in Nat, c \in Blocks : InIndex(f, Block(j), c)
    BY <1>15, <1>17 DEF Inv, Elements, BlocksLive
  <2>2. Block(j) \in Nat
    BY BlockFacts
  <2> QED BY <1>18, <2>1, <2>2
<1>20. Contents'
  <2> SUFFICES ASSUME NEW f \in Nat, NEW j \in Nat, NEW c \in Blocks,
                      InIndex(f, Block(j), c)', j < Enqueued', Unmoved(j)'
               PROVE  blocks'[c].slots[j % BLOCK_SIZE] = j + 1
    BY DEF Contents
  <2>1. Block(j) \in Nat
    BY BlockFacts
  <2>2. blocks[c].slots[j % BLOCK_SIZE] = j + 1
    BY <1>16, <1>17, <1>18, <2>1 DEF Inv, Elements, Contents
  <2> QED BY <1>8, <2>2
<1>21. /\ \A n \in Nat : n # Block(i) => DoneOf(n)' = DoneOf(n)
       /\ DoneOf(Block(i))' = DoneOf(Block(i)) \cup {i}
       /\ i \notin DoneOf(Block(i)) /\ Cardinality(DoneOf(Block(i))) < BLOCK_SIZE
       /\ IsFiniteSet(DoneOf(Block(i)))
  <2>1. ASSUME NEW n \in Nat PROVE n # Block(i) => DoneOf(n)' = DoneOf(n)
    <3>1. \A j \in ItemsOf(n) : j \in Nat /\ (n # Block(i) => j # i)
      BY DEF ItemsOf
    <3> QED BY <1>15, <3>1 DEF DoneOf
  <2>2. DoneOf(Block(i))' = DoneOf(Block(i)) \cup {i}
    <3> DEFINE S == ItemsOf(Block(i))
    <3>1. S \subseteq Nat /\ i \in S
      BY DEF ItemsOf
    <3>2. {j \in S : ~Undone(j)'} = {j \in S : ~Undone(j)} \cup {i}
      BY <1>15, <3>1
    <3> QED BY <3>2 DEF DoneOf
  <2>3. /\ i \notin DoneOf(Block(i)) /\ Cardinality(DoneOf(Block(i))) < BLOCK_SIZE
        /\ IsFiniteSet(DoneOf(Block(i)))
    BY <1>5, <1>14, DoneFacts
  <2> QED BY <2>1, <2>2, <2>3
<1>22. x = Cardinality(DoneOf(Block(i))) /\ x < BLOCK_SIZE
  BY <1>5, <1>7, <1>21 DEF Inv, Elements, Counts
<1>23. Cardinality(DoneOf(Block(i))') = x + 1
  BY <1>21, <1>22, FS_AddElement
<1>24. Counts'
  <2> SUFFICES ASSUME NEW f \in Nat, NEW n \in Nat, NEW c \in Blocks, InIndex(f, n, c)'
               PROVE  blocks'[c].emptied = Cardinality(DoneOf(n)')
    BY DEF Counts
  <2>1. InIndex(f, n, c)
    BY <1>18
  <2>2. CASE c = b
    <3>1. n = Block(i)
      BY <1>5, <2>1, <2>2
    <3> QED BY <1>8, <1>23, <2>2, <3>1
  <2>3. CASE c # b
    <3>1. n # Block(i)
      BY <1>5, <2>1, <2>3
    <3>2. blocks[c].emptied = Cardinality(DoneOf(n))
      BY <2>1 DEF Inv, Elements, Counts
    <3> QED BY <1>8, <1>21, <2>3, <3>1, <3>2
  <2> QED BY <2>2, <2>3
<1>25. Prepared'
  BY <1>3, <1>5, <1>8 DEF Inv, Elements, Prepared, ProducerAt
<1>26. TailBlock'
  BY <1>3, <1>18 DEF Inv, Elements, TailBlock, ProducerAt
<1>27. Unlinking'
  <2>1. ASSUME NEW q \in Readers, reader[q].at = "unlink"
        PROVE  /\ q # r /\ reader[q].block \in Blocks /\ reader[q].block # b
               /\ reader'[q] = reader[q]
    <3>1. q # r /\ reader[q].block \in Blocks /\ blocks[reader[q].block].emptied = BLOCK_SIZE
      BY <1>3, <2>1, BlockInHand DEF Inv, Elements, Unlinking
    <3>2. blocks[b].emptied # BLOCK_SIZE
      BY <1>7, <1>22, Sizes
    <3> QED BY <1>2, <3>1, <3>2
  <2>2. \A q \in Readers \ {r} : reader'[q].at = "unlink" => reader[q].at = "unlink"
    BY <1>2
  <2>3. reader'[r].at = "unlink" <=> blocks'[b].emptied = BLOCK_SIZE
    BY <1>4, <1>7, <1>8, Sizes
  <2>4. \A q \in Readers : reader'[q].at = "unlink" => blocks'[reader'[q].block].emptied = BLOCK_SIZE
    <3> SUFFICES ASSUME NEW q \in Readers, reader'[q].at = "unlink"
                 PROVE  blocks'[reader'[q].block].emptied = BLOCK_SIZE
      OBVIOUS
    <3>1. CASE q = r
      BY <1>4, <2>3, <3>1
    <3>2. CASE q # r
      BY <1>8, <2>1, <2>2, <3>2 DEF Inv, Elements, Unlinking
    <3> QED BY <3>1, <3>2
  <2>5. \A p, q \in Readers :
          reader'[p].at = "unlink" /\ reader'[q].at = "unlink" /\ reader'[p].block = reader'[q].block
            => p = q
    BY <1>4, <2>1, <2>2 DEF Inv, Elements, Unlinking
  <2>6. ASSUME NEW f \in Nat, NEW n \in Nat, NEW c \in Blocks, InIndex(f, n, c)',
               blocks'[c].emptied = BLOCK_SIZE
        PROVE  \E q \in Readers : reader'[q].at = "unlink" /\ reader'[q].block = c
    <3>1. CASE c = b
      BY <1>4, <2>3, <2>6, <3>1
    <3>2. CASE c # b
      <4>1. PICK q \in Readers : reader[q].at = "unlink" /\ reader[q].block = c
        BY <1>8, <1>18, <2>6, <3>2 DEF Inv, Elements, Unlinking
      <4> QED BY <2>1, <4>1
    <3> QED BY <3>1, <3>2
  <2> QED BY <2>4, <2>5, <2>6 DEF Unlinking
<1>28. Elements'
  BY <1>12, <1>13, <1>19, <1>20, <1>24, <1>25, <1>26, <1>27 DEF Elements
<1>29. Owners'
  BY <1>2, <1>3, <1>4, <1>9, OwnersKept DEF Inv
<1>30. Claims'
  BY <1>2, <1>3, <1>4, ClaimsSame DEF Claiming, Deciding
<1>31. IndexInv'
  BY <1>2, <1>3, <1>4, IndexKept DEF Inv
<1> QED BY <1>5, <1>7, <1>22, <1>28, <1>29, <1>30, <1>31

LEMMA ValueStored ==
    ASSUME TypeOK, NEW e \in DOMAIN entries, NEW v \in Blocks \cup {NULL},
           entries' = [entries EXCEPT ![e].value = v]
    PROVE  /\ entries' \in Seq(Entry)
           /\ DOMAIN entries' = DOMAIN entries /\ Len(entries') = Len(entries)
           /\ \A f \in DOMAIN entries :
                entries'[f].key = entries[f].key /\ (f # e => entries'[f].value = entries[f].value)
           /\ entries'[e].value = v
           /\ \A f, n \in Nat : HasKey(f, n)' <=> HasKey(f, n)
<1>1. entries \in Seq(Entry)
  BY DEF TypeOK, Entry
<1>2. /\ Len(entries) \in Nat /\ DOMAIN entries = 1..Len(entries)
      /\ \A f \in DOMAIN entries : entries[f] \in Entry
  BY <1>1
<1> DEFINE x == [entries[e] EXCEPT !.value = v]
<1>3. x \in Entry /\ x.key = entries[e].key /\ x.value = v
  BY <1>2 DEF Entry
<1>4. entries' = [entries EXCEPT ![e] = x]
  OBVIOUS
<1> HIDE DEF x
<1>5. /\ DOMAIN entries' = DOMAIN entries /\ entries'[e] = x
      /\ \A f \in DOMAIN entries : f # e => entries'[f] = entries[f]
  BY <1>2, <1>4
<1>6. entries' \in Seq(Entry) /\ Len(entries') = Len(entries)
  BY <1>1, <1>3, <1>4
<1>7. \A f \in DOMAIN entries : entries'[f].key = entries[f].key
  BY <1>3, <1>5
<1>8. \A f, n \in Nat : HasKey(f, n)' <=> HasKey(f, n)
  BY <1>5, <1>7 DEF HasKey
<1> QED BY <1>3, <1>5, <1>6, <1>7, <1>8

\* Another block, or none, in an entry: the index keeps its keys.
LEMMA ValueKeeps ==
    ASSUME TypeOK, IndexInv, NEW e \in DOMAIN entries, NEW v \in Blocks \cup {NULL},
           entries' = [entries EXCEPT ![e].value = v], \E n \in Nat : HasKey(e, n),
           UNCHANGED <<headers, tailIndex>>, Keyed' = Keyed, Tailed' = Tailed,
           NEW d \in [Nat -> Int], NEW B \in [Nat -> Nat], Rings(d, B),
           \A h \in DOMAIN headers, f, n \in Nat, b \in Blocks :
               InIndex(f, n, b)' /\ h # blockIndex /\ n < B[h] => EntryFor(headers[h], d[h], n) = f
    PROVE  RingTypes' /\ KeyTypes' /\ TailKeys' /\ Rings(d, B)'
<1>1. /\ DOMAIN entries' = DOMAIN entries /\ Len(entries') = Len(entries)
      /\ \A f \in DOMAIN entries :
           entries'[f].key = entries[f].key /\ (f # e => entries'[f].value = entries[f].value)
      /\ \A f, n \in Nat : HasKey(f, n)' <=> HasKey(f, n)
  BY ValueStored
<1>2. Ring' = Ring /\ blockIndex' = blockIndex
  BY DEF Ring, blockIndex
<1>3. DOMAIN entries \subseteq Nat
  BY RingFacts DEF IndexInv
<1>4. RingTypes'
  <2>1. RingTypes /\ headers' = headers
    BY DEF IndexInv
  <2> QED BY ONLY <1>1, <1>2, <2>1 DEF RingTypes, RingOK
<1>5. KeyTypes'
  <2> SUFFICES ASSUME NEW f \in DOMAIN entries
               PROVE  \/ entries'[f].key = INVALID_BLOCK_BASE /\ entries'[f].value = NULL
                      \/ \E n \in Nat : HasKey(f, n)'
    BY <1>1 DEF KeyTypes
  <2>1. CASE \E n \in Nat : HasKey(f, n)
    BY <1>1, <1>3, <2>1
  <2>2. CASE ~\E n \in Nat : HasKey(f, n)
    <3>1. f # e /\ entries[f].key = INVALID_BLOCK_BASE /\ entries[f].value = NULL
      BY <2>2 DEF IndexInv, KeyTypes
    <3> QED BY <1>1, <3>1
  <2> QED BY <2>1, <2>2
<1>6. TailKeys'
  BY <1>1, <1>2 DEF IndexInv, TailKeys
<1>7. Rings(d, B)'
  <2>1. \A h \in DOMAIN headers' : h # blockIndex' => B[h] <= Block(tailIndex')
    BY <1>2 DEF Rings
  <2>2. Ring'.tail = Place(Ring', d[blockIndex'], Tailed' - 1)
    BY <1>2 DEF Rings
  <2>3. \A f, n \in Nat : HasKey(f, n)' =>
          /\ n < Keyed' /\ Keyed' <= n + Ring'.capacity
          /\ EntryFor(Ring', d[blockIndex'], n) = f
    BY <1>1, <1>2 DEF Rings
  <2>4. \A h \in DOMAIN headers' : \A p \in 0..(headers'[h].capacity - 1), n \in Nat :
          headers'[h].index[p] = EntryFor(Ring', d[blockIndex'], n) =>
              Place(headers'[h], d[h], n) = p
    BY <1>2 DEF Rings
  <2>5. \A h \in DOMAIN headers', f, n \in Nat, b \in Blocks :
          InIndex(f, n, b)' /\ h # blockIndex' /\ n < B[h] =>
              EntryFor(headers'[h], d[h], n) = f
    BY <1>2
  <2> QED BY <2>1, <2>2, <2>3, <2>4, <2>5 DEF Rings, Place, EntryFor
<1> QED BY <1>4, <1>5, <1>6, <1>7

\* The block leaves the index: nobody looks for it there any more.
LEMMA UnlinkBlockKeeps ==
    ASSUME Inv, NEW r \in Readers, UnlinkBlock(r)
    PROVE  Claims' /\ IndexInv' /\ Elements' /\ Owners'
<1>1. Indexed /\ reader \in [Readers -> Locals] /\ headIndex \in Nat
  BY IndexedTypes DEF Inv, Indexed
<1>2. \A q \in Readers \ {r} : reader'[q] = reader[q]
  BY <1>1, OneReader DEF DequeueStep
<1>3. /\ reader[r].at = "unlink"
      /\ reader'[r].at = "free" /\ reader'[r].block = reader[r].block
      /\ UNCHANGED <<tailIndex, headIndex, dequeueOptimisticCount, dequeueOvercommit>>
      /\ UNCHANGED <<blocks, initialBlockPoolIndex, freeList, heap, allocations>>
      /\ UNCHANGED <<headers, tailBlock, producer>>
  BY <1>1 DEF UnlinkBlock, ReaderAt, ReaderTo, Locals, queueVars, blockVars
<1>4. PICK e \in Nat, i \in Nat, b \in Blocks :
             /\ e = reader[r].entry /\ i = reader[r].index /\ b = reader[r].block
             /\ InIndex(e, Block(i), b) /\ Block(i) \in Nat
             /\ \A f, n \in Nat : InIndex(f, n, b) => f = e /\ n = Block(i)
             /\ \A f \in Nat, c \in Blocks : InIndex(f, Block(i), c) => f = e /\ c = b
             /\ \A n \in Nat, c \in Blocks : InIndex(e, n, c) => c = b /\ n = Block(i)
             /\ ProducerAt("link") => producer.block # b
             /\ b \in InUse
             /\ \A q \in Readers : reader[q].at = "free" => reader[q].block # b
  <2>1. reader[r].at \in {"move", "empty", "unlink"}
    BY <1>3
  <2> QED BY <2>1, BlockInHand
<1>5. e \in DOMAIN entries /\ HasKey(e, Block(i))
  BY <1>4 DEF InIndex, HasKey
<1>6. entries' = [entries EXCEPT ![e].value = NULL]
  BY <1>4 DEF UnlinkBlock
<1>7. /\ DOMAIN entries' = DOMAIN entries
      /\ \A f \in DOMAIN entries :
           entries'[f].key = entries[f].key /\ (f # e => entries'[f].value = entries[f].value)
      /\ entries'[e].value = NULL
      /\ \A f, n \in Nat : HasKey(f, n)' <=> HasKey(f, n)
  <2>1. NULL \in Blocks \cup {NULL}
    OBVIOUS
  <2> QED BY <1>5, <1>6, <2>1, ValueStored DEF Inv
<1>8. \A f, n \in Nat, c \in Blocks : InIndex(f, n, c)' <=> InIndex(f, n, c) /\ f # e
  <2> SUFFICES ASSUME NEW f \in Nat, NEW n \in Nat, NEW c \in Blocks
               PROVE  InIndex(f, n, c)' <=> InIndex(f, n, c) /\ f # e
    OBVIOUS
  <2>1. NULL \notin Blocks
    BY BlockTypes DEF Inv, NULL
  <2>2. HasKey(f, n) => f \in DOMAIN entries
    BY DEF HasKey
  <2> QED BY <1>7, <2>1, <2>2 DEF InIndex
\* All elements of the block are done.
<1>9. \A j \in Nat : Block(j) = Block(i) => ~Undone(j)
  <2>1. blocks[b].emptied = BLOCK_SIZE /\ blocks[b].emptied = Cardinality(DoneOf(Block(i)))
    BY <1>3, <1>4 DEF Inv, Elements, Unlinking, Counts
  <2>2. \A j \in Nat : Block(j) = Block(i) /\ Undone(j) => Cardinality(DoneOf(Block(i))) < BLOCK_SIZE
    BY <1>4, DoneFacts
  <2>3. ~(BLOCK_SIZE < BLOCK_SIZE)
    BY Sizes
  <2> QED BY <2>1, <2>2, <2>3
<1>10. \A q \in Readers : /\ reader'[q].at \in Using <=> reader[q].at \in Using
                          /\ reader'[q].at \in Using => reader'[q].index = reader[q].index
                          /\ reader'[q].at \in Holding <=> reader[q].at \in Holding
                          /\ reader'[q].at \in Holding => reader'[q].index = reader[q].index
  BY <1>2, <1>3 DEF Using, Holding
<1>11. Indexes'
  BY <1>3, <1>10 DEF Inv, Elements, Indexes
<1>12. EntryFound'
  <2> SUFFICES ASSUME NEW q \in Readers, NEW f \in Nat, NEW j \in Nat, Found(q, f, j)'
               PROVE  \E c \in Blocks : /\ InIndex(f, Block(j), c)'
                                        /\ reader'[q].at # "value" => reader'[q].block = c
    BY DEF EntryFound
  <2>1. q # r /\ reader'[q] = reader[q] /\ Found(q, f, j)
    BY <1>2, <1>3 DEF Found
  <2>2. PICK c \in Blocks : InIndex(f, Block(j), c) /\ (reader[q].at # "value" => reader[q].block = c)
    BY <2>1 DEF Inv, Elements, EntryFound
  <2>3. Block(j) \in Nat
    BY BlockFacts
  <2>4. f # e
    <3> SUFFICES ASSUME f = e PROVE FALSE
      OBVIOUS
    <3>1. c = b /\ Block(j) = Block(i)
      BY <1>4, <2>2, <2>3
    <3>2. CASE reader[q].at = "unlink"
      BY <1>3, <1>4, <2>1, <2>2, <3>1, <3>2 DEF Inv, Elements, Unlinking
    <3>3. CASE reader[q].at \in {"value", "move", "empty"}
      <4>1. reader[q].at \in Using /\ reader[q].index = j
        BY <2>1, <3>3 DEF Using, Found
      <4>2. Undone(j)
        BY <4>1 DEF Undone
      <4> QED BY <1>9, <3>1, <4>2
    <3> QED BY <2>1, <3>2, <3>3 DEF Found
  <2> QED BY <1>8, <2>1, <2>2, <2>3, <2>4
<1>13. \A j \in Nat : (Undone(j)' <=> Undone(j)) /\ (Unmoved(j)' <=> Unmoved(j))
  BY <1>3, <1>10 DEF Undone, Unmoved
<1>14. \A n \in Nat : DoneOf(n)' = DoneOf(n)
  <2> SUFFICES ASSUME NEW n \in Nat PROVE DoneOf(n)' = DoneOf(n)
    OBVIOUS
  <2>1. ItemsOf(n) \subseteq Nat
    BY DEF ItemsOf
  <2> QED BY <1>13, <2>1 DEF DoneOf
<1>15. Enqueued' = Enqueued
  BY <1>3 DEF Enqueued, ProducerAt
<1>16. BlocksLive'
  <2> SUFFICES ASSUME NEW j \in Nat, BLOCK_SIZE * Block(j) < Enqueued', Undone(j)'
               PROVE  \E f \in Nat, c \in Blocks : InIndex(f, Block(j), c)'
    BY DEF BlocksLive
  <2>1. PICK f \in Nat, c \in Blocks : InIndex(f, Block(j), c)
    BY <1>13, <1>15 DEF Inv, Elements, BlocksLive
  <2>2. Block(j) \in Nat /\ Undone(j)
    BY <1>13, BlockFacts
  <2>3. f # e
    BY <1>4, <1>9, <2>1, <2>2
  <2> QED BY <1>8, <2>1, <2>2, <2>3
<1>17. Contents'
  <2> SUFFICES ASSUME NEW f \in Nat, NEW j \in Nat, NEW c \in Blocks,
                      InIndex(f, Block(j), c)', j < Enqueued', Unmoved(j)'
               PROVE  blocks'[c].slots[j % BLOCK_SIZE] = j + 1
    BY DEF Contents
  <2>1. Block(j) \in Nat
    BY BlockFacts
  <2> QED BY <1>3, <1>8, <1>13, <1>15, <2>1 DEF Inv, Elements, Contents
<1>18. Counts'
  BY <1>3, <1>8, <1>14 DEF Inv, Elements, Counts
<1>19. Prepared'
  BY <1>3 DEF Inv, Elements, Prepared, ProducerAt
<1>20. TailBlock'
  BY <1>3, <1>8 DEF Inv, Elements, TailBlock, ProducerAt
<1>21. Unlinking'
  <2>1. \A q \in Readers : reader'[q].at = "unlink" => q # r /\ reader'[q] = reader[q]
    BY <1>2, <1>3
  <2>2. ASSUME NEW f \in Nat, NEW n \in Nat, NEW c \in Blocks, InIndex(f, n, c)',
               blocks'[c].emptied = BLOCK_SIZE
        PROVE  \E q \in Readers : reader'[q].at = "unlink" /\ reader'[q].block = c
    <3>1. InIndex(f, n, c) /\ f # e /\ c # b
      BY <1>4, <1>8, <2>2
    <3>2. PICK q \in Readers : reader[q].at = "unlink" /\ reader[q].block = c
      BY <1>3, <2>2, <3>1 DEF Inv, Elements, Unlinking
    <3> QED BY <1>2, <1>4, <3>1, <3>2
  <2> QED BY <1>3, <2>1, <2>2 DEF Inv, Elements, Unlinking
<1>22. Elements'
  BY <1>11, <1>12, <1>16, <1>17, <1>18, <1>19, <1>20, <1>21 DEF Elements
<1>23. InUse' = InUse
  BY <1>3 DEF InUse
<1>24. Owners'
  <2>1. FreeFromPool'
    BY <1>3 DEF Inv, Owners, FreeFromPool
  <2>2. InOneEntry'
    BY <1>8, <1>23 DEF Inv, Owners, InOneEntry
  <2>3. WithProducer'
    BY <1>3, <1>8, <1>23 DEF Inv, Owners, WithProducer, ProducerAt
  <2>4. WithReader'
    <3>1. ASSUME NEW q \in Readers, reader'[q].at = "free"
          PROVE  /\ reader'[q].block \in InUse'
                 /\ ProducerAt("link")' => producer'.block # reader'[q].block
                 /\ \A f, n \in Nat, c \in Blocks : InIndex(f, n, c)' => c # reader'[q].block
      <4>1. CASE q = r
        BY <1>3, <1>4, <1>8, <1>23, <4>1 DEF ProducerAt
      <4>2. CASE q # r
        <5>1. reader'[q] = reader[q] /\ reader[q].at = "free"
          BY <1>2, <3>1, <4>2
        <5> QED BY <1>3, <1>8, <1>23, <5>1 DEF Inv, Owners, WithReader, ProducerAt
      <4> QED BY <4>1, <4>2
    <3>2. ASSUME NEW p \in Readers, NEW q \in Readers, reader'[p].at = "free", reader'[q].at = "free",
                 reader'[p].block = reader'[q].block
          PROVE  p = q
      <4>1. \A u \in Readers \ {r} : reader'[u].at = "free" => reader[u].at = "free" /\ reader'[u].block # b
        BY <1>2, <1>4
      <4>2. CASE p # r /\ q # r
        BY <1>2, <3>2, <4>1, <4>2 DEF Inv, Owners, WithReader
      <4>3. CASE p = r \/ q = r
        BY <1>3, <1>4, <3>2, <4>1, <4>3
      <4> QED BY <4>2, <4>3
    <3> QED BY <3>1, <3>2 DEF WithReader
  <2>5. NoneLost'
    <3> SUFFICES ASSUME NEW c \in InUse'
                 PROVE  \/ \E f, n \in Nat : InIndex(f, n, c)'
                        \/ ProducerAt("link")' /\ producer'.block = c
                        \/ \E q \in Readers : reader'[q].at = "free" /\ reader'[q].block = c
      BY DEF NoneLost
    <3>1. CASE c = b
      BY <1>3, <1>4, <3>1
    <3>2. CASE c # b
      <4>1. \/ \E f, n \in Nat : InIndex(f, n, c)
            \/ ProducerAt("link") /\ producer.block = c
            \/ \E q \in Readers : reader[q].at = "free" /\ reader[q].block = c
        BY <1>23 DEF Inv, Owners, NoneLost
      <4>2. \A f, n \in Nat : InIndex(f, n, c) => c \in Blocks /\ f # e
        <5>1. \A f, n \in Nat : InIndex(f, n, c) => c \in Blocks
          BY DEF InIndex
        <5> QED BY <1>4, <3>2, <5>1
      <4>3. \A q \in Readers : reader[q].at = "free" => reader'[q] = reader[q]
        BY <1>2, <1>3
      <4> QED BY <1>3, <1>8, <4>1, <4>2, <4>3 DEF ProducerAt
    <3> QED BY <3>1, <3>2
  <2> QED BY <2>1, <2>2, <2>3, <2>4, <2>5 DEF Owners
<1>25. Claims'
  BY <1>2, <1>3, ClaimsSame DEF Claiming, Deciding
<1>26. IndexInv'
  <2>1. PICK d \in [Nat -> Int], B \in [Nat -> Nat] :
           Rings(d, B) /\ EntryReserved(d) /\ RingsSearched(B)
    BY DEF Inv, IndexInv, Placed
  <2>2. Keyed' = Keyed /\ Tailed' = Tailed
    BY <1>3 DEF Keyed, Tailed, ProducerAt
  <2>3. \A h \in DOMAIN headers, f, n \in Nat, c \in Blocks :
           InIndex(f, n, c)' /\ h # blockIndex /\ n < B[h] => EntryFor(headers[h], d[h], n) = f
    BY <1>8, <2>1 DEF Rings
  <2>4. \E n \in Nat : HasKey(e, n)
    BY <1>4, <1>5
  <2>5. NULL \in Blocks \cup {NULL}
    OBVIOUS
  <2>6. RingTypes' /\ KeyTypes' /\ TailKeys' /\ Rings(d, B)'
    BY <1>3, <1>5, <1>6, <2>1, <2>2, <2>3, <2>4, <2>5, ValueKeeps DEF Inv
  <2>7. Enqueuing'
    BY <1>3, <1>7, <2>2 DEF Inv, IndexInv, Enqueuing, ProducerAt
  <2>8. Ring' = Ring /\ blockIndex' = blockIndex
    BY <1>3 DEF Ring, blockIndex
  <2>9. EntryReserved(d)'
    <3>1. producer.at \in {"key", "tail", "block", "link"} => producer.entry \in DOMAIN entries
      BY DEF Inv, IndexInv, Enqueuing
    <3> QED BY <1>3, <1>7, <2>1, <2>8, <3>1 DEF EntryReserved, EntryFor, Place, ProducerAt
  <2>10. RingsSearched(B)'
    <3>1. \A q \in Readers : reader'[q].at \in {"position", "key"} => reader'[q] = reader[q]
      BY <1>2, <1>3
    <3> QED BY <1>3, <1>7, <2>1, <2>8, <3>1 DEF RingsSearched
  <2> QED BY <2>6, <2>7, <2>9, <2>10 DEF IndexInv, Placed
<1> QED BY <1>22, <1>24, <1>25, <1>26

LEMMA FreeBlockKeeps ==
    ASSUME Inv, NEW r \in Readers, FreeBlock(r)
    PROVE  Claims' /\ IndexInv' /\ Elements' /\ Owners'
<1>1. Indexed /\ reader \in [Readers -> Locals] /\ headIndex \in Nat
  BY IndexedTypes DEF Inv, Indexed
<1>2. \A q \in Readers \ {r} : reader'[q] = reader[q]
  BY <1>1, OneReader DEF DequeueStep
<1>3. /\ reader[r].at = "free" /\ reader'[r].at = "poll"
      /\ UNCHANGED <<tailIndex, headIndex, dequeueOptimisticCount, dequeueOvercommit>>
      /\ UNCHANGED <<blocks, initialBlockPoolIndex, allocations>>
      /\ UNCHANGED <<entries, headers, tailBlock, producer>>
      /\ IF InPool(reader[r].block)
         THEN freeList' = freeList \cup {reader[r].block} /\ heap' = heap
         ELSE heap' = heap \ {reader[r].block} /\ freeList' = freeList
  BY <1>1 DEF FreeBlock, ReaderAt, PollAgain, Polling, Locals, queueVars, indexVars
<1>4. IndexSame
  BY <1>3, SameIndex
<1>5. \A q \in Readers : /\ reader'[q].at \in Using <=> reader[q].at \in Using
                         /\ reader'[q].at \in Using => reader'[q].index = reader[q].index
                         /\ reader'[q].at \in Holding <=> reader[q].at \in Holding
                         /\ reader'[q].at \in Holding => reader'[q].index = reader[q].index
  BY <1>2, <1>3 DEF Using, Holding
<1>6. Indexes'
  BY <1>3, <1>5 DEF Inv, Elements, Indexes
<1>7. EntryFound'
  <2>1. \A f, j \in Nat : ~Found(r, f, j)'
    BY <1>3 DEF Found
  <2> QED BY <1>2, <1>4, <2>1, EntryFoundKept DEF Inv, Elements
<1>8. \A j \in Nat : (Undone(j)' <=> Undone(j)) /\ (Unmoved(j)' <=> Unmoved(j))
  BY <1>3, <1>5 DEF Undone, Unmoved
<1>9. Elements'
  BY <1>2, <1>3, <1>4, <1>6, <1>7, <1>8, ElementsSame DEF Inv
<1>10. Claims'
  BY <1>2, <1>3, ClaimsSame DEF Claiming, Deciding
<1>11. IndexInv'
  BY <1>2, <1>3, IndexKept DEF Inv
<1>12. PICK b : b = reader[r].block
  OBVIOUS
<1>13. /\ b \in InUse /\ (ProducerAt("link") => producer.block # b)
       /\ \A f, n \in Nat, c \in Blocks : InIndex(f, n, c) => c # b
       /\ \A q \in Readers \ {r} : reader[q].at = "free" => reader[q].block # b
  BY <1>3, <1>12 DEF Inv, Owners, WithReader
<1>14. /\ freeList \subseteq 1..initialBlockPoolIndex
       /\ heap \subseteq (PoolSize + 1)..(PoolSize + allocations)
       /\ initialBlockPoolIndex \in 0..PoolSize /\ allocations \in Nat
  BY Sizes DEF Inv, Owners, FreeFromPool, TypeOK
<1>15. b \in Nat /\ (InPool(b) => b \in 1..initialBlockPoolIndex) /\ (~InPool(b) => b \in heap)
       /\ (InPool(b) => b \notin heap) /\ (~InPool(b) => b \notin 1..initialBlockPoolIndex)
  <2>1. b \in 1..initialBlockPoolIndex \/ b \in heap
    BY <1>13 DEF InUse
  <2>2. PoolSize \in Nat
    BY Sizes
  <2>3. b \in 1..initialBlockPoolIndex => b \in Nat /\ b <= PoolSize
    BY <1>14, <2>2
  <2>4. b \in heap => b \in Nat /\ ~(b <= PoolSize)
    BY <1>14, <2>2
  <2> QED BY <2>1, <2>3, <2>4 DEF InPool
<1>16. InUse' = InUse \ {b}
  BY <1>3, <1>12, <1>15 DEF InUse
<1>17. FreeFromPool'
  <2>1. freeList' \subseteq freeList \cup {b} /\ (~InPool(b) => freeList' = freeList)
        /\ heap' \subseteq heap
    BY <1>3, <1>12
  <2>2. freeList' \subseteq 1..initialBlockPoolIndex
    BY <1>14, <1>15, <2>1
  <2> QED BY <1>3, <1>14, <2>1, <2>2 DEF FreeFromPool
<1>18. \A f, n \in Nat, c \in Blocks : InIndex(f, n, c)' <=> InIndex(f, n, c)
  BY <1>4 DEF IndexSame
<1>19. InOneEntry'
  <2>1. \A f, n \in Nat, c \in Blocks : InIndex(f, n, c)' => c \in InUse'
    BY <1>13, <1>16, <1>18 DEF Inv, Owners, InOneEntry
  <2>2. \A f, g, n, m \in Nat, c \in Blocks : InIndex(f, n, c)' /\ InIndex(g, m, c)' => f = g
    BY <1>18 DEF Inv, Owners, InOneEntry
  <2> QED BY <2>1, <2>2 DEF InOneEntry
<1>20. WithProducer'
  BY <1>3, <1>13, <1>16, <1>18 DEF Inv, Owners, WithProducer, ProducerAt
<1>21. \A q \in Readers : reader'[q].at = "free" => q # r /\ reader'[q] = reader[q]
  BY <1>2, <1>3
<1>22. WithReader'
  BY <1>3, <1>13, <1>16, <1>18, <1>21 DEF Inv, Owners, WithReader, ProducerAt
<1>23. NoneLost'
  <2> SUFFICES ASSUME NEW c \in InUse'
               PROVE  \/ \E f, n \in Nat : InIndex(f, n, c)'
                      \/ ProducerAt("link")' /\ producer'.block = c
                      \/ \E q \in Readers : reader'[q].at = "free" /\ reader'[q].block = c
    BY DEF NoneLost
  <2>1. \/ \E f, n \in Nat : InIndex(f, n, c)
        \/ ProducerAt("link") /\ producer.block = c
        \/ \E q \in Readers : reader[q].at = "free" /\ reader[q].block = c
    BY <1>16 DEF Inv, Owners, NoneLost
  <2>2. c # b
    BY <1>16
  <2>3. \A f, n \in Nat : InIndex(f, n, c) => InIndex(f, n, c)'
    <3>1. \A f, n \in Nat : InIndex(f, n, c) => c \in Blocks
      BY DEF InIndex
    <3> QED BY <1>18, <3>1
  <2> QED BY <1>2, <1>3, <1>12, <2>1, <2>2, <2>3 DEF ProducerAt
<1>24. Owners'
  BY <1>17, <1>19, <1>20, <1>22, <1>23 DEF Owners
<1> QED BY <1>9, <1>10, <1>11, <1>24

-----------------------------------------------------------------------------
(* The steps of the producer                                               *)

\* A step of the producer that neither enqueues nor touches a block.
LEMMA QuietKeeps ==
    ASSUME Inv, IndexSame, producer'.at = "publish" <=> producer.at = "publish",
           UNCHANGED <<tailIndex, headIndex, dequeueOptimisticCount, dequeueOvercommit>>,
           UNCHANGED <<blockVars, tailBlock, reader>>
    PROVE  Claims' /\ Elements' /\ Owners'
<1>1. ReadersKept
  BY DEF ReadersKept
<1>2. Elements'
  BY <1>1, ElementsKept DEF Inv, blockVars
<1>3. Owners'
  BY OwnersKept DEF Inv, blockVars
<1>4. Claims'
  <2>1. Claims /\ Indexed /\ tailIndex' \in Nat /\ tailIndex <= tailIndex'
    BY IndexedTypes DEF Inv
  <2> QED BY <2>1, ClaimsKept
<1> QED BY <1>2, <1>3, <1>4

\* A step that concerns the index only by the end of the queue.
LEMMA RingsSame ==
    ASSUME TypeOK, IndexInv, UNCHANGED <<headers, entries, reader>>,
           Keyed' = Keyed, Tailed' = Tailed, Block(tailIndex) <= Block(tailIndex'),
           Block(tailIndex') \in Nat,
           NEW d \in [Nat -> Int], NEW B \in [Nat -> Nat], Rings(d, B), RingsSearched(B)
    PROVE  /\ RingTypes' /\ KeyTypes' /\ TailKeys' /\ Rings(d, B)' /\ RingsSearched(B)'
           /\ \A e, n \in Nat, b \in Blocks : InIndex(e, n, b)' <=> InIndex(e, n, b)
<1>1. Ring' = Ring /\ blockIndex' = blockIndex
  BY DEF Ring, blockIndex
<1>2. \A e, n \in Nat : HasKey(e, n)' <=> HasKey(e, n)
  BY DEF HasKey
<1>3. \A e, n \in Nat, b \in Blocks : InIndex(e, n, b)' <=> InIndex(e, n, b)
  BY <1>2 DEF InIndex
<1>4. RingTypes'
  <2>1. RingTypes /\ UNCHANGED <<headers, entries>>
    BY DEF IndexInv
  <2> QED BY ONLY <1>1, <2>1 DEF RingTypes, RingOK
<1>5. KeyTypes'
  BY <1>2 DEF IndexInv, KeyTypes, HasKey
<1>6. TailKeys'
  BY <1>1, <1>2 DEF IndexInv, TailKeys
<1>7. Rings(d, B)'
  <2>1. \A h \in DOMAIN headers' : h # blockIndex' => B[h] <= Block(tailIndex')
    <3>1. \A h \in DOMAIN headers : h \in Nat /\ B[h] \in Nat
      BY RingFacts DEF IndexInv
    <3>2. Block(tailIndex) \in Nat
      BY IndexedTypes, BlockFacts
    <3>3. \A h \in DOMAIN headers : h # blockIndex => B[h] <= Block(tailIndex)
      BY DEF Rings
    <3> QED BY <1>1, <3>1, <3>2, <3>3
  <2>2. Ring'.tail = Place(Ring', d[blockIndex'], Tailed' - 1)
    BY <1>1 DEF Rings
  <2>3. \A e, n \in Nat : HasKey(e, n)' =>
          /\ n < Keyed' /\ Keyed' <= n + Ring'.capacity
          /\ EntryFor(Ring', d[blockIndex'], n) = e
    BY <1>1, <1>2 DEF Rings
  <2>4. \A h \in DOMAIN headers' : \A p \in 0..(headers'[h].capacity - 1), n \in Nat :
          headers'[h].index[p] = EntryFor(Ring', d[blockIndex'], n) =>
              Place(headers'[h], d[h], n) = p
    BY <1>1 DEF Rings
  <2>5. \A h \in DOMAIN headers', e, n \in Nat, b \in Blocks :
          InIndex(e, n, b)' /\ h # blockIndex' /\ n < B[h] =>
              EntryFor(headers'[h], d[h], n) = e
    BY <1>1, <1>3 DEF Rings
  <2> QED BY <2>1, <2>2, <2>3, <2>4, <2>5 DEF Rings, Place, EntryFor
<1>8. RingsSearched(B)'
  BY <1>1, <1>2 DEF RingsSearched
<1> QED BY <1>3, <1>4, <1>5, <1>6, <1>7, <1>8

\* After the tail of the ring comes the place of the next block.
LEMMA NextEntry ==
    ASSUME TypeOK, RingTypes, NEW d \in [Nat -> Int], NEW B \in [Nat -> Nat], Rings(d, B),
           NEW n \in Nat, n = Tailed
    PROVE  /\ NextTail(blockIndex) = Place(Ring, d[blockIndex], n)
           /\ NextTail(blockIndex) \in 0..(Ring.capacity - 1)
<1> DEFINE c == Ring.capacity  k == d[blockIndex]  t == Ring.tail
<1>1. c \in Nat \ {0} /\ k \in Int
  BY RingFacts DEF Ring
<1>2. t = ((n - 1) - k) % c /\ NextTail(blockIndex) = (t + 1) % c
  BY DEF Rings, Place, NextTail, Ring
<1> HIDE DEF c, k, t
<1>3. (n - 1) - k \in Int /\ ((n - 1) - k) + 1 = n - k /\ n - k \in Int
  BY <1>1
<1>4. ((((n - 1) - k) % c) + 1) % c = (((n - 1) - k) + 1) % c
  <2>1. PICK a \in Int : a = (n - 1) - k
    BY <1>3
  <2>2. PICK b \in Int : b = 1
    OBVIOUS
  <2>3. ((a % c) + b) % c = (a + b) % c
    BY <1>1, Added
  <2> QED BY <2>1, <2>2, <2>3
<1>5. NextTail(blockIndex) = (n - k) % c
  BY <1>2, <1>3, <1>4
<1>6. (n - k) % c \in 0..(c - 1)
  BY <1>1, <1>3, Remainder
<1> QED BY <1>5, <1>6 DEF Place, c, k

LEMMA AddProducerKeeps ==
    ASSUME Inv, AddProducer
    PROVE  Claims' /\ IndexInv' /\ Elements' /\ Owners'
<1>1. /\ UNCHANGED <<tailIndex, headIndex, dequeueOptimisticCount, dequeueOvercommit>>
      /\ UNCHANGED <<blockVars, tailBlock, reader, headers, entries, producer>>
  BY DEF AddProducer, indexVars
<1>2. Claims' /\ Elements' /\ Owners'
  BY <1>1, SameIndex, QuietKeeps
<1>3. IndexInv'
  BY <1>1, IndexKept DEF Inv
<1> QED BY <1>2, <1>3

LEMMA FindEntryKeeps ==
    ASSUME Inv, FindEntry
    PROVE  Claims' /\ IndexInv' /\ Elements' /\ Owners'
<1> DEFINE e == Ring.index[NextTail(blockIndex)]
<1>1. /\ producer.at = "idle" /\ tailIndex < MaxItems /\ tailIndex % BLOCK_SIZE = 0
      /\ producer' = IF EntryIsFree(e) THEN [producer EXCEPT !.at = "key", !.entry = e]
                                       ELSE [producer EXCEPT !.at = "grow"]
      /\ UNCHANGED <<tailIndex, headIndex, dequeueOptimisticCount, dequeueOvercommit>>
      /\ UNCHANGED <<blockVars, tailBlock, reader, headers, entries>>
  BY DEF FindEntry, ProducerAt, Ring, indexVars, queueVars
<1>2. TypeOK /\ IndexInv /\ RingTypes /\ KeyTypes /\ TailKeys /\ tailIndex \in Nat
  BY IndexedTypes DEF Inv, IndexInv
<1>3. /\ producer'.at = (IF EntryIsFree(e) THEN "key" ELSE "grow")
      /\ producer'.at = "key" => producer'.entry = e
  BY <1>1, <1>2 DEF TypeOK
<1> HIDE DEF e
<1>4. Keyed' = Keyed /\ Tailed' = Tailed
  BY <1>1, <1>3 DEF Keyed, Tailed, ProducerAt
<1>5. Block(tailIndex) \in Nat /\ Tailed = Block(tailIndex) /\ Keyed = Block(tailIndex)
  BY <1>1, <1>2, BlockFacts, BlockEnds DEF Tailed, Keyed, ProducerAt
<1>6. PICK d \in [Nat -> Int], B \in [Nat -> Nat] :
         Rings(d, B) /\ EntryReserved(d) /\ RingsSearched(B)
  BY DEF Inv, IndexInv, Placed
<1>7. RingTypes' /\ KeyTypes' /\ TailKeys' /\ Rings(d, B)' /\ RingsSearched(B)'
      /\ \A f, n \in Nat, b \in Blocks : InIndex(f, n, b)' <=> InIndex(f, n, b)
  BY <1>1, <1>2, <1>4, <1>5, <1>6, RingsSame
<1>8. e = EntryFor(Ring, d[blockIndex], Block(tailIndex)) /\ e \in DOMAIN entries /\ e \in Nat
  <2>1. PICK n \in Nat : n = Block(tailIndex)
    BY <1>5
  <2>2. NextTail(blockIndex) = Place(Ring, d[blockIndex], n)
        /\ NextTail(blockIndex) \in 0..(Ring.capacity - 1)
    BY <1>2, <1>5, <1>6, <2>1, NextEntry
  <2> QED BY <1>2, <2>1, <2>2, RingFacts DEF e, EntryFor, Ring
<1>9. EntryIsFree(e) => entries[e].value = NULL
  BY <1>2, <1>8, KeysDiffer DEF EntryIsFree, KeyTypes, HasKey
<1>10. ~EntryIsFree(e) => Tailed > 0
  <2> SUFFICES ASSUME ~EntryIsFree(e) PROVE Tailed > 0
    OBVIOUS
  <2>1. PICK n \in Nat : HasKey(e, n)
    BY <1>2, <1>8 DEF EntryIsFree, KeyTypes
  <2>2. n < Keyed
    BY <1>2, <1>8, <2>1, OneEntry DEF IndexInv
  <2> QED BY <1>5, <2>2
<1>11. Enqueuing'
  BY <1>1, <1>3, <1>4, <1>8, <1>10 DEF Enqueuing, ProducerAt
<1>12. EntryReserved(d)'
  <2>1. Ring' = Ring /\ blockIndex' = blockIndex
    BY <1>1 DEF Ring, blockIndex
  <2> QED BY <1>1, <1>3, <1>8, <1>9, <2>1 DEF EntryReserved, ProducerAt, EntryFor, Place
<1>13. IndexInv'
  BY <1>6, <1>7, <1>11, <1>12 DEF IndexInv, Placed
<1>14. IndexSame
  BY <1>1, <1>3, <1>7 DEF IndexSame
<1>15. Claims' /\ Elements' /\ Owners'
  BY <1>1, <1>3, <1>14, QuietKeeps
<1> QED BY <1>13, <1>15

LEMMA StoreIndexTailKeeps ==
    ASSUME Inv, StoreIndexTail
    PROVE  Claims' /\ IndexInv' /\ Elements' /\ Owners'
<1> DEFINE t == NextTail(blockIndex)
<1>1. /\ producer.at = "tail" /\ producer' = [producer EXCEPT !.at = "block"]
      /\ headers' = [headers EXCEPT ![blockIndex].tail = t]
      /\ UNCHANGED <<tailIndex, headIndex, dequeueOptimisticCount, dequeueOvercommit>>
      /\ UNCHANGED <<blockVars, tailBlock, reader, entries>>
  BY DEF StoreIndexTail, ProducerAt, ProducerTo, queueVars
<1>2. TypeOK /\ IndexInv /\ RingTypes /\ KeyTypes /\ Enqueuing /\ TailKeys /\ tailIndex \in Nat
  BY IndexedTypes DEF Inv, IndexInv
<1>3. producer'.at = "block" /\ producer'.entry = producer.entry
  BY <1>1, <1>2 DEF TypeOK
<1>4. tailIndex % BLOCK_SIZE = 0 /\ tailIndex < MaxItems /\ producer.entry \in DOMAIN entries
  BY <1>1, <1>2 DEF Enqueuing
<1>5. PICK n \in Nat : n = Block(tailIndex)
  BY <1>2, BlockFacts
<1>6. Keyed = n + 1 /\ Tailed = n /\ Keyed' = n + 1 /\ Tailed' = n + 1
  BY <1>1, <1>3, <1>5 DEF Keyed, Tailed, ProducerAt
<1>7. PICK d \in [Nat -> Int], B \in [Nat -> Nat] :
         Rings(d, B) /\ EntryReserved(d) /\ RingsSearched(B)
  BY DEF Inv, IndexInv, Placed
<1>8. t = Place(Ring, d[blockIndex], n) /\ t \in 0..(Ring.capacity - 1)
  BY <1>2, <1>6, <1>7, NextEntry
<1>9. /\ blockIndex \in Nat /\ blockIndex \in DOMAIN headers /\ DOMAIN headers = 1..blockIndex
      /\ DOMAIN entries \subseteq Nat /\ Ring.capacity \in Nat \ {0}
  BY <1>2, RingFacts DEF Ring
<1> DEFINE x == [Ring EXCEPT !.tail = t]
<1>10. /\ Ring \in Header /\ x \in Header /\ x.capacity = Ring.capacity /\ x.index = Ring.index
       /\ x.tail = t /\ headers' = [headers EXCEPT ![blockIndex] = x]
  <2>1. headers \in Seq(Header)
    BY <1>2 DEF RingTypes
  <2>2. Ring \in Header
    BY <1>9, <2>1 DEF Ring
  <2>3. t \in Nat
    BY <1>8, <1>9
  <2> HIDE DEF t
  <2> QED BY <1>1, <2>2, <2>3 DEF Header, Ring
<1> HIDE DEF x, t
<1>11. /\ blockIndex' = blockIndex /\ DOMAIN headers' = DOMAIN headers /\ headers' \in Seq(Header)
       /\ headers' # <<>> /\ Ring' = x
       /\ \A h \in DOMAIN headers : h # blockIndex => headers'[h] = headers[h]
  <2>1. headers \in Seq(Header)
    BY <1>2 DEF RingTypes
  <2>2. PICK L \in Nat : L = blockIndex
    BY <1>9
  <2>3. L \in DOMAIN headers /\ x \in Header /\ headers' = [headers EXCEPT ![L] = x]
    BY <1>9, <1>10, <2>2
  <2>4. /\ headers' \in Seq(Header) /\ Len(headers') = Len(headers)
        /\ DOMAIN headers' = DOMAIN headers /\ headers'[L] = x
        /\ \A h \in DOMAIN headers : h # L => headers'[h] = headers[h]
    <3>1. PICK s, u : s = headers /\ u = headers'
      OBVIOUS
    <3>2. PICK y : y = x
      OBVIOUS
    <3>3. s \in Seq(Header) /\ L \in DOMAIN s /\ y \in Header /\ u = [s EXCEPT ![L] = y]
      BY <2>1, <2>3, <3>1, <3>2
    <3>4. /\ u \in Seq(Header) /\ Len(u) = Len(s) /\ DOMAIN u = DOMAIN s /\ u[L] = y
          /\ \A j \in DOMAIN s : j # L => u[j] = s[j]
      <4>0. s \in Seq(Header)
        BY <3>3
      <4>11. Len(s) \in Nat
        BY ONLY <4>0
      <4>12. DOMAIN s = 1..Len(s)
        BY ONLY <4>0
      <4>13. \A j \in DOMAIN s : s[j] \in Header
        BY ONLY <4>0
      <4>1. Len(s) \in Nat /\ DOMAIN s = 1..Len(s) /\ \A j \in DOMAIN s : s[j] \in Header
        BY ONLY <4>11, <4>12, <4>13
      <4>2. DOMAIN u = DOMAIN s /\ u[L] = y /\ \A j \in DOMAIN s : j # L => u[j] = s[j]
        BY ONLY <3>3
      <4>3. u \in Seq(Header)
        BY ONLY <3>3, <4>1
      <4>4. Len(u) = Len(s)
        BY ONLY <3>3, <4>1, <4>2, <4>3
      <4> QED BY <4>2, <4>3, <4>4
    <3> QED BY <3>1, <3>2, <3>4
  <2>5. blockIndex' = blockIndex
    BY <2>4 DEF blockIndex
  <2>6. headers' # <<>>
    BY <2>3, <2>4
  <2> QED BY <2>2, <2>4, <2>5, <2>6 DEF Ring
<1>12. \A h \in DOMAIN headers : /\ headers'[h].capacity = headers[h].capacity
                                 /\ headers'[h].index = headers[h].index
  BY <1>10, <1>11 DEF Ring
<1>13. \A e, m \in Nat : HasKey(e, m)' <=> HasKey(e, m)
  BY <1>1 DEF HasKey
<1>14. \A e, m \in Nat, b \in Blocks : InIndex(e, m, b)' <=> InIndex(e, m, b)
  BY <1>1, <1>13 DEF InIndex
<1>15. /\ \A m \in Nat : EntryFor(Ring', d[blockIndex'], m) = EntryFor(Ring, d[blockIndex], m)
       /\ \A h \in DOMAIN headers, m \in Nat :
            /\ Place(headers'[h], d[h], m) = Place(headers[h], d[h], m)
            /\ EntryFor(headers'[h], d[h], m) = EntryFor(headers[h], d[h], m)
  BY <1>10, <1>11, <1>12 DEF EntryFor, Place
<1>16. RingTypes'
  <2>1. \A h \in DOMAIN headers' : RingOK(headers[h])'
    <3> SUFFICES ASSUME NEW h \in DOMAIN headers
                 PROVE  /\ headers'[h].capacity \in Nat \ {0}
                        /\ headers'[h].tail \in 0..(headers'[h].capacity - 1)
                        /\ headers'[h].index \in [0..(headers'[h].capacity - 1) -> DOMAIN entries']
      BY <1>11 DEF RingOK
    <3>1. /\ headers[h].capacity \in Nat \ {0}
          /\ headers[h].tail \in 0..(headers[h].capacity - 1)
          /\ headers[h].index \in [0..(headers[h].capacity - 1) -> DOMAIN entries]
      BY <1>2 DEF RingTypes, RingOK
    <3>2. headers'[h].tail \in 0..(headers'[h].capacity - 1)
      BY <1>8, <1>10, <1>11, <1>12, <3>1 DEF Ring
    <3> QED BY <1>1, <1>12, <3>1, <3>2
  <2>2. /\ Ring'.capacity = Len(entries')
        /\ \A p, q \in 0..(Ring'.capacity - 1) : Ring'.index[p] = Ring'.index[q] => p = q
    <3>1. /\ Ring.capacity = Len(entries)
          /\ \A p, q \in 0..(Ring.capacity - 1) : Ring.index[p] = Ring.index[q] => p = q
      BY <1>2 DEF RingTypes
    <3>2. Ring'.capacity = Ring.capacity /\ Ring'.index = Ring.index /\ entries' = entries
      BY <1>1, <1>10, <1>11
    <3> QED BY ONLY <3>1, <3>2
  <2> QED BY <1>11, <2>1, <2>2 DEF RingTypes
<1>17. KeyTypes'
  BY <1>1, <1>2, <1>13 DEF KeyTypes, HasKey
<1>18. Enqueuing'
  BY <1>1, <1>3, <1>4 DEF Enqueuing, ProducerAt
<1>19. /\ producer.entry = EntryFor(Ring, d[blockIndex], n) /\ HasKey(producer.entry, n)
       /\ entries[producer.entry].value = NULL
  BY <1>1, <1>4, <1>5, <1>7, <1>9 DEF EntryReserved, ProducerAt
<1>20. TailKeys'
  <2> SUFFICES ASSUME NEW h \in DOMAIN headers, NEW e \in Nat,
                      e = headers'[h].index[headers'[h].tail]
               PROVE  \E m \in Nat : HasKey(e, m)'
    BY <1>11 DEF TailKeys
  <2>1. CASE h = blockIndex
    <3>1. headers'[h] = x
      BY <1>11, <2>1 DEF Ring
    <3>2. e = Ring.index[Place(Ring, d[blockIndex], n)]
      BY <1>8, <1>10, <3>1
    <3>3. HasKey(e, n)
      BY <1>19, <3>2 DEF EntryFor
    <3> QED BY <1>13, <3>3
  <2>2. CASE h # blockIndex
    <3>1. \E m \in Nat : HasKey(e, m)
      BY <1>2, <1>11, <2>2 DEF TailKeys
    <3> QED BY <1>13, <3>1
  <2> QED BY <2>1, <2>2
<1>21. Rings(d, B)'
  <2>1. \A h \in DOMAIN headers' : h # blockIndex' => B[h] <= Block(tailIndex')
    BY <1>1, <1>7, <1>11 DEF Rings
  <2>2. Ring'.tail = Place(Ring', d[blockIndex'], Tailed' - 1)
    <3>1. Tailed' - 1 = n
      BY <1>6
    <3>2. Place(x, d[blockIndex], n) = Place(Ring, d[blockIndex], n)
      BY <1>10 DEF Place
    <3> QED BY <1>8, <1>10, <1>11, <3>1, <3>2
  <2>3. \A e, m \in Nat : HasKey(e, m)' =>
          /\ m < Keyed' /\ Keyed' <= m + Ring'.capacity
          /\ EntryFor(Ring', d[blockIndex'], m) = e
    BY <1>6, <1>7, <1>10, <1>11, <1>13, <1>15 DEF Rings
  <2>4. \A h \in DOMAIN headers' : \A p \in 0..(headers'[h].capacity - 1), m \in Nat :
          headers'[h].index[p] = EntryFor(Ring', d[blockIndex'], m) =>
              Place(headers'[h], d[h], m) = p
    <3>1. \A h \in DOMAIN headers : \A p \in 0..(headers[h].capacity - 1), m \in Nat :
            headers[h].index[p] = EntryFor(Ring, d[blockIndex], m) =>
                Place(headers[h], d[h], m) = p
      BY <1>7 DEF Rings
    <3> SUFFICES ASSUME NEW h \in DOMAIN headers', NEW p \in 0..(headers'[h].capacity - 1),
                        NEW m \in Nat, headers'[h].index[p] = EntryFor(Ring', d[blockIndex'], m)
                 PROVE  Place(headers'[h], d[h], m) = p
      OBVIOUS
    <3>2. h \in DOMAIN headers /\ p \in 0..(headers[h].capacity - 1)
      BY <1>11, <1>12
    <3>3. headers[h].index[p] = EntryFor(Ring, d[blockIndex], m)
      BY <1>12, <1>15, <3>2
    <3>4. Place(headers[h], d[h], m) = p
      BY ONLY <3>1, <3>2, <3>3
    <3> QED BY <1>15, <3>2, <3>4
  <2>5. \A h \in DOMAIN headers', e, m \in Nat, b \in Blocks :
          InIndex(e, m, b)' /\ h # blockIndex' /\ m < B[h] =>
              EntryFor(headers'[h], d[h], m) = e
    <3>1. \A h \in DOMAIN headers, e, m \in Nat, b \in Blocks :
            InIndex(e, m, b) /\ h # blockIndex /\ m < B[h] => EntryFor(headers[h], d[h], m) = e
      BY <1>7 DEF Rings
    <3> SUFFICES ASSUME NEW h \in DOMAIN headers', NEW e \in Nat, NEW m \in Nat, NEW b \in Blocks,
                        InIndex(e, m, b)', h # blockIndex', m < B[h]
                 PROVE  EntryFor(headers'[h], d[h], m) = e
      OBVIOUS
    <3>2. h \in DOMAIN headers /\ h # blockIndex
      BY <1>11
    <3>3. InIndex(e, m, b)
      BY <1>14
    <3>4. EntryFor(headers[h], d[h], m) = e
      BY ONLY <3>1, <3>2, <3>3, e \in Nat, m \in Nat, b \in Blocks, m < B[h]
    <3> QED BY <1>11, <3>2, <3>4
  <2> QED BY <2>1, <2>2, <2>3, <2>4, <2>5 DEF Rings, Place, EntryFor
<1>22. EntryReserved(d)'
  <2>1. producer'.entry = EntryFor(Ring', d[blockIndex'], Block(tailIndex'))
    BY <1>1, <1>3, <1>5, <1>15, <1>19
  <2>2. entries'[producer'.entry].value = NULL
    BY <1>1, <1>3, <1>19
  <2>3. \A e, m \in Nat : e = producer'.entry /\ m = Block(tailIndex') => HasKey(e, m)'
    BY <1>1, <1>3, <1>5, <1>13, <1>19
  <2>4. EntryReserved(d)' <=>
          (producer'.at \in {"key", "tail", "block", "link"} =>
             /\ producer'.entry = EntryFor(Ring', d[blockIndex'], Block(tailIndex'))
             /\ entries'[producer'.entry].value = NULL
             /\ \A e, m \in Nat : ~ProducerAt("key")' /\ e = producer'.entry /\ m = Block(tailIndex')
                  => HasKey(e, m)')
    BY DEF EntryReserved, EntryFor, Place
  <2> QED BY ONLY <2>1, <2>2, <2>3, <2>4
<1>23. RingsSearched(B)'
  <2>1. \A q \in Readers :
          /\ reader[q].at \in {"position", "key"} =>
               /\ reader[q].header \in DOMAIN headers
               /\ reader[q].header # blockIndex => Block(reader[q].index) < B[reader[q].header]
          /\ reader[q].at = "key" =>
               /\ reader[q].position \in 0..(headers[reader[q].header].capacity - 1)
               /\ \A e \in Nat : e = headers[reader[q].header].index[reader[q].position]
                    => \E m \in Nat : HasKey(e, m)
    BY <1>7 DEF RingsSearched
  <2>2. reader' = reader
    BY <1>1
  <2> SUFFICES ASSUME NEW q \in Readers
               PROVE  /\ reader[q].at \in {"position", "key"} =>
                           /\ reader[q].header \in DOMAIN headers'
                           /\ reader[q].header # blockIndex' => Block(reader[q].index) < B[reader[q].header]
                      /\ reader[q].at = "key" =>
                           /\ reader[q].position \in 0..(headers'[reader[q].header].capacity - 1)
                           /\ \A e \in Nat : e = headers'[reader[q].header].index[reader[q].position]
                                => \E m \in Nat : HasKey(e, m)'
    BY <2>2 DEF RingsSearched
  <2>3. reader[q].at \in {"position", "key"} =>
           /\ reader[q].header \in DOMAIN headers'
           /\ reader[q].header # blockIndex' => Block(reader[q].index) < B[reader[q].header]
    BY ONLY <1>11, <2>1, q \in Readers
  <2>4. ASSUME reader[q].at = "key"
        PROVE  /\ reader[q].position \in 0..(headers'[reader[q].header].capacity - 1)
               /\ \A e \in Nat : e = headers'[reader[q].header].index[reader[q].position]
                    => \E m \in Nat : HasKey(e, m)'
    <3>1. PICK h \in DOMAIN headers : h = reader[q].header
      BY <2>1, <2>4
    <3>2. headers'[h].capacity = headers[h].capacity /\ headers'[h].index = headers[h].index
      BY <1>12
    <3>3. /\ reader[q].position \in 0..(headers[h].capacity - 1)
          /\ \A e \in Nat : e = headers[h].index[reader[q].position] => \E m \in Nat : HasKey(e, m)
      BY ONLY <2>1, <2>4, <3>1, q \in Readers
    <3>4. /\ reader[q].position \in 0..(headers'[h].capacity - 1)
          /\ \A e \in Nat : e = headers'[h].index[reader[q].position] => \E m \in Nat : HasKey(e, m)'
      BY ONLY <1>13, <3>2, <3>3
    <3> QED BY ONLY <3>1, <3>4
  <2> QED BY ONLY <2>3, <2>4
<1>24. IndexInv'
  BY <1>16, <1>17, <1>18, <1>20, <1>21, <1>22, <1>23 DEF IndexInv, Placed
<1>25. IndexSame
  BY <1>1, <1>3, <1>14 DEF IndexSame
<1>26. Claims' /\ Elements' /\ Owners'
  BY <1>1, <1>3, <1>25, QuietKeeps
<1> QED BY <1>24, <1>26

\* A key in an entry without a block: the index has one block more to come.
LEMMA KeyStored ==
    ASSUME TypeOK, NEW e \in DOMAIN entries, NEW k \in Nat, NEW n \in Nat, k = BLOCK_SIZE * n,
           entries[e].value = NULL, entries' = [entries EXCEPT ![e].key = k]
    PROVE  /\ entries' \in Seq(Entry)
           /\ DOMAIN entries' = DOMAIN entries /\ Len(entries') = Len(entries)
           /\ \A f \in DOMAIN entries :
                entries'[f].value = entries[f].value /\ (f # e => entries'[f] = entries[f])
           /\ \A f, m \in Nat : HasKey(f, m)' <=> IF f = e THEN m = n ELSE HasKey(f, m)
           /\ \A f, m \in Nat, b \in Blocks : InIndex(f, m, b)' <=> InIndex(f, m, b)
<1>1. entries \in Seq(Entry)
  BY DEF TypeOK, Entry
<1>2. /\ Len(entries) \in Nat /\ DOMAIN entries = 1..Len(entries)
      /\ \A f \in DOMAIN entries : entries[f] \in Entry
  BY <1>1
<1> DEFINE x == [entries[e] EXCEPT !.key = k]
<1>3. x \in Entry /\ x.key = k /\ x.value = entries[e].value
  BY <1>2 DEF Entry
<1>4. entries' = [entries EXCEPT ![e] = x]
  OBVIOUS
<1> HIDE DEF x
<1>5. /\ DOMAIN entries' = DOMAIN entries /\ entries'[e] = x
      /\ \A f \in DOMAIN entries : f # e => entries'[f] = entries[f]
  BY <1>2, <1>4
<1>6. entries' \in Seq(Entry) /\ Len(entries') = Len(entries)
  BY <1>1, <1>3, <1>4
<1>7. \A f \in DOMAIN entries :
        entries'[f].value = entries[f].value /\ (f # e => entries'[f] = entries[f])
  BY <1>3, <1>5
<1>8. \A m \in Nat : k = BLOCK_SIZE * m <=> m = n
  BY KeysDiffer
<1>9. \A f, m \in Nat : HasKey(f, m)' <=> IF f = e THEN m = n ELSE HasKey(f, m)
  BY <1>3, <1>5, <1>8 DEF HasKey
<1>10. NULL \notin Blocks
  BY BlockTypes DEF NULL
<1>11. \A f, m \in Nat, b \in Blocks : InIndex(f, m, b)' <=> InIndex(f, m, b)
  <2> SUFFICES ASSUME NEW f \in Nat, NEW m \in Nat, NEW b \in Blocks
               PROVE  InIndex(f, m, b)' <=> InIndex(f, m, b)
    OBVIOUS
  <2>1. HasKey(f, m) => f \in DOMAIN entries
    BY DEF HasKey
  <2>2. HasKey(f, m)' => f \in DOMAIN entries
    BY <1>5 DEF HasKey
  <2>3. CASE f = e
    BY <1>7, <1>10, <2>3 DEF InIndex
  <2>4. CASE f # e
    BY <1>7, <1>9, <2>1, <2>2, <2>4 DEF InIndex
  <2> QED BY <2>3, <2>4
<1> QED BY <1>5, <1>6, <1>7, <1>9, <1>11

LEMMA OneRound ==
    ASSUME NEW c \in Nat \ {0}, NEW n \in Int, NEW k \in Int
    PROVE  ((n + c) - k) % c = (n - k) % c
<1>1. PICK u \in Int : u = 1
  OBVIOUS
<1>2. n - k \in Int /\ c * u + (n - k) = (n + c) - k
  BY <1>1
<1>3. (c * u + (n - k)) % c = (n - k) % c
  <2>1. PICK a \in Int : a = n - k
    BY <1>2
  <2>2. (c * u + a) % c = a % c
    BY <1>1, Shift
  <2> QED BY <2>1, <2>2
<1> QED BY <1>2, <1>3

LEMMA StoreKeyKeeps ==
    ASSUME Inv, StoreKey
    PROVE  Claims' /\ IndexInv' /\ Elements' /\ Owners'
<1>1. /\ producer.at = "key" /\ producer' = [producer EXCEPT !.at = "tail"]
      /\ entries' = [entries EXCEPT ![producer.entry].key = tailIndex]
      /\ UNCHANGED <<tailIndex, headIndex, dequeueOptimisticCount, dequeueOvercommit>>
      /\ UNCHANGED <<blockVars, tailBlock, reader, headers>>
  BY DEF StoreKey, ProducerAt, ProducerTo, queueVars
<1>2. TypeOK /\ IndexInv /\ RingTypes /\ KeyTypes /\ Enqueuing /\ TailKeys /\ tailIndex \in Nat
  BY IndexedTypes DEF Inv, IndexInv
<1>3. producer'.at = "tail" /\ producer'.entry = producer.entry
  BY <1>1, <1>2 DEF TypeOK
<1>4. tailIndex % BLOCK_SIZE = 0 /\ tailIndex < MaxItems /\ producer.entry \in DOMAIN entries
  BY <1>1, <1>2 DEF Enqueuing
<1>5. PICK n \in Nat : n = Block(tailIndex)
  BY <1>2, BlockFacts
<1>6. PICK e \in DOMAIN entries : e = producer.entry
  BY <1>4
<1>7. BLOCK_SIZE * n = tailIndex
  BY <1>2, <1>4, <1>5, BlockEnds
<1>8. Keyed = n /\ Tailed = n /\ Keyed' = n + 1 /\ Tailed' = n
  <2>1. Block(tailIndex + BLOCK_SIZE - 1) = n
    BY <1>2, <1>4, <1>5, BlockEnds
  <2>2. Keyed = n /\ Keyed' = n + 1
    BY <1>1, <1>3, <1>5, <2>1 DEF Keyed
  <2> QED BY <1>1, <1>3, <2>2 DEF Tailed, ProducerAt
<1>9. PICK d \in [Nat -> Int], B \in [Nat -> Nat] :
         Rings(d, B) /\ EntryReserved(d) /\ RingsSearched(B)
  BY DEF Inv, IndexInv, Placed
<1>10. e = EntryFor(Ring, d[blockIndex], n) /\ entries[e].value = NULL
  BY <1>1, <1>5, <1>6, <1>9 DEF EntryReserved
<1>11. /\ DOMAIN entries' = DOMAIN entries /\ Len(entries') = Len(entries)
       /\ \A f \in DOMAIN entries :
            entries'[f].value = entries[f].value /\ (f # e => entries'[f] = entries[f])
       /\ \A f, m \in Nat : HasKey(f, m)' <=> IF f = e THEN m = n ELSE HasKey(f, m)
       /\ \A f, m \in Nat, b \in Blocks : InIndex(f, m, b)' <=> InIndex(f, m, b)
  <2>1. PICK k \in Nat : k = tailIndex
    BY <1>2
  <2>2. entries' = [entries EXCEPT ![e].key = k] /\ k = BLOCK_SIZE * n
    BY <1>1, <1>6, <1>7, <2>1
  <2> QED BY <1>2, <1>10, <2>2, KeyStored
<1>12. Ring' = Ring /\ blockIndex' = blockIndex
  BY <1>1 DEF Ring, blockIndex
<1>13. /\ Ring.capacity \in Nat \ {0} /\ DOMAIN entries \subseteq Nat /\ blockIndex \in Nat
  BY <1>2, RingFacts DEF Ring
<1>14. \A f \in Nat : (\E m \in Nat : HasKey(f, m)) => \E m \in Nat : HasKey(f, m)'
  BY <1>11
<1>15. RingTypes'
  <2>1. RingTypes /\ headers' = headers
    BY <1>1, <1>2
  <2> QED BY ONLY <1>11, <1>12, <2>1 DEF RingTypes, RingOK
<1>16. KeyTypes'
  <2> SUFFICES ASSUME NEW f \in DOMAIN entries
               PROVE  \/ entries'[f].key = INVALID_BLOCK_BASE /\ entries'[f].value = NULL
                      \/ \E m \in Nat : HasKey(f, m)'
    BY <1>11 DEF KeyTypes
  <2>1. CASE \E m \in Nat : HasKey(f, m)
    BY <1>13, <1>14, <2>1
  <2>2. CASE f = e
    BY <1>11, <1>13, <2>2
  <2>3. CASE f # e /\ ~\E m \in Nat : HasKey(f, m)
    BY <1>2, <1>11, <2>3 DEF KeyTypes
  <2> QED BY <2>1, <2>2, <2>3
<1>17. Enqueuing'
  BY <1>1, <1>3, <1>4, <1>11 DEF Enqueuing, ProducerAt
<1>18. TailKeys'
  <2> SUFFICES ASSUME NEW h \in DOMAIN headers, NEW f \in Nat, Tailed > 0 \/ h # blockIndex,
                      f = headers[h].index[headers[h].tail]
               PROVE  \E m \in Nat : HasKey(f, m)'
    BY <1>1, <1>8, <1>12 DEF TailKeys
  <2>1. \E m \in Nat : HasKey(f, m)
    BY <1>2 DEF TailKeys
  <2> QED BY <1>14, <2>1
<1>19. Rings(d, B)'
  <2>1. \A h \in DOMAIN headers' : h # blockIndex' => B[h] <= Block(tailIndex')
    BY <1>1, <1>9, <1>12 DEF Rings
  <2>2. Ring'.tail = Place(Ring', d[blockIndex'], Tailed' - 1)
    BY <1>8, <1>9, <1>12 DEF Rings
  <2>3. \A f, m \in Nat : HasKey(f, m)' =>
          /\ m < Keyed' /\ Keyed' <= m + Ring'.capacity
          /\ EntryFor(Ring', d[blockIndex'], m) = f
    <3> SUFFICES ASSUME NEW f \in Nat, NEW m \in Nat, HasKey(f, m)'
                 PROVE  /\ m < n + 1 /\ n + 1 <= m + Ring.capacity
                        /\ EntryFor(Ring, d[blockIndex], m) = f
      BY <1>8, <1>12
    <3>1. CASE f = e
      <4>1. m = n
        BY <1>11, <3>1
      <4>2. n < n + 1 /\ n + 1 <= n + Ring.capacity
        BY <1>13
      <4> QED BY <1>10, <3>1, <4>1, <4>2
    <3>2. CASE f # e
      <4>1. /\ m < n /\ n <= m + Ring.capacity
            /\ EntryFor(Ring, d[blockIndex], m) = f
        BY <1>8, <1>9, <1>11, <3>2 DEF Rings
      <4>2. n # m + Ring.capacity
        <5> SUFFICES ASSUME n = m + Ring.capacity PROVE FALSE
          OBVIOUS
        <5> DEFINE c == Ring.capacity  k == d[blockIndex]
        <5>1. c \in Nat \ {0} /\ k \in Int
          BY <1>13
        <5> HIDE DEF c, k
        <5>2. ((m + c) - k) % c = (m - k) % c
          <6>1. PICK j \in Int : j = m
            OBVIOUS
          <6>2. ((j + c) - k) % c = (j - k) % c
            BY <5>1, OneRound
          <6> QED BY <6>1, <6>2
        <5>3. Place(Ring, d[blockIndex], n) = Place(Ring, d[blockIndex], m)
          BY <5>2 DEF Place, c, k
        <5> QED BY <1>10, <3>2, <4>1, <5>3 DEF EntryFor
      <4> QED BY <1>13, <4>1, <4>2
    <3> QED BY <3>1, <3>2
  <2>4. \A h \in DOMAIN headers' : \A p \in 0..(headers'[h].capacity - 1), m \in Nat :
          headers'[h].index[p] = EntryFor(Ring', d[blockIndex'], m) =>
              Place(headers'[h], d[h], m) = p
    BY <1>1, <1>9, <1>12 DEF Rings
  <2>5. \A h \in DOMAIN headers', f, m \in Nat, b \in Blocks :
          InIndex(f, m, b)' /\ h # blockIndex' /\ m < B[h] =>
              EntryFor(headers'[h], d[h], m) = f
    BY <1>1, <1>9, <1>11, <1>12 DEF Rings
  <2> QED BY <2>1, <2>2, <2>3, <2>4, <2>5 DEF Rings, Place, EntryFor
<1>20. EntryReserved(d)'
  <2>1. producer'.entry = EntryFor(Ring', d[blockIndex'], Block(tailIndex'))
    BY <1>1, <1>3, <1>5, <1>6, <1>10, <1>12
  <2>2. entries'[producer'.entry].value = NULL
    BY <1>3, <1>6, <1>10, <1>11
  <2>3. \A f, m \in Nat : f = producer'.entry /\ m = Block(tailIndex') => HasKey(f, m)'
    BY <1>1, <1>3, <1>5, <1>6, <1>11
  <2> QED BY <2>1, <2>2, <2>3 DEF EntryReserved, EntryFor, Place
<1>21. RingsSearched(B)'
  <2> SUFFICES ASSUME NEW q \in Readers
               PROVE  /\ reader[q].at \in {"position", "key"} =>
                           /\ reader[q].header \in DOMAIN headers
                           /\ reader[q].header # blockIndex =>
                                Block(reader[q].index) < B[reader[q].header]
                      /\ reader[q].at = "key" =>
                           /\ reader[q].position \in 0..(headers[reader[q].header].capacity - 1)
                           /\ \A f \in Nat : f = headers[reader[q].header].index[reader[q].position]
                                => \E m \in Nat : HasKey(f, m)'
    BY <1>1, <1>12 DEF RingsSearched
  <2> QED BY <1>9, <1>14 DEF RingsSearched
<1>22. IndexInv'
  BY <1>15, <1>16, <1>17, <1>18, <1>19, <1>20, <1>21 DEF IndexInv, Placed
<1>23. IndexSame
  BY <1>1, <1>3, <1>11 DEF IndexSame
<1>24. Claims' /\ Elements' /\ Owners'
  BY <1>1, <1>3, <1>23, QuietKeeps
<1> QED BY <1>22, <1>24

\* The ring of twice the capacity: the entries from the oldest on, then new ones.
Doubles(x, h, c) ==
    /\ x.capacity = 2 * c /\ x.tail = c - 1
    /\ x.index \in [0..(2 * c - 1) -> 1..(2 * c)]
    /\ \A i \in 0..(c - 1) :
         /\ (h.tail + 1 + i) % c \in 0..(c - 1)
         /\ x.index[i] = h.index[(h.tail + 1 + i) % c]
         /\ x.index[i] \in 1..c
    /\ \A i \in c..(2 * c - 1) : x.index[i] = i + 1

LEMMA RingDoubled ==
    ASSUME NEW h, NEW c \in Nat \ {0}, h.capacity = c, h.tail \in 0..(c - 1),
           h.index \in [0..(c - 1) -> 1..c]
    PROVE  Doubles(Doubled(h), h, c)
<1> DEFINE t == h.tail  x == Doubled(h)
<1>1. t \in 0..(c - 1) /\ c \in Nat \ {0}
  OBVIOUS
<1>2. /\ x.capacity = 2 * c /\ x.tail = c - 1
      /\ x.index = [i \in 0..(2 * c - 1) |-> IF i < c THEN h.index[(t + 1 + i) % c] ELSE i + 1]
  BY DEF Doubled
<1> HIDE DEF t, x
<1>3. ASSUME NEW i \in 0..(c - 1) PROVE (t + 1 + i) % c \in 0..(c - 1)
  <2>1. PICK a \in Int : a = t + 1 + i
    BY <1>1
  <2>2. a % c \in 0..(c - 1)
    BY <1>1, Remainder
  <2> QED BY <2>1, <2>2
<1>4. ASSUME NEW i \in 0..(c - 1)
      PROVE  x.index[i] = h.index[(t + 1 + i) % c] /\ x.index[i] \in 1..c
  <2>1. i \in 0..(2 * c - 1) /\ i < c
    BY <1>1
  <2>2. x.index[i] = h.index[(t + 1 + i) % c]
    BY <1>2, <2>1
  <2> QED BY <1>3, <2>2
<1>5. ASSUME NEW i \in c..(2 * c - 1) PROVE x.index[i] = i + 1 /\ x.index[i] \in 1..(2 * c)
  <2>1. i \in 0..(2 * c - 1) /\ ~(i < c) /\ i + 1 \in 1..(2 * c)
    BY <1>1
  <2> QED BY <1>2, <2>1
<1>6. x.index \in [0..(2 * c - 1) -> 1..(2 * c)]
  <2>1. ASSUME NEW i \in 0..(2 * c - 1) PROVE x.index[i] \in 1..(2 * c)
    <3>1. CASE i < c
      <4>1. i \in 0..(c - 1)
        BY <1>1, <3>1
      <4>2. x.index[i] \in 1..c
        BY <1>4, <4>1
      <4> QED BY <1>1, <4>2
    <3>2. CASE ~(i < c)
      <4>1. i \in c..(2 * c - 1)
        BY <1>1, <3>2
      <4> QED BY <1>5, <4>1
    <3> QED BY <3>1, <3>2
  <2>2. \E f : x.index = [i \in 0..(2 * c - 1) |-> f[i]]
    <3>1. x.index = [i \in 0..(2 * c - 1) |-> x.index[i]]
      BY <1>2
    <3> QED BY <3>1
  <2> QED BY <2>1, <2>2
<1> QED BY <1>2, <1>3, <1>4, <1>5, <1>6 DEF Doubles, t, x

OneToOne(x, c) ==
    \A i, j \in 0..(2 * c - 1) : x.index[i] = x.index[j] /\ i <= j => i = j

LEMMA DoubledInjective ==
    ASSUME NEW h, NEW c \in Nat \ {0}, h.tail \in 0..(c - 1),
           \A p, q \in 0..(c - 1) : h.index[p] = h.index[q] => p = q,
           NEW x, Doubles(x, h, c)
    PROVE  OneToOne(x, c)
<1> SUFFICES ASSUME NEW i \in 0..(2 * c - 1), NEW j \in 0..(2 * c - 1),
                    x.index[i] = x.index[j], i <= j
             PROVE  i = j
  BY DEF OneToOne
<1>1. CASE j < c
  <2>1. i \in 0..(c - 1) /\ j \in 0..(c - 1)
    BY <1>1
  <2>2. (h.tail + 1 + i) % c = (h.tail + 1 + j) % c
    <3> DEFINE From(m) == (h.tail + 1 + m) % c
    <3>1. \A m \in 0..(c - 1) : From(m) \in 0..(c - 1) /\ x.index[m] = h.index[From(m)]
      BY DEF Doubles
    <3> HIDE DEF From
    <3>2. From(i) \in 0..(c - 1) /\ x.index[i] = h.index[From(i)]
      BY ONLY <2>1, <3>1
    <3>3. From(j) \in 0..(c - 1) /\ x.index[j] = h.index[From(j)]
      BY ONLY <2>1, <3>1
    <3>4. \A p, q \in 0..(c - 1) : h.index[p] = h.index[q] => p = q
      OBVIOUS
    <3>5. x.index[i] = x.index[j]
      OBVIOUS
    <3>6. From(i) = From(j)
      BY ONLY <3>2, <3>3, <3>4, <3>5
    <3> QED BY <3>6 DEF From
  <2>3. PICK a \in Int, b \in Int : a = h.tail + 1 + i /\ b = h.tail + 1 + j
    OBVIOUS
  <2>4. a <= b /\ b < a + c
    BY <2>1, <2>3
  <2>5. a = b
    BY <2>2, <2>3, <2>4, Apart
  <2> QED BY <2>3, <2>5
<1>2. CASE i < c /\ ~(j < c)
  <2>1. i \in 0..(c - 1) /\ j \in c..(2 * c - 1)
    BY <1>2
  <2>2. x.index[i] \in 1..c /\ x.index[j] = j + 1
    BY <2>1 DEF Doubles
  <2> QED BY <1>2, <2>2
<1>3. CASE ~(i < c)
  <2>1. i \in c..(2 * c - 1) /\ j \in c..(2 * c - 1)
    BY <1>3
  <2>2. x.index[i] = i + 1 /\ x.index[j] = j + 1
    BY <2>1 DEF Doubles
  <2>3. i + 1 = j + 1
    BY <2>2
  <2> QED BY <2>3
<1> QED BY <1>1, <1>2, <1>3

Twice(c, m, k, n, q) == ((((m - 1) - k) % c) + 1 + q) % c = (n - k) % c

LEMMA TwiceAround ==
    ASSUME NEW c \in Nat \ {0}, NEW m \in Int, NEW k \in Int, NEW n \in Int,
           NEW q \in Int, q = (n - (m - c)) % (2 * c)
    PROVE  Twice(c, m, k, n, q)
<1> SUFFICES ((((m - 1) - k) % c) + 1 + q) % c = (n - k) % c
  BY DEF Twice
<1>1. PICK a \in Int, w \in Nat \ {0} : a = n - (m - c) /\ w = 2 * c
  OBVIOUS
<1>2. PICK l \in Int : w * l \in Int /\ a = w * l + q
  <2>1. /\ a % w \in 0..(w - 1) /\ a \div w \in Int
        /\ w * (a \div w) \in Int
        /\ a = w * (a \div w) + (a % w)
    BY Remainder
  <2> QED BY <1>1, <2>1
<1>3. PICK u \in Int : u = 2 * l - 1
  OBVIOUS
<1>4. w * l = c * u + c /\ c * u \in Int
  <2>1. w * l = 2 * (c * l) /\ c * l \in Int
    BY <1>1
  <2>2. c * u = 2 * (c * l) - c
    BY <1>3
  <2> QED BY <2>1, <2>2
<1> DEFINE v == c * u  y == w * l
<1>5. v \in Int /\ y = v + c /\ a = y + q
  BY <1>2, <1>4
<1> HIDE DEF v, y
<1>6. PICK g \in Int, s \in Int : g = (m - 1) - k /\ s = 1 + q
  OBVIOUS
<1>7. n - k = v + (g + s)
  <2>1. c \in Int /\ m \in Int /\ k \in Int /\ n \in Int /\ q \in Int /\ v \in Int
        /\ g = (m - 1) - k /\ s = 1 + q /\ a = n - (m - c) /\ a = (v + c) + q
    BY <1>1, <1>5, <1>6
  <2> QED BY ONLY <2>1
<1>8. ((g % c) + s) % c = (g + s) % c
  BY Added
<1>9. (v + (g + s)) % c = (g + s) % c
  <2>1. PICK z \in Int : z = g + s
    OBVIOUS
  <2>2. (c * u + z) % c = z % c
    BY Shift
  <2> QED BY <2>1, <2>2 DEF v
<1>10. g % c \in Int
  BY Remainder
<1>11. (g % c) + 1 + q = (g % c) + s
  BY <1>6, <1>10
<1> QED BY <1>6, <1>7, <1>8, <1>9, <1>11

\* The block of number m is the first that gets a new entry.
NewPlaces(x, h, c, k, m) ==
    /\ \A n \in Int :
         /\ Place(x, m - c, n) \in 0..(2 * c - 1)
         /\ Place(x, m - c, n) < c =>
              /\ EntryFor(x, m - c, n) = EntryFor(h, k, n)
              /\ EntryFor(x, m - c, n) \in 1..c
         /\ ~(Place(x, m - c, n) < c) => EntryFor(x, m - c, n) \notin 1..c
         /\ n < m /\ m <= n + c => Place(x, m - c, n) < c
    /\ Place(x, m - c, m - 1) = x.tail
    /\ EntryFor(x, m - c, m) = c + 1
    /\ x.index[x.tail] = h.index[h.tail]

LEMMA DoubledPlaces ==
    ASSUME NEW h, NEW c \in Nat \ {0}, h.capacity = c, NEW x, Doubles(x, h, c),
           NEW m \in Int, NEW k \in Int, h.tail = ((m - 1) - k) % c
    PROVE  NewPlaces(x, h, c, k, m)
<1>0. PICK w \in Nat \ {0} : w = 2 * c
  OBVIOUS
<1>1. x.capacity = w /\ x.tail = c - 1
  BY <1>0 DEF Doubles
<1>2. ASSUME NEW n \in Int, NEW q \in Int, q = Place(x, m - c, n)
      PROVE  /\ q \in 0..(2 * c - 1)
             /\ q < c => /\ EntryFor(x, m - c, n) = EntryFor(h, k, n)
                         /\ EntryFor(x, m - c, n) \in 1..c
             /\ ~(q < c) => EntryFor(x, m - c, n) \notin 1..c
  <2>1. PICK a \in Int : a = n - (m - c)
    OBVIOUS
  <2>2. q = a % w
    BY <1>1, <1>2, <2>1 DEF Place
  <2>3. q \in 0..(w - 1)
    BY <2>2, Remainder
  <2>4. ASSUME q < c PROVE EntryFor(x, m - c, n) = EntryFor(h, k, n) /\ EntryFor(x, m - c, n) \in 1..c
    <3>1. q \in 0..(c - 1)
      BY <2>3, <2>4
    <3>2. x.index[q] = h.index[(h.tail + 1 + q) % c] /\ x.index[q] \in 1..c
      BY <3>1 DEF Doubles
    <3>3. q = (n - (m - c)) % (2 * c)
      BY <1>0, <2>1, <2>2
    <3>4. (h.tail + 1 + q) % c = (n - k) % c
      <4>1. Twice(c, m, k, n, q)
        BY <3>3, TwiceAround
      <4> QED BY <4>1 DEF Twice
    <3> QED BY <1>2, <3>2, <3>4 DEF EntryFor, Place
  <2>5. ASSUME ~(q < c) PROVE EntryFor(x, m - c, n) \notin 1..c
    <3>1. q \in c..(2 * c - 1)
      BY <1>0, <2>3, <2>5
    <3>2. x.index[q] = q + 1
      BY <3>1 DEF Doubles
    <3> QED BY <1>2, <2>5, <3>2 DEF EntryFor
  <2> QED BY <1>0, <2>3, <2>4, <2>5
<1>3. ASSUME NEW n \in Int, NEW p \in 0..(w - 1), p = n - (m - c)
      PROVE  Place(x, m - c, n) = p
  BY <1>1, <1>3, SmallRemainder DEF Place
<1>4. ASSUME NEW n \in Int, n < m, m <= n + c PROVE Place(x, m - c, n) < c
  <2>1. PICK p \in 0..(w - 1) : p = n - (m - c) /\ p < c
    <3>1. n - (m - c) \in 0..(w - 1) /\ n - (m - c) < c
      BY <1>0, <1>4
    <3> QED BY <3>1
  <2> QED BY <1>3, <2>1
<1>5. \A n \in Int : Place(x, m - c, n) \in Int
  <2> SUFFICES ASSUME NEW n \in Int PROVE Place(x, m - c, n) \in Int
    OBVIOUS
  <2>1. PICK a \in Int : a = n - (m - c)
    OBVIOUS
  <2>2. a % w \in 0..(w - 1)
    BY Remainder
  <2> QED BY <1>1, <2>1, <2>2 DEF Place
<1>6. Place(x, m - c, m - 1) = x.tail
  <2>1. PICK n \in Int, p \in 0..(w - 1) : n = m - 1 /\ p = c - 1 /\ p = n - (m - c)
    BY <1>0
  <2>2. Place(x, m - c, n) = p
    BY <1>3, <2>1
  <2> QED BY <1>1, <2>1, <2>2
<1>7. EntryFor(x, m - c, m) = c + 1
  <2>1. PICK p \in 0..(w - 1) : p = c /\ p = m - (m - c)
    BY <1>0
  <2>2. Place(x, m - c, m) = p
    BY <1>3, <2>1
  <2>3. c \in c..(2 * c - 1)
    OBVIOUS
  <2>4. x.index[c] = c + 1
    BY <2>3 DEF Doubles
  <2> QED BY <2>1, <2>2, <2>4 DEF EntryFor
<1>8. x.index[x.tail] = h.index[h.tail]
  <2>1. PICK n \in Int, q \in Int : n = m - 1 /\ q = c - 1 /\ q = Place(x, m - c, n)
    BY <1>1, <1>6
  <2>2. EntryFor(x, m - c, n) = EntryFor(h, k, n)
    BY <1>2, <2>1
  <2>3. EntryFor(x, m - c, n) = x.index[x.tail] /\ EntryFor(h, k, n) = h.index[h.tail]
    BY <1>1, <2>1 DEF EntryFor, Place
  <2> QED BY <2>2, <2>3
<1>9. ASSUME NEW n \in Int
      PROVE  /\ Place(x, m - c, n) \in 0..(2 * c - 1)
             /\ Place(x, m - c, n) < c =>
                  /\ EntryFor(x, m - c, n) = EntryFor(h, k, n)
                  /\ EntryFor(x, m - c, n) \in 1..c
             /\ ~(Place(x, m - c, n) < c) => EntryFor(x, m - c, n) \notin 1..c
  <2>1. PICK q \in Int : q = Place(x, m - c, n)
    BY <1>5
  <2> QED BY <1>2, <2>1
<1> QED BY <1>4, <1>6, <1>7, <1>8, <1>9 DEF NewPlaces

LEMMA IndexGrown ==
    ASSUME TypeOK, RingTypes, NewBlockIndex, NEW c \in Nat, c = Ring.capacity,
           NEW L \in Nat, L = blockIndex, NEW x, x = Doubled(Ring)
    PROVE  /\ c > 0 /\ Doubles(x, Ring, c)
           /\ blockIndex' = L + 1 /\ DOMAIN headers' = 1..(L + 1) /\ headers' \in Seq(Header)
           /\ headers'[L + 1] = x /\ \A g \in 1..L : headers'[g] = headers[g]
           /\ Len(entries') = 2 * c /\ DOMAIN entries' = 1..(2 * c) /\ entries' \in Seq(Entry)
           /\ \A e \in 1..c : entries'[e] = entries[e]
           /\ \A e \in (c + 1)..(2 * c) :
                entries'[e].key = INVALID_BLOCK_BASE /\ entries'[e].value = NULL
           /\ producer' = [producer EXCEPT !.at = "key", !.entry = c + 1]
<1>1. /\ headers' = Append(headers, x)
      /\ entries' = entries \o NewEntries(x.capacity - Len(entries))
      /\ producer' = [producer EXCEPT !.at = "key", !.entry = x.index[(x.tail + 1) % x.capacity]]
  BY DEF NewBlockIndex, Ring
<1>2. /\ L \in Nat \ {0} /\ DOMAIN headers = 1..L /\ L \in DOMAIN headers
      /\ Len(entries) = c /\ DOMAIN entries = 1..c
  BY RingFacts DEF Ring
<1>3. c > 0 /\ Ring.tail \in 0..(c - 1) /\ Ring.index \in [0..(c - 1) -> 1..c]
  <2>1. RingOK(Ring)
    BY <1>2 DEF RingTypes, Ring
  <2> QED BY <1>2, <2>1 DEF RingOK
<1>4. Doubles(x, Ring, c)
  <2>1. PICK h : h = Ring
    OBVIOUS
  <2>2. Doubles(Doubled(h), h, c)
    BY <1>3, <2>1, RingDoubled
  <2> QED BY <2>1, <2>2
<1>5. x.capacity = 2 * c /\ x.tail = c - 1 /\ x.index \in [0..(2 * c - 1) -> 1..(2 * c)]
      /\ x.index[c] = c + 1
  <2>1. c \in c..(2 * c - 1)
    BY <1>3
  <2> QED BY <1>4, <2>1 DEF Doubles
<1>6. x \in Header
  <2>1. PICK a, b, f : x = [capacity |-> a, tail |-> b, index |-> f]
    BY DEF Doubled
  <2>2. PICK T \in SUBSET Nat : T = 0..(2 * c - 1)
    OBVIOUS
  <2>3. f \in [T -> 1..(2 * c)] /\ 1..(2 * c) \subseteq Nat
    BY <1>5, <2>1, <2>2
  <2>4. f \in [T -> Nat]
    BY <2>3
  <2>5. f \in UNION {[S -> Nat] : S \in SUBSET Nat}
    BY <2>4
  <2>6. a \in Nat /\ b \in Nat
    BY <1>3, <1>5, <2>1
  <2> QED BY <2>1, <2>5, <2>6 DEF Header
<1>7. /\ blockIndex' = L + 1 /\ DOMAIN headers' = 1..(L + 1) /\ headers' \in Seq(Header)
      /\ headers'[L + 1] = x /\ \A g \in 1..L : headers'[g] = headers[g]
  <2>1. headers \in Seq(Header) /\ Len(headers) = L
    BY DEF RingTypes, blockIndex
  <2>2. headers' \in Seq(Header)
    BY <1>1, <1>6, <2>1
  <2>3. Len(headers') = L + 1 /\ headers'[L + 1] = x /\ DOMAIN headers' = 1..(L + 1)
    BY <1>1, <2>1
  <2>4. \A g \in 1..L : headers'[g] = headers[g]
    BY <1>1, <2>1
  <2> QED BY <2>2, <2>3, <2>4 DEF blockIndex
<1> DEFINE y == NewEntries(c)
<1>8. /\ y \in Seq(Entry) /\ Len(y) = c
      /\ \A i \in 1..c : y[i].key = INVALID_BLOCK_BASE /\ y[i].value = NULL
  <2> DEFINE z == [key |-> INVALID_BLOCK_BASE, value |-> NULL]
  <2>1. z \in Entry /\ z.key = INVALID_BLOCK_BASE /\ z.value = NULL
    BY DEF Entry, INVALID_BLOCK_BASE, NULL
  <2>2. y = [i \in 1..c |-> z]
    BY DEF NewEntries
  <2> HIDE DEF z, y
  <2>3. y \in Seq(Entry) /\ Len(y) = c
    BY <2>1, <2>2
  <2> QED BY <2>1, <2>2, <2>3
<1>9. entries' = entries \o y
  <2>1. x.capacity - Len(entries) = c
    BY <1>2, <1>5
  <2> QED BY <1>1, <2>1
<1> HIDE DEF y
<1>10. /\ Len(entries') = 2 * c /\ DOMAIN entries' = 1..(2 * c) /\ entries' \in Seq(Entry)
       /\ \A e \in 1..c : entries'[e] = entries[e]
       /\ \A e \in (c + 1)..(2 * c) :
            entries'[e].key = INVALID_BLOCK_BASE /\ entries'[e].value = NULL
  <2>1. entries \in Seq(Entry)
    BY DEF TypeOK, Entry
  <2>2. entries' \in Seq(Entry)
    <3>1. y \in Seq(Entry)
      BY <1>8
    <3> QED BY ONLY <1>9, <2>1, <3>1
  <2>3. Len(entries') = 2 * c
    <3>1. y \in Seq(Entry) /\ Len(y) = c
      BY <1>8
    <3>2. Len(entries) = c /\ c \in Nat
      BY <1>2
    <3>3. Len(entries \o y) = Len(entries) + Len(y)
      BY ONLY <2>1, <3>1
    <3> QED BY ONLY <1>9, <3>1, <3>2, <3>3
  <2>4. \A e \in 1..c : entries'[e] = entries[e]
    BY <1>2, <1>8, <1>9, <2>1
  <2>5. ASSUME NEW e \in (c + 1)..(2 * c)
        PROVE  entries'[e].key = INVALID_BLOCK_BASE /\ entries'[e].value = NULL
    <3>1. y \in Seq(Entry) /\ Len(y) = c
      BY <1>8
    <3>2. Len(entries) = c /\ c \in Nat
      BY <1>2
    <3>3. PICK k \in 1..c : k = e - c
      BY ONLY <3>2, e \in (c + 1)..(2 * c)
    <3>4. e \in (Len(entries) + 1)..(Len(entries) + Len(y))
      BY ONLY <3>1, <3>2, e \in (c + 1)..(2 * c)
    <3>5. (entries \o y)[e] = y[e - Len(entries)]
      BY ONLY <2>1, <3>1, <3>4
    <3>6. entries'[e] = y[k]
      BY ONLY <1>9, <3>2, <3>3, <3>5
    <3> QED BY <1>8, <3>3, <3>6
  <2>6. DOMAIN entries' = 1..(2 * c)
    BY <2>2, <2>3
  <2> QED BY <2>2, <2>3, <2>4, <2>5, <2>6
<1>11. (x.tail + 1) % x.capacity = c
  <2>0. PICK w \in Nat \ {0} : w = 2 * c
    BY <1>3
  <2>1. PICK r \in 0..(w - 1) : r = c
    BY <1>3, <2>0
  <2>2. r % w = r
    BY SmallRemainder
  <2> QED BY <1>5, <2>0, <2>1, <2>2
<1> QED BY <1>1, <1>3, <1>4, <1>5, <1>7, <1>10, <1>11

LEMMA NewBlockIndexKeeps ==
    ASSUME Inv, NewBlockIndex
    PROVE  Claims' /\ IndexInv' /\ Elements' /\ Owners'
<1>1. /\ producer.at = "grow"
      /\ UNCHANGED <<tailIndex, headIndex, dequeueOptimisticCount, dequeueOvercommit>>
      /\ UNCHANGED <<blockVars, tailBlock, reader>>
  BY DEF NewBlockIndex, ProducerAt, queueVars
<1>2. TypeOK /\ IndexInv /\ RingTypes /\ KeyTypes /\ Enqueuing /\ TailKeys /\ tailIndex \in Nat
  BY IndexedTypes DEF Inv, IndexInv
<1>3. tailIndex % BLOCK_SIZE = 0 /\ tailIndex < MaxItems /\ Tailed > 0
  BY <1>1, <1>2 DEF Enqueuing, ProducerAt
<1>4. PICK n \in Nat : n = Block(tailIndex)
  BY <1>2, BlockFacts
<1>5. PICK d \in [Nat -> Int], B \in [Nat -> Nat] :
         Rings(d, B) /\ EntryReserved(d) /\ RingsSearched(B)
  BY DEF Inv, IndexInv, Placed
<1>40. PICK h, x : h = Ring /\ x = Doubled(Ring)
  OBVIOUS
<1>6. PICK L \in Nat, c \in Nat : L = blockIndex /\ c = Ring.capacity /\ h = Ring /\ x = Doubled(Ring)
  BY <1>2, <1>40, RingFacts DEF Ring
<1>7. /\ c > 0 /\ Doubles(x, h, c)
      /\ blockIndex' = L + 1 /\ DOMAIN headers' = 1..(L + 1) /\ headers' \in Seq(Header)
      /\ headers'[L + 1] = x /\ \A g \in 1..L : headers'[g] = headers[g]
      /\ Len(entries') = 2 * c /\ DOMAIN entries' = 1..(2 * c) /\ entries' \in Seq(Entry)
      /\ \A e \in 1..c : entries'[e] = entries[e]
      /\ \A e \in (c + 1)..(2 * c) :
           entries'[e].key = INVALID_BLOCK_BASE /\ entries'[e].value = NULL
      /\ producer' = [producer EXCEPT !.at = "key", !.entry = c + 1]
  BY <1>2, <1>6, IndexGrown
<1>30. c \in Nat \ {0} /\ Doubles(x, h, c) /\ x.capacity = 2 * c /\ x.tail = c - 1
       /\ x.index \in [0..(2 * c - 1) -> 1..(2 * c)]
  <2>1. c \in Nat \ {0}
    BY <1>7
  <2>2. Doubles(x, h, c)
    BY <1>7
  <2> QED BY ONLY <2>1, <2>2 DEF Doubles
<1>31. /\ blockIndex' = L + 1 /\ DOMAIN headers' = 1..(L + 1) /\ headers' \in Seq(Header)
       /\ headers'[L + 1] = x /\ \A g \in 1..L : headers'[g] = headers[g]
  BY <1>7
<1>32. /\ Len(entries') = 2 * c /\ DOMAIN entries' = 1..(2 * c)
       /\ \A e \in 1..c : entries'[e] = entries[e]
       /\ \A e \in (c + 1)..(2 * c) :
            entries'[e].key = INVALID_BLOCK_BASE /\ entries'[e].value = NULL
  BY <1>7
<1>8. producer'.at = "key" /\ producer'.entry = c + 1
  BY <1>2, <1>7 DEF TypeOK
<1>9. Keyed = n /\ Tailed = n /\ Keyed' = n /\ Tailed' = n
  <2>1. Block(tailIndex + BLOCK_SIZE - 1) = n
    BY <1>2, <1>3, <1>4, BlockEnds
  <2> QED BY <1>1, <1>8, <2>1 DEF Keyed, Tailed, ProducerAt
<1>10. PICK k \in Int : k = d[L]
  OBVIOUS
<1>11. /\ DOMAIN headers = 1..L /\ L \in 1..L /\ headers[L] = h /\ Len(entries) = c
       /\ DOMAIN entries = 1..c /\ h.capacity = c /\ h.tail \in 0..(c - 1)
       /\ h.index \in [0..(c - 1) -> 1..c]
       /\ \A p, q \in 0..(c - 1) : h.index[p] = h.index[q] => p = q
  <2>1. /\ DOMAIN headers = 1..L /\ L \in 1..L /\ headers[L] = h /\ Len(entries) = c
        /\ DOMAIN entries = 1..c /\ h.capacity = c
    BY <1>2, <1>6, RingFacts DEF Ring
  <2>2. RingOK(h)
    BY <1>2, <2>1 DEF RingTypes
  <2>3. \A p, q \in 0..(c - 1) : h.index[p] = h.index[q] => p = q
    BY <1>2, <1>6 DEF RingTypes
  <2> QED BY <2>1, <2>2, <2>3 DEF RingOK
<1>12. h.tail = ((n - 1) - k) % c
  BY <1>5, <1>6, <1>9, <1>10 DEF Rings, Place
<1>13. /\ \A m \in Int :
            /\ Place(x, n - c, m) \in 0..(2 * c - 1)
            /\ Place(x, n - c, m) < c =>
                 /\ EntryFor(x, n - c, m) = EntryFor(h, k, m)
                 /\ EntryFor(x, n - c, m) \in 1..c
            /\ ~(Place(x, n - c, m) < c) => EntryFor(x, n - c, m) \notin 1..c
            /\ m < n /\ n <= m + c => Place(x, n - c, m) < c
       /\ Place(x, n - c, n - 1) = x.tail
       /\ EntryFor(x, n - c, n) = c + 1
       /\ x.index[x.tail] = h.index[h.tail]
  <2>1. PICK m1 \in Int : m1 = n
    OBVIOUS
  <2>2. c \in Nat \ {0} /\ h.capacity = c /\ Doubles(x, h, c) /\ h.tail = ((m1 - 1) - k) % c
    BY <1>11, <1>12, <1>30, <2>1
  <2>3. NewPlaces(x, h, c, k, m1)
    BY <2>2, DoubledPlaces
  <2>4. NewPlaces(x, h, c, k, n)
    BY <2>1, <2>3
  <2> QED BY <2>4 DEF NewPlaces
<1>29. \A i, j \in 0..(2 * c - 1) : x.index[i] = x.index[j] /\ i <= j => i = j
  <2>1. OneToOne(x, c)
    BY <1>11, <1>30, DoubledInjective
  <2> QED BY <2>1 DEF OneToOne
<1>14. PICK d1 \in [Nat -> Int] : d1 = [d EXCEPT ![L + 1] = n - c]
  <2>1. n - c \in Int
    OBVIOUS
  <2>2. [d EXCEPT ![L + 1] = n - c] \in [Nat -> Int]
    BY <2>1
  <2> QED BY <2>2
<1>15. PICK B1 \in [Nat -> Nat] : B1 = [B EXCEPT ![L] = n]
  OBVIOUS
<1>16. /\ d1[L + 1] = n - c /\ \A g \in 1..L : d1[g] = d[g]
       /\ B1[L] = n /\ \A g \in 1..L : g # L => B1[g] = B[g]
  BY <1>14, <1>15
<1>17. /\ \A e, m \in Nat : HasKey(e, m)' <=> HasKey(e, m)
       /\ \A e, m \in Nat : HasKey(e, m) => e \in 1..c
       /\ \A e, m \in Nat, b \in Blocks : InIndex(e, m, b)' <=> InIndex(e, m, b)
  <2>1. \A e, m \in Nat : HasKey(e, m) => e \in 1..c
    BY <1>11 DEF HasKey
  <2>2. \A e \in 1..(2 * c) : e \in 1..c \/ e \in (c + 1)..(2 * c)
    OBVIOUS
  <2>3. \A e, m \in Nat : HasKey(e, m)' => e \in 1..c
    <3>1. \A m \in Nat : BLOCK_SIZE * m # INVALID_BLOCK_BASE
      BY KeysDiffer
    <3>2. \A e \in (c + 1)..(2 * c), m \in Nat : entries'[e].key # BLOCK_SIZE * m
      BY <1>32, <3>1
    <3> QED BY <1>32, <2>2, <3>2 DEF HasKey
  <2>4. \A e \in 1..c : e \in 1..(2 * c)
    OBVIOUS
  <2>5. \A e, m \in Nat : HasKey(e, m)' <=> HasKey(e, m)
    BY <1>32, <1>11, <2>1, <2>3, <2>4 DEF HasKey
  <2>6. \A e, m \in Nat, b \in Blocks : InIndex(e, m, b)' <=> InIndex(e, m, b)
    BY <1>32, <2>1, <2>5 DEF InIndex
  <2> QED BY <2>1, <2>5, <2>6
<1>18. Ring' = x
  BY <1>7 DEF Ring
<1>19. RingTypes'
  <2>1. x.capacity = 2 * c /\ x.tail = c - 1 /\ x.index \in [0..(2 * c - 1) -> 1..(2 * c)]
    BY <1>30
  <2>2. ASSUME NEW g \in DOMAIN headers' PROVE RingOK(headers[g])'
    <3>1. CASE g = L + 1
      <4>1. x.capacity \in Nat \ {0} /\ x.tail \in 0..(x.capacity - 1)
        BY <1>30
      <4> QED BY <1>31, <1>32, <2>1, <3>1, <4>1 DEF RingOK
    <3>2. CASE g # L + 1
      <4>0. g \in 1..(L + 1)
        BY <1>31
      <4>1. g \in 1..L
        BY <3>2, <4>0
      <4>2. headers'[g] = headers[g] /\ RingOK(headers[g])
        BY <1>2, <1>31, <1>11, <4>1 DEF RingTypes
      <4>3. 1..c \subseteq 1..(2 * c)
        OBVIOUS
      <4>4. headers[g].index \in [0..(headers[g].capacity - 1) -> DOMAIN entries']
        <5>1. headers[g].index \in [0..(headers[g].capacity - 1) -> 1..c]
          BY <1>11, <4>2 DEF RingOK
        <5> QED BY <1>32, <4>3, <5>1
      <4> QED BY <4>2, <4>4 DEF RingOK
    <3> QED BY <3>1, <3>2
  <2>3. \A p, q \in 0..(x.capacity - 1) : x.index[p] = x.index[q] => p = q
    <3> SUFFICES ASSUME NEW p \in 0..(2 * c - 1), NEW q \in 0..(2 * c - 1), x.index[p] = x.index[q]
                 PROVE  p = q
      BY <2>1
    <3>1. CASE p <= q
      BY <1>29, <3>1
    <3>2. CASE q <= p
      BY <1>29, <3>2
    <3> QED BY <3>1, <3>2
  <2>4. headers' # <<>>
    BY <1>31
  <2> QED BY <1>31, <1>32, <1>18, <2>1, <2>2, <2>3, <2>4 DEF RingTypes
<1>20. KeyTypes'
  <2> SUFFICES ASSUME NEW e \in 1..(2 * c)
               PROVE  \/ entries'[e].key = INVALID_BLOCK_BASE /\ entries'[e].value = NULL
                      \/ \E m \in Nat : HasKey(e, m)'
    BY <1>32 DEF KeyTypes
  <2>1. CASE e \in 1..c
    <3>1. e \in Nat
      OBVIOUS
    <3>2. \/ entries[e].key = INVALID_BLOCK_BASE /\ entries[e].value = NULL
          \/ \E m \in Nat : HasKey(e, m)
      BY <1>2, <1>11, <2>1 DEF KeyTypes
    <3> QED BY <1>32, <1>17, <2>1, <3>1, <3>2
  <2>2. CASE e \in (c + 1)..(2 * c)
    BY <1>32, <2>2
  <2> QED BY <2>1, <2>2
<1>21. c + 1 \in 1..(2 * c) /\ c + 1 \in (c + 1)..(2 * c)
  BY <1>30
<1>22. Enqueuing'
  BY <1>1, <1>3, <1>32, <1>8, <1>21 DEF Enqueuing, ProducerAt
<1>23. TailKeys'
  <2> SUFFICES ASSUME NEW g \in 1..(L + 1), NEW e \in Nat, e = headers'[g].index[headers'[g].tail]
               PROVE  \E m \in Nat : HasKey(e, m)
    BY <1>31, <1>17 DEF TailKeys
  <2>1. PICK f \in 1..L : e = headers[f].index[headers[f].tail]
    <3>1. CASE g = L + 1
      BY <1>31, <1>11, <1>13, <3>1
    <3>2. CASE g # L + 1
      <4>1. g \in 1..L
        BY <3>2
      <4> QED BY <1>31, <4>1
    <3> QED BY <3>1, <3>2
  <2> QED BY <1>2, <1>3, <1>11, <2>1 DEF TailKeys
<1>24. Rings(d1, B1)'
  <2>1. \A g \in DOMAIN headers' : g # blockIndex' => B1[g] <= Block(tailIndex')
    <3> SUFFICES ASSUME NEW g \in 1..L PROVE B1[g] <= n
      <4>1. \A g \in 1..(L + 1) : g # L + 1 => g \in 1..L
        OBVIOUS
      <4> QED BY <1>1, <1>4, <1>31, <4>1
    <3>1. CASE g = L
      BY <1>16, <3>1
    <3>2. CASE g # L
      BY <1>4, <1>5, <1>6, <1>11, <1>16, <3>2 DEF Rings
    <3> QED BY <3>1, <3>2
  <2>2. Ring'.tail = Place(Ring', d1[blockIndex'], Tailed' - 1)
    BY <1>31, <1>9, <1>13, <1>16, <1>18
  <2>3. \A e, m \in Nat : HasKey(e, m) => /\ m < n /\ n <= m + c /\ EntryFor(h, k, m) = e
    BY <1>5, <1>6, <1>9, <1>10 DEF Rings
  <2>4. \A e, m \in Nat : HasKey(e, m)' =>
          /\ m < Keyed' /\ Keyed' <= m + Ring'.capacity
          /\ EntryFor(Ring', d1[blockIndex'], m) = e
    <3> SUFFICES ASSUME NEW e \in Nat, NEW m \in Nat, HasKey(e, m)
                 PROVE  m < n /\ n <= m + 2 * c /\ EntryFor(x, n - c, m) = e
      BY <1>30, <1>31, <1>9, <1>16, <1>17, <1>18
    <3>1. m < n /\ n <= m + c /\ EntryFor(h, k, m) = e
      BY <2>3
    <3>2. m \in Int /\ n <= m + 2 * c
      BY <3>1
    <3>3. Place(x, n - c, m) < c
      BY <1>13, <3>1, <3>2
    <3> QED BY <1>13, <3>1, <3>2, <3>3
  <2>5. \A g \in DOMAIN headers' : \A p \in 0..(headers'[g].capacity - 1), m \in Nat :
          headers'[g].index[p] = EntryFor(Ring', d1[blockIndex'], m) =>
              Place(headers'[g], d1[g], m) = p
    <3> SUFFICES ASSUME NEW g \in 1..(L + 1), NEW p \in 0..(headers'[g].capacity - 1), NEW m \in Nat,
                        headers'[g].index[p] = EntryFor(x, n - c, m)
                 PROVE  Place(headers'[g], d1[g], m) = p
      BY <1>31, <1>16, <1>18
    <3>1. m \in Int
      OBVIOUS
    <3>2. CASE g = L + 1
      <4>1. headers'[g] = x /\ d1[g] = n - c /\ x.capacity = 2 * c
        BY <1>30, <1>31, <1>16, <3>2
      <4>2. PICK q : q = Place(x, n - c, m)
        OBVIOUS
      <4>3. q \in 0..(2 * c - 1) /\ x.index[p] = x.index[q] /\ p \in 0..(2 * c - 1)
        BY <1>13, <3>1, <4>1, <4>2 DEF EntryFor
      <4>4. p = q
        <5>1. CASE p <= q
          BY <1>29, <4>3, <5>1
        <5>2. CASE q <= p
          BY <1>29, <4>3, <5>2
        <5> QED BY <4>3, <5>1, <5>2
      <4> QED BY <4>1, <4>2, <4>4
    <3>3. CASE g # L + 1
      <4>1. g \in 1..L /\ headers'[g] = headers[g] /\ d1[g] = d[g]
        <5>1. g \in 1..L
          BY <3>3
        <5> QED BY <1>31, <1>16, <5>1
      <4>2. headers[g].index[p] \in 1..c
        BY <1>2, <1>11, <4>1, RingFacts
      <4>3. EntryFor(x, n - c, m) = EntryFor(h, k, m)
        BY <1>13, <3>1, <4>1, <4>2
      <4>4. headers[g].index[p] = EntryFor(Ring, d[blockIndex], m)
        BY <1>6, <1>10, <4>1, <4>3
      <4>5. Place(headers[g], d[g], m) = p
        <5>1. g \in DOMAIN headers /\ p \in 0..(headers[g].capacity - 1)
          BY <1>11, <4>1
        <5>2. \A f \in DOMAIN headers : \A p1 \in 0..(headers[f].capacity - 1), m1 \in Nat :
                headers[f].index[p1] = EntryFor(Ring, d[blockIndex], m1) => Place(headers[f], d[f], m1) = p1
          BY <1>5 DEF Rings
        <5> QED BY ONLY <4>4, <5>1, <5>2
      <4> QED BY <4>1, <4>5
    <3> QED BY <3>2, <3>3
  <2>6. \A g \in DOMAIN headers', e, m \in Nat, b \in Blocks :
          InIndex(e, m, b)' /\ g # blockIndex' /\ m < B1[g] =>
              EntryFor(headers'[g], d1[g], m) = e
    <3> SUFFICES ASSUME NEW g \in 1..L, NEW e \in Nat, NEW m \in Nat, NEW b \in Blocks,
                        InIndex(e, m, b), m < B1[g]
                 PROVE  EntryFor(headers[g], d[g], m) = e
      <4> SUFFICES ASSUME NEW g \in DOMAIN headers', NEW e \in Nat, NEW m \in Nat, NEW b \in Blocks,
                          InIndex(e, m, b)', g # blockIndex', m < B1[g]
                   PROVE  EntryFor(headers'[g], d1[g], m) = e
        OBVIOUS
      <4>1. g \in 1..(L + 1) /\ g # L + 1
        BY <1>31
      <4>2. g \in 1..L
        BY <4>1
      <4>3. headers'[g] = headers[g] /\ d1[g] = d[g] /\ InIndex(e, m, b)
        BY <1>31, <1>16, <1>17, <4>2
      <4> QED BY <4>2, <4>3
    <3>1. CASE g = L
      BY <1>10, <1>11, <2>3, <3>1 DEF InIndex
    <3>2. CASE g # L
      BY <1>5, <1>6, <1>11, <1>16, <3>2 DEF Rings
    <3> QED BY <3>1, <3>2
  <2> QED BY <2>1, <2>2, <2>4, <2>5, <2>6 DEF Rings, Place, EntryFor
<1>25. EntryReserved(d1)'
  <2>1. producer'.entry = EntryFor(Ring', d1[blockIndex'], Block(tailIndex'))
    BY <1>1, <1>4, <1>31, <1>8, <1>13, <1>16, <1>18
  <2>2. entries'[producer'.entry].value = NULL
    BY <1>32, <1>8, <1>21
  <2> QED BY <1>8, <2>1, <2>2 DEF EntryReserved, ProducerAt, EntryFor, Place
<1>26. RingsSearched(B1)'
  <2>1. ASSUME NEW q \in Readers, reader[q].at \in {"position", "key"}
        PROVE  /\ reader[q].header \in 1..L
               /\ Block(reader[q].index) < B1[reader[q].header]
    <3>1. reader[q].header \in 1..L /\
            (reader[q].header # L => Block(reader[q].index) < B[reader[q].header])
      BY <1>5, <1>6, <1>11, <2>1 DEF RingsSearched
    <3>2. CASE reader[q].header = L
      <4>1. PICK i \in Nat : i = reader[q].index
        BY <1>2 DEF TypeOK, Locals
      <4>2. i < headIndex
        BY <2>1, <4>1 DEF Inv, Elements, Indexes, Using
      <4>3. headIndex <= tailIndex /\ headIndex \in Nat
        BY ClaimsCovered, IndexedTypes DEF Inv
      <4>4. i < tailIndex
        BY <1>2, <4>2, <4>3
      <4>5. Block(i) < Block(tailIndex)
        BY <1>2, <1>3, <4>4, BlockOrder
      <4> QED BY <1>4, <1>16, <3>1, <3>2, <4>1, <4>5
    <3>3. CASE reader[q].header # L
      BY <1>16, <3>1, <3>3
    <3> QED BY <3>2, <3>3
  <2>2. ASSUME NEW q \in Readers, reader[q].at = "key"
        PROVE  /\ reader[q].position \in 0..(headers[reader[q].header].capacity - 1)
               /\ \A e \in Nat : e = headers[reader[q].header].index[reader[q].position]
                    => \E m \in Nat : HasKey(e, m)
    BY <1>5, <2>2 DEF RingsSearched
  <2>3. \A q \in Readers : reader[q].at = "key" => reader[q].header \in 1..L
    BY <2>1
  <2>4. 1..L \subseteq 1..(L + 1)
    OBVIOUS
  <2>5. \A q \in Readers : reader[q].at \in {"position", "key"} =>
          /\ reader[q].header \in DOMAIN headers'
          /\ Block(reader[q].index) < B1[reader[q].header]
    BY <1>31, <2>1, <2>4
  <2>6. \A q \in Readers : reader[q].at = "key" =>
          /\ reader[q].position \in 0..(headers'[reader[q].header].capacity - 1)
          /\ \A e \in Nat : e = headers'[reader[q].header].index[reader[q].position]
               => \E m \in Nat : HasKey(e, m)'
    <3>1. \A q \in Readers : reader[q].at = "key" => headers'[reader[q].header] = headers[reader[q].header]
      BY <1>31, <2>3
    <3> QED BY <1>17, <2>2, <3>1
  <2> QED BY <1>1, <2>5, <2>6 DEF RingsSearched
<1>27. IndexInv'
  BY <1>19, <1>20, <1>22, <1>23, <1>24, <1>25, <1>26 DEF IndexInv, Placed
<1>28. IndexSame
  BY <1>1, <1>8, <1>17 DEF IndexSame
<1>33. Claims' /\ Elements' /\ Owners'
  BY <1>1, <1>8, <1>28, QuietKeeps
<1> QED BY <1>27, <1>33

\* The producer leaves the readers where they are.
LEMMA ReadersStay ==
    ASSUME Inv, UNCHANGED <<headIndex, dequeueOptimisticCount, dequeueOvercommit, reader>>,
           tailIndex' \in Nat, tailIndex <= tailIndex'
    PROVE  /\ Claims' /\ Indexes'
           /\ \A i \in Nat : (Undone(i)' <=> Undone(i)) /\ (Unmoved(i)' <=> Unmoved(i))
           /\ \A n \in Nat : DoneOf(n)' = DoneOf(n)
<1>1. ReadersKept
  BY DEF ReadersKept
<1>2. Claims'
  BY ClaimsKept, IndexedTypes DEF Inv
<1>3. Indexes'
  BY DEF Inv, Elements, Indexes
<1> QED BY <1>1, <1>2, <1>3, SameUsers

\* A block is requisitioned that nobody uses.
LEMMA BlockObtained ==
    ASSUME Inv, NEW b \in Blocks, FromPool(b) \/ FromFreeList(b) \/ FromHeap(b)
    PROVE  /\ b \notin InUse /\ FreeFromPool' /\ InUse' = InUse \cup {b}
           /\ initialBlockPoolIndex' \in 0..PoolSize /\ allocations' \in Nat
           /\ freeList' \subseteq freeList /\ heap' \subseteq heap \cup {b}
           /\ b \in heap' \ heap => ~InPool(b)
           /\ allocations' # allocations => b = PoolSize + allocations'
<1>1. /\ freeList \subseteq 1..initialBlockPoolIndex
      /\ heap \subseteq (PoolSize + 1)..(PoolSize + allocations)
      /\ initialBlockPoolIndex \in 0..PoolSize /\ allocations \in Nat /\ PoolSize \in Nat
  BY Sizes DEF Inv, Owners, FreeFromPool, TypeOK
<1>2. CASE FromPool(b)
  <2> DEFINE p == initialBlockPoolIndex
  <2>1. /\ p < PoolSize /\ b = p + 1 /\ initialBlockPoolIndex' = p + 1
        /\ UNCHANGED <<freeList, heap, allocations>>
    BY <1>2 DEF FromPool
  <2>2. b \notin 1..p /\ b \notin heap /\ b \notin freeList
    BY <1>1, <2>1
  <2>3. 1..initialBlockPoolIndex' = (1..p) \cup {b}
    BY <1>1, <2>1
  <2>4. b \notin InUse /\ InUse' = InUse \cup {b}
    BY <2>1, <2>2, <2>3 DEF InUse
  <2> QED BY <1>1, <2>1, <2>3, <2>4 DEF FreeFromPool
<1>3. CASE FromFreeList(b)
  <2>1. b \in freeList /\ freeList' = freeList \ {b} /\ UNCHANGED <<initialBlockPoolIndex, heap, allocations>>
    BY <1>3 DEF FromFreeList
  <2> QED BY <1>1, <2>1 DEF InUse, FreeFromPool
<1>4. CASE FromHeap(b)
  <2>1. /\ initialBlockPoolIndex = PoolSize /\ freeList = {} /\ b = PoolSize + allocations + 1
        /\ allocations' = allocations + 1 /\ heap' = heap \cup {b}
        /\ UNCHANGED <<initialBlockPoolIndex, freeList>>
    BY <1>4 DEF FromHeap
  <2>2. b \notin 1..initialBlockPoolIndex /\ b \notin heap /\ ~InPool(b)
    BY <1>1, <2>1 DEF InPool
  <2>3. heap' \subseteq (PoolSize + 1)..(PoolSize + allocations')
    BY <1>1, <2>1
  <2>4. FreeFromPool'
    BY <1>1, <2>1, <2>3 DEF FreeFromPool
  <2>5. b \notin InUse /\ InUse' = InUse \cup {b}
    BY <2>1, <2>2 DEF InUse
  <2> QED BY <1>1, <2>1, <2>2, <2>4, <2>5
<1> QED BY <1>2, <1>3, <1>4

LEMMA RequisitionBlockKeeps ==
    ASSUME Inv, RequisitionBlock
    PROVE  Claims' /\ IndexInv' /\ Elements' /\ Owners'
<1>1. TypeOK /\ IndexInv /\ tailIndex \in Nat /\ producer.at = "block" /\ tailIndex % BLOCK_SIZE = 0
  BY IndexedTypes DEF Inv, IndexInv, Enqueuing, RequisitionBlock, ProducerAt
<1>2. /\ UNCHANGED <<tailIndex, headIndex, dequeueOptimisticCount, dequeueOvercommit>>
      /\ UNCHANGED <<headers, entries, tailBlock, reader>>
  BY DEF RequisitionBlock, queueVars, indexVars
<1>3. PICK b \in Blocks :
         /\ FromPool(b) \/ FromFreeList(b) \/ FromHeap(b)
         /\ blocks' = [blocks EXCEPT ![b].emptied = 0, ![b].slots[0] = tailIndex + 1]
         /\ producer' = [producer EXCEPT !.at = "link", !.block = b]
  BY <1>1 DEF RequisitionBlock, Emptied
<1>4. producer'.at = "link" /\ producer'.block = b /\ producer'.entry = producer.entry
  BY <1>1, <1>3 DEF TypeOK
<1>5. b \notin InUse /\ InUse' = InUse \cup {b} /\ FreeFromPool'
  BY <1>3, BlockObtained
<1>6. PICK s \in Slots : s = 0
  BY Sizes DEF Slots
<1>7. /\ \A c \in Blocks : c # b => blocks'[c] = blocks[c]
      /\ blocks'[b].slots[0] = tailIndex + 1
      /\ blocks'[b].emptied = 0
  <2>1. blocks' = [blocks EXCEPT ![b].emptied = 0, ![b].slots[s] = tailIndex + 1]
    BY <1>3, <1>6
  <2>2. blocks \in [Blocks -> [slots : [Slots -> Items \cup {NULL}], emptied : 0..BLOCK_SIZE]]
    BY <1>1 DEF TypeOK
  <2>3. /\ \A c \in Blocks : c # b => blocks'[c] = blocks[c]
        /\ blocks'[b].slots[s] = tailIndex + 1
        /\ blocks'[b].emptied = 0
    BY ONLY <2>1, <2>2
  <2> QED BY <1>6, <2>3
<1>8. /\ Claims' /\ Indexes'
      /\ \A i \in Nat : (Undone(i)' <=> Undone(i)) /\ (Unmoved(i)' <=> Unmoved(i))
      /\ \A n \in Nat : DoneOf(n)' = DoneOf(n)
  BY <1>1, <1>2, ReadersStay
<1>9. PICK d \in [Nat -> Int], B \in [Nat -> Nat] :
         Rings(d, B) /\ EntryReserved(d) /\ RingsSearched(B)
  BY DEF Inv, IndexInv, Placed
<1>10. Keyed' = Keyed /\ Tailed' = Tailed
  BY <1>1, <1>2, <1>4 DEF Keyed, Tailed, ProducerAt
<1>11. RingTypes' /\ KeyTypes' /\ TailKeys' /\ Rings(d, B)' /\ RingsSearched(B)'
       /\ \A f, n \in Nat, c \in Blocks : InIndex(f, n, c)' <=> InIndex(f, n, c)
  <2>1. Block(tailIndex) \in Nat
    BY <1>1, BlockFacts
  <2>2. Block(tailIndex) <= Block(tailIndex') /\ Block(tailIndex') \in Nat
    BY <1>2, <2>1
  <2> QED BY <1>1, <1>2, <1>9, <1>10, <2>2, RingsSame
<1>12. IndexInv'
  <2>1. Enqueuing'
    BY <1>1, <1>2, <1>4 DEF IndexInv, Enqueuing, ProducerAt
  <2>2. Ring' = Ring /\ blockIndex' = blockIndex
    BY <1>2 DEF Ring, blockIndex
  <2>3. EntryReserved(d)'
    BY <1>1, <1>2, <1>4, <1>9, <2>2 DEF EntryReserved, ProducerAt, EntryFor, Place, HasKey
  <2> QED BY <1>9, <1>11, <2>1, <2>3 DEF IndexInv, Placed
<1>13. /\ \A f, n \in Nat, c \in Blocks : InIndex(f, n, c) => c \in InUse /\ c # b
       /\ \A q \in Readers : reader[q].at \in {"unlink", "free"} => reader[q].block # b
  <2>1. \A f, n \in Nat, c \in Blocks : InIndex(f, n, c) => c \in InUse
    BY DEF Inv, Owners, InOneEntry
  <2>2. \A q \in Readers : reader[q].at = "free" => reader[q].block \in InUse
    BY DEF Inv, Owners, WithReader
  <2>3. \A q \in Readers : reader[q].at = "unlink" => reader[q].block \in InUse
    BY BlockInHand
  <2>4. \A c : c \in InUse => c # b
    BY <1>5
  <2>5. \A q \in Readers : reader[q].at \in {"unlink", "free"} => reader[q].block \in InUse
    BY <2>2, <2>3
  <2>6. \A q \in Readers : reader[q].at \in {"unlink", "free"} => reader[q].block # b
    BY <2>4, <2>5
  <2>7. \A f, n \in Nat, c \in Blocks : InIndex(f, n, c) => c \in InUse /\ c # b
    BY <2>1, <2>4
  <2> QED BY <2>6, <2>7
<1>14. Enqueued' = Enqueued
  BY <1>1, <1>2, <1>4 DEF Enqueued, ProducerAt
<1>15. EntryFound'
  <2> SUFFICES ASSUME NEW q \in Readers, NEW f \in Nat, NEW j \in Nat, Found(q, f, j)'
               PROVE  \E c \in Blocks : /\ InIndex(f, Block(j), c)'
                                        /\ reader'[q].at # "value" => reader'[q].block = c
    BY DEF EntryFound
  <2>1. Found(q, f, j)
    BY <1>2 DEF Found
  <2>2. PICK c \in Blocks : InIndex(f, Block(j), c) /\ (reader[q].at # "value" => reader[q].block = c)
    BY <2>1 DEF Inv, Elements, EntryFound
  <2>3. Block(j) \in Nat
    BY BlockFacts
  <2> QED BY <1>2, <1>11, <2>2, <2>3
<1>16. BlocksLive'
  BY <1>8, <1>11, <1>14, BlockFacts DEF Inv, Elements, BlocksLive
<1>17. Contents'
  <2> SUFFICES ASSUME NEW f \in Nat, NEW j \in Nat, NEW c \in Blocks,
                      InIndex(f, Block(j), c)', j < Enqueued', Unmoved(j)'
               PROVE  blocks'[c].slots[j % BLOCK_SIZE] = j + 1
    BY DEF Contents
  <2>1. Block(j) \in Nat
    BY BlockFacts
  <2>2. InIndex(f, Block(j), c) /\ j < Enqueued /\ Unmoved(j)
    BY <1>8, <1>11, <1>14, <2>1
  <2>3. blocks[c].slots[j % BLOCK_SIZE] = j + 1
    BY <2>2 DEF Inv, Elements, Contents
  <2> QED BY <1>7, <1>13, <2>1, <2>2, <2>3
<1>18. Counts'
  BY <1>7, <1>8, <1>11, <1>13 DEF Inv, Elements, Counts
<1>19. Prepared'
  BY <1>2, <1>4, <1>7 DEF Prepared
<1>20. TailBlock'
  BY <1>1, <1>2, <1>4 DEF TailBlock, ProducerAt
<1>21. Unlinking'
  <2>1. \A q \in Readers : reader[q].at = "unlink" => reader[q].block \in Blocks
    BY BlockInHand
  <2>2. \A q \in Readers : reader'[q].at = "unlink" => blocks'[reader'[q].block].emptied = BLOCK_SIZE
    BY <1>2, <1>7, <1>13, <2>1 DEF Inv, Elements, Unlinking
  <2>3. ASSUME NEW e \in Nat, NEW n \in Nat, NEW c \in Blocks, InIndex(e, n, c)', blocks'[c].emptied = BLOCK_SIZE
        PROVE  \E q \in Readers : reader'[q].at = "unlink" /\ reader'[q].block = c
    BY <1>2, <1>7, <1>11, <1>13, <2>3 DEF Inv, Elements, Unlinking
  <2> QED BY <1>2, <2>2, <2>3 DEF Inv, Elements, Unlinking
<1>22. Elements'
  BY <1>8, <1>15, <1>16, <1>17, <1>18, <1>19, <1>20, <1>21 DEF Elements
<1>23. InOneEntry'
  <2>1. \A f, n \in Nat, c \in Blocks : InIndex(f, n, c)' => c \in InUse'
    BY <1>5, <1>11, <1>13
  <2>2. \A e, f, n, m \in Nat, c \in Blocks : InIndex(e, n, c)' /\ InIndex(f, m, c)' => e = f
    BY <1>11 DEF Inv, Owners, InOneEntry
  <2> QED BY <2>1, <2>2 DEF InOneEntry
<1>24. WithProducer'
  BY <1>4, <1>5, <1>11, <1>13 DEF WithProducer, ProducerAt
<1>25. WithReader'
  <2>1. ASSUME NEW q \in Readers, reader'[q].at = "free"
        PROVE  /\ reader'[q].block \in InUse'
               /\ ProducerAt("link")' => producer'.block # reader'[q].block
               /\ \A f, n \in Nat, c \in Blocks : InIndex(f, n, c)' => c # reader'[q].block
    BY <1>2, <1>4, <1>5, <1>11, <1>13, <2>1 DEF Inv, Owners, WithReader
  <2>2. \A p, q \in Readers :
          reader'[p].at = "free" /\ reader'[q].at = "free" /\ reader'[p].block = reader'[q].block
            => p = q
    BY <1>2 DEF Inv, Owners, WithReader
  <2> QED BY <2>1, <2>2 DEF WithReader
<1>26. NoneLost'
  <2> SUFFICES ASSUME NEW c \in InUse'
               PROVE  \/ \E f, n \in Nat : InIndex(f, n, c)'
                      \/ ProducerAt("link")' /\ producer'.block = c
                      \/ \E q \in Readers : reader'[q].at = "free" /\ reader'[q].block = c
    BY DEF NoneLost
  <2>1. CASE c = b
    BY <1>4, <2>1 DEF ProducerAt
  <2>2. CASE c # b
    <3>1. \/ \E f, n \in Nat : InIndex(f, n, c)
          \/ \E q \in Readers : reader[q].at = "free" /\ reader[q].block = c
      BY <1>1, <1>5, <2>2 DEF Inv, Owners, NoneLost, ProducerAt
    <3>2. \A f, n \in Nat : InIndex(f, n, c) => InIndex(f, n, c)'
      <4>1. \A f, n \in Nat : InIndex(f, n, c) => c \in Blocks
        BY DEF InIndex
      <4> QED BY <1>11, <4>1
    <3> QED BY <1>2, <3>1, <3>2
  <2> QED BY <2>1, <2>2
<1>27. Owners'
  BY <1>5, <1>23, <1>24, <1>25, <1>26 DEF Owners
<1> QED BY <1>8, <1>12, <1>22, <1>27

\* A step of the producer that counts no element out of a block, and unlinks none.
LEMMA CountsStay ==
    ASSUME Inv, UNCHANGED reader,
           \A f, n \in Nat, c \in Blocks : InIndex(f, n, c)' <=> InIndex(f, n, c),
           \A n \in Nat : DoneOf(n)' = DoneOf(n),
           \A c \in Blocks : blocks'[c].emptied = blocks[c].emptied
    PROVE  EntryFound' /\ Counts' /\ Unlinking'
<1>1. EntryFound'
  <2> SUFFICES ASSUME NEW q \in Readers, NEW f \in Nat, NEW j \in Nat, Found(q, f, j)'
               PROVE  \E c \in Blocks : /\ InIndex(f, Block(j), c)'
                                        /\ reader'[q].at # "value" => reader'[q].block = c
    BY DEF EntryFound
  <2>1. Found(q, f, j)
    BY DEF Found
  <2>2. PICK c \in Blocks : InIndex(f, Block(j), c) /\ (reader[q].at # "value" => reader[q].block = c)
    BY <2>1 DEF Inv, Elements, EntryFound
  <2>3. Block(j) \in Nat
    BY BlockFacts
  <2> QED BY <2>2, <2>3
<1>2. Counts'
  BY DEF Inv, Elements, Counts
<1>3. Unlinking'
  <2>1. \A q \in Readers : reader[q].at = "unlink" => reader[q].block \in Blocks
    BY BlockInHand
  <2> QED BY <2>1 DEF Inv, Elements, Unlinking
<1> QED BY <1>1, <1>2, <1>3

\* The block that is being filled is the tail block.
LEMMA TailBlockInIndex ==
    ASSUME Inv, producer.at = "idle", tailIndex % BLOCK_SIZE # 0
    PROVE  tailBlock \in Blocks /\ \E e \in Nat : InIndex(e, Block(tailIndex), tailBlock)
<1>1. tailIndex \in Nat /\ Indexed
  BY IndexedTypes DEF Inv
<1>2. Block(tailIndex) \in Nat /\ BLOCK_SIZE * Block(tailIndex) < tailIndex
  BY <1>1, BlockFacts, BlockEnds
<1>3. Enqueued = tailIndex
  BY DEF Enqueued, ProducerAt
<1>4. Undone(tailIndex)
  BY <1>1, ClaimsCovered DEF Inv, Undone
<1>5. PICK e \in Nat, b \in Blocks : InIndex(e, Block(tailIndex), b)
  BY <1>1, <1>2, <1>3, <1>4 DEF Inv, Elements, BlocksLive
<1>6. b = tailBlock
  BY <1>2, <1>5 DEF Inv, Elements, TailBlock
<1> QED BY <1>5, <1>6

LEMMA ConstructKeeps ==
    ASSUME Inv, ConstructInTailBlock
    PROVE  Claims' /\ IndexInv' /\ Elements' /\ Owners'
<1>1. /\ TypeOK /\ IndexInv /\ tailIndex \in Nat
      /\ producer.at = "idle" /\ tailIndex < MaxItems /\ tailIndex % BLOCK_SIZE # 0
  BY IndexedTypes DEF Inv, ConstructInTailBlock, ProducerAt
<1>2. /\ UNCHANGED <<tailIndex, headIndex, dequeueOptimisticCount, dequeueOvercommit>>
      /\ UNCHANGED <<initialBlockPoolIndex, freeList, heap, allocations>>
      /\ UNCHANGED <<headers, entries, tailBlock, reader>>
      /\ producer' = [producer EXCEPT !.at = "publish"]
  BY DEF ConstructInTailBlock, queueVars, indexVars, ProducerTo
<1>3. producer'.at = "publish"
  BY <1>1, <1>2 DEF TypeOK
<1>4. PICK b \in Blocks, e \in Nat : b = tailBlock /\ InIndex(e, Block(tailIndex), b)
  BY <1>1, TailBlockInIndex
<1>5. PICK s \in Slots, T \in Nat : s = T % BLOCK_SIZE /\ T = tailIndex
  BY <1>1, BlockFacts
<1>6. blocks' = [blocks EXCEPT ![b].slots[s] = T + 1]
  BY <1>4, <1>5 DEF ConstructInTailBlock
<1>7. /\ \A c \in Blocks : blocks'[c].emptied = blocks[c].emptied
      /\ \A c \in Blocks : c # b => blocks'[c].slots = blocks[c].slots
      /\ \A t \in Slots : t # s => blocks'[b].slots[t] = blocks[b].slots[t]
      /\ blocks'[b].slots[s] = T + 1
  <2>1. blocks \in [Blocks -> [slots : [Slots -> Items \cup {NULL}], emptied : 0..BLOCK_SIZE]]
    BY <1>1 DEF TypeOK
  <2>2. \A c \in Blocks : c # b => blocks'[c] = blocks[c]
    BY ONLY <1>6, <2>1
  <2>3. /\ blocks'[b].emptied = blocks[b].emptied
        /\ \A t \in Slots : t # s => blocks'[b].slots[t] = blocks[b].slots[t]
        /\ blocks'[b].slots[s] = T + 1
    BY ONLY <1>6, <2>1
  <2> QED BY ONLY <2>2, <2>3
<1>8. /\ Claims' /\ Indexes'
      /\ \A i \in Nat : (Undone(i)' <=> Undone(i)) /\ (Unmoved(i)' <=> Unmoved(i))
      /\ \A n \in Nat : DoneOf(n)' = DoneOf(n)
  BY <1>1, <1>2, ReadersStay
<1>9. PICK d \in [Nat -> Int], B \in [Nat -> Nat] :
         Rings(d, B) /\ EntryReserved(d) /\ RingsSearched(B)
  BY DEF Inv, IndexInv, Placed
<1>10. Keyed' = Keyed /\ Tailed' = Tailed
  <2>1. Block(tailIndex + BLOCK_SIZE - 1) = Block(tailIndex) + 1
    BY <1>1, BlockEnds
  <2> QED BY <1>1, <1>2, <1>3, <2>1 DEF Keyed, Tailed, ProducerAt
<1>11. RingTypes' /\ KeyTypes' /\ TailKeys' /\ Rings(d, B)' /\ RingsSearched(B)'
       /\ \A f, n \in Nat, c \in Blocks : InIndex(f, n, c)' <=> InIndex(f, n, c)
  <2>1. Block(tailIndex) \in Nat
    BY <1>1, BlockFacts
  <2>2. Block(tailIndex) <= Block(tailIndex') /\ Block(tailIndex') \in Nat
    BY <1>2, <2>1
  <2> QED BY <1>1, <1>2, <1>9, <1>10, <2>2, RingsSame
<1>12. IndexInv'
  <2>1. Enqueuing'
    BY <1>1, <1>2, <1>3 DEF Enqueuing, ProducerAt
  <2>2. EntryReserved(d)'
    BY <1>3 DEF EntryReserved
  <2> QED BY <1>9, <1>11, <2>1, <2>2 DEF IndexInv, Placed
<1>13. Enqueued = T /\ Enqueued' = T + 1
  BY <1>1, <1>2, <1>3, <1>5 DEF Enqueued, ProducerAt
<1>14. EntryFound' /\ Counts' /\ Unlinking'
  BY <1>2, <1>7, <1>8, <1>11, CountsStay
<1>15. BlocksLive'
  <2> SUFFICES ASSUME NEW i \in Nat, BLOCK_SIZE * Block(i) < Enqueued', Undone(i)'
               PROVE  \E f \in Nat, c \in Blocks : InIndex(f, Block(i), c)'
    BY DEF BlocksLive
  <2>1. Block(i) \in Nat /\ BLOCK_SIZE * Block(i) \in Nat
    BY BlockFacts
  <2>2. BLOCK_SIZE * Block(i) # T
    <3>1. PICK n \in Nat, z \in Slots : n = Block(i) /\ z = 0
      BY <2>1, Sizes DEF Slots
    <3>2. (BLOCK_SIZE * n + z) % BLOCK_SIZE = z
      BY BlockAt
    <3>3. BLOCK_SIZE * n + z = BLOCK_SIZE * n
      BY <2>1, <3>1
    <3> QED BY <1>1, <1>5, <3>1, <3>2, <3>3
  <2> DEFINE k == BLOCK_SIZE * Block(i)
  <2>3. k \in Nat /\ k # T /\ k < T + 1
    BY <1>13, <2>1, <2>2
  <2> HIDE DEF k
  <2>4. k < T
    BY <2>3
  <2>5. Undone(i)
    BY <1>8
  <2>6. PICK f \in Nat, c \in Blocks : InIndex(f, Block(i), c)
    BY <1>13, <2>4, <2>5 DEF k, Inv, Elements, BlocksLive
  <2> QED BY <1>11, <2>1, <2>6
<1>16. Contents'
  <2> SUFFICES ASSUME NEW f \in Nat, NEW i \in Nat, NEW c \in Blocks,
                      InIndex(f, Block(i), c)', i < Enqueued', Unmoved(i)'
               PROVE  blocks'[c].slots[i % BLOCK_SIZE] = i + 1
    BY DEF Contents
  <2>1. Block(i) \in Nat /\ i % BLOCK_SIZE \in Slots /\ Block(tailIndex) \in Nat
    BY <1>1, BlockFacts
  <2>2. InIndex(f, Block(i), c) /\ Unmoved(i)
    BY <1>8, <1>11, <2>1
  <2>3. CASE i = T
    <3>1. c = b
      BY <1>1, <1>4, <1>5, <2>1, <2>2, <2>3 DEF Inv, Elements, TailBlock
    <3> QED BY <1>5, <1>7, <2>3, <3>1
  <2>4. CASE i # T
    <3>1. i < T
      BY <1>13, <2>4
    <3>2. blocks[c].slots[i % BLOCK_SIZE] = i + 1
      BY <1>13, <2>2, <3>1 DEF Inv, Elements, Contents
    <3>3. CASE c # b
      BY <1>7, <3>2, <3>3
    <3>4. CASE c = b
      <4>1. f = e
        BY <1>4, <2>1, <2>2, <3>4 DEF Inv, Owners, InOneEntry
      <4>2. Block(i) = Block(T)
        BY <1>1, <1>4, <1>5, <2>1, <2>2, <4>1, OneEntry DEF InIndex, IndexInv
      <4>3. i % BLOCK_SIZE # s
        BY <1>5, <2>4, <4>2, SlotsDiffer
      <4> QED BY <1>7, <2>1, <3>2, <3>4, <4>3
    <3> QED BY <3>3, <3>4
  <2> QED BY <2>3, <2>4
<1>17. Prepared' /\ TailBlock'
  BY <1>1, <1>2, <1>3, <1>11 DEF Inv, Elements, TailBlock, Prepared, ProducerAt
<1>18. Elements'
  BY <1>8, <1>14, <1>15, <1>16, <1>17 DEF Elements
<1>19. Owners'
  <2>1. IndexSame
    BY <1>1, <1>3, <1>11 DEF IndexSame
  <2> QED BY <1>2, <2>1, OwnersKept DEF Inv
<1> QED BY <1>8, <1>12, <1>18, <1>19

LEMMA PublishKeeps ==
    ASSUME Inv, Publish
    PROVE  Claims' /\ IndexInv' /\ Elements' /\ Owners' /\ tailIndex' = tailIndex + 1
<1>1. TypeOK /\ IndexInv /\ tailIndex \in Nat /\ producer.at = "publish" /\ tailIndex < MaxItems
  BY IndexedTypes DEF Inv, IndexInv, Enqueuing, Publish, ProducerAt
<1>2. /\ UNCHANGED <<headIndex, dequeueOptimisticCount, dequeueOvercommit>>
      /\ UNCHANGED <<blocks, initialBlockPoolIndex, freeList, heap, allocations>>
      /\ UNCHANGED <<headers, entries, tailBlock, reader>>
      /\ producer'.at = "idle"
  BY DEF Publish, blockVars, indexVars, Idle
<1>3. tailIndex' = tailIndex + 1
  <2>1. PICK a \in Int, b \in Int : a = tailIndex + 1 /\ b = 0
    BY <1>1
  <2>2. 0 <= a /\ a < 2 * HalfRange
    BY <1>1, <2>1, Sizes
  <2>3. Wrap(a) = a
    BY <2>2, WrapFacts
  <2> QED BY <2>1, <2>3 DEF Publish
<1>4. PICK T \in Nat, U \in Nat : T = tailIndex /\ U = tailIndex' /\ U = T + 1
  BY <1>1, <1>3
<1>8. /\ Claims' /\ Indexes'
      /\ \A i \in Nat : (Undone(i)' <=> Undone(i)) /\ (Unmoved(i)' <=> Unmoved(i))
      /\ \A n \in Nat : DoneOf(n)' = DoneOf(n)
  <2>1. tailIndex' \in Nat /\ tailIndex <= tailIndex'
    BY <1>4
  <2> QED BY <1>2, <2>1, ReadersStay
<1>9. PICK d \in [Nat -> Int], B \in [Nat -> Nat] :
         Rings(d, B) /\ EntryReserved(d) /\ RingsSearched(B)
  BY DEF Inv, IndexInv, Placed
<1>5. /\ Block(U + BLOCK_SIZE - 1) = Block(T) + 1 /\ Block(T) \in Nat /\ Block(U) \in Nat
      /\ Block(T) <= Block(U)
      /\ U % BLOCK_SIZE # 0 => Block(U) = Block(T)
  <2>1. Block((T + 1) + BLOCK_SIZE - 1) = Block(T) + 1
    BY BlockEnds
  <2>2. Block(T) \in Nat /\ Block(U) \in Nat
    BY BlockFacts
  <2>3. T <= U
    BY <1>4
  <2>4. Block(T) <= Block(U)
    BY <2>3, BlockOrder
  <2>5. U % BLOCK_SIZE # 0 => Block(U + BLOCK_SIZE - 1) = Block(U) + 1
    BY BlockEnds
  <2> DEFINE k == Block(U + BLOCK_SIZE - 1)  m == Block(T)  n == Block(U)
  <2>6. k = m + 1 /\ m \in Nat /\ n \in Nat /\ (U % BLOCK_SIZE # 0 => k = n + 1)
    BY <1>4, <2>1, <2>2, <2>5
  <2> HIDE DEF k, m, n
  <2>7. U % BLOCK_SIZE # 0 => n = m
    BY <2>6
  <2> QED BY <2>4, <2>6, <2>7 DEF k, m, n
<1>10. Keyed' = Keyed /\ Tailed' = Tailed
  BY <1>1, <1>2, <1>4, <1>5 DEF Keyed, Tailed, ProducerAt
<1>11. RingTypes' /\ KeyTypes' /\ TailKeys' /\ Rings(d, B)' /\ RingsSearched(B)'
       /\ \A f, n \in Nat, c \in Blocks : InIndex(f, n, c)' <=> InIndex(f, n, c)
  <2>1. Block(tailIndex) <= Block(tailIndex') /\ Block(tailIndex') \in Nat
    BY <1>4, <1>5
  <2> QED BY <1>1, <1>2, <1>9, <1>10, <2>1, RingsSame
<1>12. IndexInv'
  <2>1. Enqueuing'
    BY <1>2 DEF Enqueuing, ProducerAt
  <2>2. EntryReserved(d)'
    BY <1>2 DEF EntryReserved
  <2> QED BY <1>9, <1>11, <2>1, <2>2 DEF IndexInv, Placed
<1>13. Enqueued' = Enqueued
  BY <1>1, <1>2, <1>3 DEF Enqueued, ProducerAt
<1>14. EntryFound' /\ Counts' /\ Unlinking'
  BY <1>2, <1>8, <1>11, CountsStay
<1>15. BlocksLive'
  BY <1>8, <1>11, <1>13, BlockFacts DEF Inv, Elements, BlocksLive
<1>16. Contents'
  <2> SUFFICES ASSUME NEW f \in Nat, NEW i \in Nat, NEW c \in Blocks,
                      InIndex(f, Block(i), c)', i < Enqueued', Unmoved(i)'
               PROVE  blocks'[c].slots[i % BLOCK_SIZE] = i + 1
    BY DEF Contents
  <2>1. Block(i) \in Nat
    BY BlockFacts
  <2> QED BY <1>2, <1>8, <1>11, <1>13, <2>1 DEF Inv, Elements, Contents
<1>17. Prepared' /\ TailBlock'
  <2>1. Prepared'
    BY <1>2 DEF Prepared, ProducerAt
  <2>2. TailBlock'
    BY <1>1, <1>2, <1>4, <1>5, <1>11 DEF Inv, Elements, TailBlock, ProducerAt
  <2> QED BY <2>1, <2>2
<1>18. Elements'
  BY <1>8, <1>14, <1>15, <1>16, <1>17 DEF Elements
<1>19. Owners'
  <2>1. IndexSame
    BY <1>1, <1>2, <1>11 DEF IndexSame
  <2> QED BY <1>2, <2>1, OwnersKept DEF Inv
<1> QED BY <1>3, <1>8, <1>12, <1>18, <1>19

\* The block gets its place in the index: nobody has looked for it yet.
LEMMA LinkBlockKeeps ==
    ASSUME Inv, LinkBlock
    PROVE  Claims' /\ IndexInv' /\ Elements' /\ Owners'
<1>1. /\ TypeOK /\ IndexInv /\ RingTypes /\ tailIndex \in Nat /\ headIndex \in Nat
      /\ producer.at = "link" /\ tailIndex % BLOCK_SIZE = 0 /\ tailIndex < MaxItems
      /\ producer.entry \in DOMAIN entries
  BY IndexedTypes DEF Inv, IndexInv, Enqueuing, LinkBlock, ProducerAt
<1>2. /\ UNCHANGED <<tailIndex, headIndex, dequeueOptimisticCount, dequeueOvercommit>>
      /\ UNCHANGED <<blocks, initialBlockPoolIndex, freeList, heap, allocations>>
      /\ UNCHANGED <<headers, reader>>
      /\ producer'.at = "publish"
  BY DEF LinkBlock, queueVars, blockVars, Idle
<1>3. PICK e \in DOMAIN entries, b \in Blocks :
         /\ e = producer.entry /\ b = producer.block
         /\ blocks[b].emptied = 0 /\ blocks[b].slots[0] = tailIndex + 1
  BY <1>1 DEF Inv, Elements, Prepared, ProducerAt
<1>4. entries' = [entries EXCEPT ![e].value = b] /\ tailBlock' = b
  BY <1>3 DEF LinkBlock
<1>5. PICK T \in Nat, n0 \in Nat : T = tailIndex /\ n0 = Block(T)
  BY <1>1, BlockFacts
<1>6. PICK d \in [Nat -> Int], B \in [Nat -> Nat] :
         Rings(d, B) /\ EntryReserved(d) /\ RingsSearched(B)
  BY DEF Inv, IndexInv, Placed
<1>7. e \in Nat /\ DOMAIN entries \subseteq Nat
  BY <1>1, RingFacts
<1>8. HasKey(e, n0) /\ entries[e].value = NULL
  BY <1>1, <1>3, <1>5, <1>6, <1>7 DEF EntryReserved, ProducerAt
<1>9. /\ DOMAIN entries' = DOMAIN entries
      /\ \A f \in DOMAIN entries :
           entries'[f].key = entries[f].key /\ (f # e => entries'[f].value = entries[f].value)
      /\ entries'[e].value = b
      /\ \A f, n \in Nat : HasKey(f, n)' <=> HasKey(f, n)
  <2>1. b \in Blocks \cup {NULL}
    OBVIOUS
  <2> QED BY <1>1, <1>4, <2>1, ValueStored
<1>10. /\ \A f, n \in Nat : HasKey(f, n) /\ HasKey(e, n) => f = e
       /\ \A n, m \in Nat : HasKey(e, n) /\ HasKey(e, m) => n = m
  BY <1>1, <1>7, OneEntry DEF IndexInv
<1>11. \A f \in Nat, c \in Blocks : ~InIndex(f, n0, c)
  <2> SUFFICES ASSUME NEW f \in Nat, NEW c \in Blocks, InIndex(f, n0, c) PROVE FALSE
    OBVIOUS
  <2>1. f = e
    BY <1>8, <1>10 DEF InIndex
  <2> QED BY <1>8, <2>1, BlockTypes, <1>1 DEF InIndex, NULL
<1>12. \A f, n \in Nat, c \in Blocks :
         InIndex(f, n, c)' <=> InIndex(f, n, c) \/ (f = e /\ n = n0 /\ c = b)
  <2> SUFFICES ASSUME NEW f \in Nat, NEW n \in Nat, NEW c \in Blocks
               PROVE  InIndex(f, n, c)' <=> InIndex(f, n, c) \/ (f = e /\ n = n0 /\ c = b)
    OBVIOUS
  <2>1. HasKey(f, n) => f \in DOMAIN entries
    BY DEF HasKey
  <2>2. CASE f # e
    BY <1>9, <2>1, <2>2 DEF InIndex
  <2>3. CASE f = e
    <3>1. HasKey(f, n) <=> n = n0
      BY <1>7, <1>8, <1>10, <2>3
    <3>2. ~InIndex(f, n, c)
      BY <1>11, <3>1 DEF InIndex
    <3> QED BY <1>9, <2>3, <3>1, <3>2 DEF InIndex
  <2> QED BY <2>2, <2>3
<1>13. /\ Claims' /\ Indexes'
       /\ \A i \in Nat : (Undone(i)' <=> Undone(i)) /\ (Unmoved(i)' <=> Unmoved(i))
       /\ \A n \in Nat : DoneOf(n)' = DoneOf(n)
  BY <1>1, <1>2, ReadersStay
\* None of its elements is done, and only the first of them is enqueued.
<1>14. /\ \A i \in Nat : Block(i) = n0 => T <= i /\ Undone(i)
       /\ BLOCK_SIZE * n0 = T
       /\ \A n \in Nat : BLOCK_SIZE * n = T => n = n0
  <2>1. \A i \in Nat : i < T => Block(i) < n0
    BY <1>1, <1>5, BlockOrder
  <2>2. \A i \in Nat : Block(i) \in Nat
    BY BlockFacts
  <2>3. \A i \in Nat : Block(i) = n0 => T <= i
    BY <2>1, <2>2
  <2>4. headIndex <= T
    BY <1>5, IndexedTypes, ClaimsCovered DEF Inv
  <2>5. \A i \in Nat : Block(i) = n0 => Undone(i)
    BY <1>1, <2>3, <2>4 DEF Undone
  <2>6. BLOCK_SIZE * n0 = T
    BY <1>1, <1>5, BlockEnds
  <2>7. \A n \in Nat : BLOCK_SIZE * n = BLOCK_SIZE * n0 => n = n0
    BY KeysDiffer
  <2> QED BY <2>3, <2>5, <2>6, <2>7
<1>15. IndexInv'
  <2>1. Keyed' = Keyed /\ Tailed' = Tailed
    BY <1>1, <1>2 DEF Keyed, Tailed, ProducerAt
  <2>2. \A h \in DOMAIN headers, f, n \in Nat, c \in Blocks :
           InIndex(f, n, c)' /\ h # blockIndex /\ n < B[h] => EntryFor(headers[h], d[h], n) = f
    <3> SUFFICES ASSUME NEW h \in DOMAIN headers, NEW f \in Nat, NEW n \in Nat, NEW c \in Blocks,
                        InIndex(f, n, c)', h # blockIndex, n < B[h]
                 PROVE  EntryFor(headers[h], d[h], n) = f
      OBVIOUS
    <3>1. CASE InIndex(f, n, c)
      BY <1>6, <3>1 DEF Rings
    <3>2. CASE n = n0
      <4>1. B[h] <= n0
        BY <1>5, <1>6 DEF Rings
      <4>2. h \in Nat
        BY <1>1, RingFacts
      <4>3. B[h] \in Nat
        BY <4>2
      <4> QED BY <3>2, <4>1, <4>3
    <3> QED BY <1>12, <3>1, <3>2
  <2>3. \E n \in Nat : HasKey(e, n)
    BY <1>8
  <2>4. b \in Blocks \cup {NULL}
    OBVIOUS
  <2>5. RingTypes' /\ KeyTypes' /\ TailKeys' /\ Rings(d, B)'
    BY <1>1, <1>2, <1>4, <1>6, <2>1, <2>2, <2>3, <2>4, ValueKeeps
  <2>6. Enqueuing'
    BY <1>1, <1>2 DEF Enqueuing, ProducerAt
  <2>7. blockIndex' = blockIndex
    BY <1>2 DEF blockIndex
  <2>8. EntryReserved(d)'
    BY <1>2 DEF EntryReserved
  <2>9. RingsSearched(B)'
    BY <1>2, <1>9, <1>6, <2>7 DEF RingsSearched
  <2> QED BY <2>5, <2>6, <2>8, <2>9 DEF IndexInv, Placed
<1>16. Enqueued = T /\ Enqueued' = T + 1
  BY <1>1, <1>2, <1>5 DEF Enqueued, ProducerAt
<1>17. EntryFound'
  <2> SUFFICES ASSUME NEW q \in Readers, NEW f \in Nat, NEW j \in Nat, Found(q, f, j)'
               PROVE  \E c \in Blocks : /\ InIndex(f, Block(j), c)'
                                        /\ reader'[q].at # "value" => reader'[q].block = c
    BY DEF EntryFound
  <2>1. Found(q, f, j)
    BY <1>2 DEF Found
  <2>2. PICK c \in Blocks : InIndex(f, Block(j), c) /\ (reader[q].at # "value" => reader[q].block = c)
    BY <2>1 DEF Inv, Elements, EntryFound
  <2>3. Block(j) \in Nat
    BY BlockFacts
  <2> QED BY <1>2, <1>12, <2>2, <2>3
<1>18. BlocksLive'
  <2> SUFFICES ASSUME NEW i \in Nat, BLOCK_SIZE * Block(i) < Enqueued', Undone(i)'
               PROVE  \E f \in Nat, c \in Blocks : InIndex(f, Block(i), c)'
    BY DEF BlocksLive
  <2>1. Block(i) \in Nat /\ BLOCK_SIZE * Block(i) \in Nat
    BY BlockFacts
  <2>2. CASE BLOCK_SIZE * Block(i) = T
    BY <1>7, <1>12, <1>14, <2>1, <2>2
  <2>3. CASE BLOCK_SIZE * Block(i) # T
    <3> DEFINE k == BLOCK_SIZE * Block(i)
    <3>1. k \in Nat /\ k # T /\ k < T + 1
      BY <1>16, <2>1, <2>3
    <3> HIDE DEF k
    <3>2. k < T
      BY <3>1
    <3>3. Undone(i)
      BY <1>13
    <3>4. PICK f \in Nat, c \in Blocks : InIndex(f, Block(i), c)
      BY <1>16, <3>2, <3>3 DEF k, Inv, Elements, BlocksLive
    <3> QED BY <1>12, <2>1, <3>4
  <2> QED BY <2>2, <2>3
<1>19. Contents'
  <2> SUFFICES ASSUME NEW f \in Nat, NEW i \in Nat, NEW c \in Blocks,
                      InIndex(f, Block(i), c)', i < Enqueued', Unmoved(i)'
               PROVE  blocks'[c].slots[i % BLOCK_SIZE] = i + 1
    BY DEF Contents
  <2>1. Block(i) \in Nat
    BY BlockFacts
  <2>2. CASE Block(i) = n0
    <3>1. T <= i
      BY <1>14, <2>2
    <3>2. i = T
      BY <1>16, <3>1
    <3>3. c = b
      BY <1>11, <1>12, <2>1, <2>2
    <3> QED BY <1>1, <1>2, <1>3, <1>5, <3>2, <3>3
  <2>3. CASE Block(i) # n0
    <3>1. InIndex(f, Block(i), c) /\ Unmoved(i)
      BY <1>12, <1>13, <2>1, <2>3
    <3>2. i # T
      BY <1>5, <2>3
    <3>3. i < Enqueued
      BY <1>16, <3>2
    <3> QED BY <1>2, <3>1, <3>3 DEF Inv, Elements, Contents
  <2> QED BY <2>2, <2>3
<1>20. Counts'
  <2> SUFFICES ASSUME NEW f \in Nat, NEW n \in Nat, NEW c \in Blocks, InIndex(f, n, c)'
               PROVE  blocks[c].emptied = Cardinality(DoneOf(n))
    BY <1>2, <1>13 DEF Counts
  <2>1. CASE InIndex(f, n, c)
    BY <2>1 DEF Inv, Elements, Counts
  <2>2. CASE n = n0 /\ c = b
    <3>1. DoneOf(n0) = {}
      BY <1>14 DEF DoneOf, ItemsOf
    <3>2. Cardinality(DoneOf(n0)) = 0
      BY <3>1, FS_EmptySet
    <3> QED BY <1>3, <2>2, <3>2
  <2> QED BY <1>12, <2>1, <2>2
<1>21. Prepared'
  BY <1>2 DEF Prepared, ProducerAt
<1>22. TailBlock'
  BY <1>2, <1>4, <1>5, <1>11, <1>12 DEF TailBlock
<1>23. Unlinking'
  <2>1. ASSUME NEW f \in Nat, NEW n \in Nat, NEW c \in Blocks, InIndex(f, n, c)',
               blocks[c].emptied = BLOCK_SIZE
        PROVE  \E q \in Readers : reader[q].at = "unlink" /\ reader[q].block = c
    <3>1. BLOCK_SIZE # 0
      BY Sizes
    <3>2. c # b
      BY <1>3, <2>1, <3>1
    <3>3. InIndex(f, n, c)
      BY <1>12, <2>1, <3>2
    <3> QED BY <2>1, <3>3 DEF Inv, Elements, Unlinking
  <2> QED BY <1>2, <2>1 DEF Inv, Elements, Unlinking
<1>24. Elements'
  BY <1>13, <1>17, <1>18, <1>19, <1>20, <1>21, <1>22, <1>23 DEF Elements
<1>25. InUse' = InUse
  BY <1>2 DEF InUse
<1>26. b \in InUse /\ \A f, n \in Nat, c \in Blocks : InIndex(f, n, c) => c # b
  BY <1>1, <1>3 DEF Inv, Owners, WithProducer, ProducerAt
<1>27. FreeFromPool'
  BY <1>2 DEF Inv, Owners, FreeFromPool
<1>28. InOneEntry'
  <2>1. \A f, n \in Nat, c \in Blocks : InIndex(f, n, c)' => c \in InUse
    BY <1>12, <1>26 DEF Inv, Owners, InOneEntry
  <2>2. ASSUME NEW f \in Nat, NEW g \in Nat, NEW n \in Nat, NEW m \in Nat, NEW c \in Blocks,
               InIndex(f, n, c)', InIndex(g, m, c)'
        PROVE  f = g
    <3>1. CASE c = b
      BY <1>12, <1>26, <2>2, <3>1
    <3>2. CASE c # b
      <4>1. InIndex(f, n, c) /\ InIndex(g, m, c)
        BY <1>12, <2>2, <3>2
      <4> QED BY <4>1 DEF Inv, Owners, InOneEntry
    <3> QED BY <3>1, <3>2
  <2> QED BY <1>25, <2>1, <2>2 DEF InOneEntry
<1>29. WithProducer'
  BY <1>2 DEF WithProducer, ProducerAt
<1>30. WithReader'
  <2>1. ASSUME NEW q \in Readers, reader[q].at = "free"
        PROVE  /\ reader[q].block \in InUse /\ reader[q].block # b
               /\ \A f, n \in Nat, c \in Blocks : InIndex(f, n, c)' => c # reader[q].block
    <3>1. reader[q].block # b /\ reader[q].block \in InUse
          /\ \A f, n \in Nat, c \in Blocks : InIndex(f, n, c) => c # reader[q].block
      BY <1>1, <1>3, <2>1 DEF Inv, Owners, WithReader, ProducerAt
    <3> QED BY <1>12, <3>1
  <2> QED BY <1>2, <1>25, <2>1 DEF Inv, Owners, WithReader, ProducerAt
<1>31. NoneLost'
  <2> SUFFICES ASSUME NEW c \in InUse
               PROVE  \/ \E f, n \in Nat : InIndex(f, n, c)'
                      \/ \E q \in Readers : reader'[q].at = "free" /\ reader'[q].block = c
    BY <1>25 DEF NoneLost
  <2>1. CASE c = b
    BY <1>7, <1>12, <2>1
  <2>2. CASE c # b
    <3>1. \/ \E f, n \in Nat : InIndex(f, n, c)
          \/ \E q \in Readers : reader[q].at = "free" /\ reader[q].block = c
      BY <1>1, <1>3, <2>2 DEF Inv, Owners, NoneLost, ProducerAt
    <3>2. \A f, n \in Nat : InIndex(f, n, c) => InIndex(f, n, c)'
      <4>1. \A f, n \in Nat : InIndex(f, n, c) => c \in Blocks
        BY DEF InIndex
      <4> QED BY <1>12, <4>1
    <3> QED BY <1>2, <3>1, <3>2
  <2> QED BY <2>1, <2>2
<1>32. Owners'
  BY <1>27, <1>28, <1>29, <1>30, <1>31 DEF Owners
<1> QED BY <1>13, <1>15, <1>24, <1>32

-----------------------------------------------------------------------------
(* Types                                                                   *)

\* Most steps of a reader change what it remembers, and nothing else.
LEMMA LocalTypes ==
    ASSUME TypeOK, reader' \in [Readers -> Locals],
           UNCHANGED <<queueVars, blockVars, entries, tailBlock, producer, delivered>>
    PROVE  TypeOK'
BY DEF TypeOK, queueVars, blockVars

LEMMA ClaimStepTypes ==
    ASSUME TypeOK, NEW r \in Readers, ClaimStep(r)
    PROVE  TypeOK'
<1>1. reader \in [Readers -> Locals] /\ tailIndex \in 0..MaxItems
      /\ dequeueOptimisticCount \in Nat /\ dequeueOvercommit \in Nat
  BY DEF TypeOK
<1>2. Polling \in Locals
  BY Sizes DEF Polling, Locals, NULL
<1>3. CASE SizeTail(r) \/ LoadTail(r)
  <2>1. reader' \in [Readers -> Locals]
    BY <1>1, <1>3 DEF SizeTail, LoadTail, Locals
  <2> QED BY <1>3, <2>1, LocalTypes DEF SizeTail, LoadTail, indexVars
<1>4. CASE SizeHead(r)
  <2>1. [Polling EXCEPT !.at = "dequeue"] \in Locals
    BY <1>2 DEF Locals
  <2>2. reader' \in [Readers -> Locals]
    <3>1. PICK l \in Locals : reader' = [reader EXCEPT ![r] = l]
      BY <1>2, <1>4, <2>1 DEF SizeHead, PollAgain
    <3> QED BY ONLY <1>1, <3>1
  <2> QED BY <1>4, <2>2, LocalTypes DEF SizeHead, indexVars
<1>5. CASE LoadOvercommit(r)
  <2>1. reader' \in [Readers -> Locals]
    <3>1. PICK o \in Nat : o = dequeueOvercommit
      BY <1>1
    <3>2. reader' = [reader EXCEPT ![r] = [reader[r] EXCEPT !.at = "look", !.overcommit = o]]
      BY <1>5, <3>1 DEF LoadOvercommit
    <3>3. [reader[r] EXCEPT !.at = "look", !.overcommit = o] \in Locals
      BY ONLY <1>1, <3>1 DEF Locals
    <3> QED BY ONLY <1>1, <3>2, <3>3
  <2> QED BY <1>5, <2>1, LocalTypes DEF LoadOvercommit, indexVars
<1>6. CASE LookForElement(r)
  <2>1. [reader[r] EXCEPT !.at = "claim"] \in Locals
    BY <1>1 DEF Locals
  <2>2. reader' \in [Readers -> Locals]
    <3>1. reader' = [reader EXCEPT ![r] = [reader[r] EXCEPT !.at = "claim"]]
          \/ reader' = [reader EXCEPT ![r] = Polling]
      BY <1>6 DEF LookForElement, PollAgain, ReaderTo
    <3>2. PICK l \in Locals : reader' = [reader EXCEPT ![r] = l]
      BY ONLY <1>2, <2>1, <3>1
    <3> QED BY ONLY <1>1, <3>2
  <2> QED BY <1>6, <2>2, LocalTypes DEF LookForElement, indexVars
<1>7. CASE CheckClaim(r)
  <2>1. reader' \in [Readers -> Locals]
    <3>1. PICK l \in {"take", "giveback"} : reader' = [reader EXCEPT ![r] = [reader[r] EXCEPT !.at = l]]
      BY <1>7 DEF CheckClaim, ReaderTo
    <3>2. [reader[r] EXCEPT !.at = l] \in Locals
      BY ONLY <1>1, <3>1 DEF Locals
    <3> QED BY ONLY <1>1, <3>1, <3>2
  <2> QED BY <1>7, <2>1, LocalTypes DEF CheckClaim, indexVars
<1>8. CASE Claim(r)
  <2>1. reader' \in [Readers -> Locals]
    <3>1. PICK o \in Nat : o = dequeueOptimisticCount
      BY <1>1
    <3>2. reader' = [reader EXCEPT ![r] = [reader[r] EXCEPT !.at = "check", !.count = o]]
      BY <1>8, <3>1 DEF Claim
    <3>3. [reader[r] EXCEPT !.at = "check", !.count = o] \in Locals
      BY ONLY <1>1, <3>1 DEF Locals
    <3> QED BY ONLY <1>1, <3>2, <3>3
  <2>2. dequeueOptimisticCount' \in Nat
    <3>1. PICK a \in Int, b \in Int : a = dequeueOptimisticCount + 1 /\ b = 0
      BY <1>1
    <3>2. Wrap(a) \in Nat
      BY WrapFacts
    <3> QED BY <1>8, <3>1, <3>2 DEF Claim
  <2> QED BY <1>8, <2>1, <2>2 DEF TypeOK, Claim, blockVars, indexVars
<1>9. CASE GiveBack(r)
  <2>1. reader' \in [Readers -> Locals]
    BY <1>1, <1>2, <1>9 DEF GiveBack, PollAgain
  <2>2. dequeueOvercommit' \in Nat
    <3>1. PICK a \in Int, b \in Int : a = dequeueOvercommit + 1 /\ b = 0
      BY <1>1
    <3>2. Wrap(a) \in Nat
      BY WrapFacts
    <3> QED BY <1>9, <3>1, <3>2 DEF GiveBack
  <2> QED BY <1>9, <2>1, <2>2 DEF TypeOK, GiveBack, blockVars, indexVars
<1> QED BY <1>3, <1>4, <1>5, <1>6, <1>7, <1>8, <1>9 DEF ClaimStep

LEMMA FindingTypes ==
    ASSUME Inv, NEW r \in Readers, TakeIndex(r) \/ LoadHeader(r) \/ LoadIndexTail(r) \/ LoadKey(r) \/ LoadBlock(r)
    PROVE  TypeOK'
<1>1. TypeOK /\ reader \in [Readers -> Locals] /\ RingTypes /\ Indexed
  BY IndexedTypes DEF Inv, IndexInv, Indexed
<1>2. Polling \in Locals
  BY Sizes DEF Polling, Locals, NULL
<1>3. CASE TakeIndex(r)
  <2>1. reader' \in [Readers -> Locals]
    <3>1. headIndex \in 0..MaxItems
      BY <1>1 DEF TypeOK
    <3>2. [Polling EXCEPT !.at = "header", !.index = headIndex] \in Locals
      BY <1>2, <3>1 DEF Locals
    <3> QED BY <1>1, <1>3, <3>2 DEF TakeIndex
  <2>2. headIndex' = headIndex + 1 /\ Claims' /\ tailIndex' = tailIndex
    BY <1>1, <1>3, ClaimsTaken DEF Inv, TakeIndex
  <2>3. headIndex + 1 <= tailIndex
    <3>1. Owned <= tailIndex /\ r \in At({"take"}) /\ At({"take"}) \in SUBSET Readers
      BY <1>1, <1>3, ClaimsCovered DEF Inv, At, TakeIndex, ReaderAt
    <3> DEFINE n == Cardinality(At({"take"}))
    <3>2. n \in Nat /\ n > 0
      BY <3>1, Counted
    <3>3. headIndex + n <= tailIndex
      BY <3>1 DEF Owned
    <3> HIDE DEF n
    <3>4. headIndex \in Nat /\ tailIndex \in Nat
      BY <1>1, IndexedTypes
    <3> QED BY <3>2, <3>3, <3>4
  <2>4. headIndex' \in 0..MaxItems
    <3>1. headIndex \in Nat /\ tailIndex \in 0..MaxItems /\ MaxItems \in Nat
      BY <1>1, IndexedTypes, Sizes DEF Indexed
    <3> QED BY <2>2, <2>3, <3>1
  <2> QED BY <1>1, <1>3, <2>1, <2>4 DEF TypeOK, TakeIndex, blockVars, indexVars
<1>4. CASE LoadHeader(r)
  <2>1. blockIndex \in Nat
    BY <1>1, RingFacts
  <2>2. reader' \in [Readers -> Locals]
    <3>1. PICK h \in Nat : h = blockIndex
      BY <2>1
    <3>2. reader' = [reader EXCEPT ![r] = [reader[r] EXCEPT !.at = "position", !.header = h]]
      BY <1>4, <3>1 DEF LoadHeader
    <3>3. [reader[r] EXCEPT !.at = "position", !.header = h] \in Locals
      BY ONLY <1>1, <3>1 DEF Locals
    <3> QED BY ONLY <1>1, <3>2, <3>3
  <2> QED BY <1>1, <1>4, <2>2, LocalTypes DEF LoadHeader, indexVars
<1>5. PICK B \in [Nat -> Nat] : RingsSearched(B)
  BY DEF Inv, IndexInv, Placed
<1>6. CASE LoadIndexTail(r)
  <2>1. headers[reader[r].header].tail \in Nat
    <3>1. reader[r].header \in DOMAIN headers
      BY <1>5, <1>6 DEF RingsSearched, LoadIndexTail, ReaderAt
    <3> QED BY <1>1, <3>1, RingFacts
  <2>2. reader' \in [Readers -> Locals]
    <3>1. PICK t \in Nat : t = headers[reader[r].header].tail
      BY <2>1
    <3>2. reader' = [reader EXCEPT ![r] = [reader[r] EXCEPT !.at = "key", !.position = t]]
      BY <1>6, <3>1 DEF LoadIndexTail
    <3>3. [reader[r] EXCEPT !.at = "key", !.position = t] \in Locals
      BY ONLY <1>1, <3>1 DEF Locals
    <3> QED BY ONLY <1>1, <3>2, <3>3
  <2> QED BY <1>1, <1>6, <2>2, LocalTypes DEF LoadIndexTail, indexVars
<1>7. CASE LoadKey(r)
  <2> DEFINE h == headers[reader[r].header]
             base == entries[h.index[reader[r].position]].key
             offset == (BlockBase(reader[r].index) - base) \div BLOCK_SIZE
             e == h.index[(reader[r].position + offset) % h.capacity]
  <2>1. reader[r].header \in DOMAIN headers /\ reader[r].position \in 0..(h.capacity - 1)
    BY <1>5, <1>7 DEF RingsSearched, LoadKey, ReaderAt
  <2>2. /\ h.capacity \in Nat \ {0}
        /\ \A p \in 0..(h.capacity - 1) : h.index[p] \in DOMAIN entries
        /\ \A f \in DOMAIN entries : entries[f].key \in Nat
        /\ DOMAIN entries \subseteq Nat
    BY <1>1, <2>1, RingFacts
  <2>3. base \in Nat
    BY <2>1, <2>2
  <2>4. BlockBase(reader[r].index) \in Nat
    <3>1. PICK i \in Nat : i = reader[r].index
      BY <1>1 DEF Locals
    <3>2. BlockBase(i) = BLOCK_SIZE * Block(i) /\ BLOCK_SIZE * Block(i) \in Nat
      BY BlockFacts
    <3> QED BY <3>1, <3>2
  <2>5. offset \in Int
    <3>1. PICK a \in Int : a = BlockBase(reader[r].index) - base
      BY <2>3, <2>4
    <3>2. a \div BLOCK_SIZE \in Int
      BY Sizes, Remainder
    <3> QED BY <3>1, <3>2
  <2> HIDE DEF offset
  <2>6. (reader[r].position + offset) % h.capacity \in 0..(h.capacity - 1)
    <3>1. PICK a \in Int : a = reader[r].position + offset
      BY <2>1, <2>5
    <3>2. a % h.capacity \in 0..(h.capacity - 1)
      BY <2>2, Remainder
    <3> QED BY <3>1, <3>2
  <2>7. e \in Nat
    BY <2>2, <2>6
  <2>8. reader' = [reader EXCEPT ![r].at = "value", ![r].header = 0, ![r].position = 0, ![r].entry = e]
    BY <1>7 DEF LoadKey, offset
  <2>9. PICK v \in Nat : v = e
    BY <2>7
  <2>10. reader' = [reader EXCEPT ![r] =
                       [reader[r] EXCEPT !.at = "value", !.header = 0, !.position = 0, !.entry = v]]
    <3>1. v = e /\ reader' = [reader EXCEPT ![r].at = "value", ![r].header = 0,
                                             ![r].position = 0, ![r].entry = e]
      BY <2>8, <2>9
    <3> HIDE DEF e
    <3> QED BY ONLY <3>1
  <2> HIDE DEF e
  <2>11. [reader[r] EXCEPT !.at = "value", !.header = 0, !.position = 0, !.entry = v] \in Locals
    <3>1. PICK l \in Locals : l = reader[r]
      BY <1>1
    <3>2. [l EXCEPT !.at = "value", !.entry = v] \in Locals
      BY ONLY <2>9, <3>1 DEF Locals
    <3>3. PICK k \in Locals : k = [l EXCEPT !.at = "value", !.entry = v]
      BY <3>2
    <3>4. [k EXCEPT !.header = 0, !.position = 0] \in Locals
      BY ONLY <3>3 DEF Locals
    <3>5. [k EXCEPT !.header = 0, !.position = 0]
             = [l EXCEPT !.at = "value", !.header = 0, !.position = 0, !.entry = v]
      BY ONLY <3>1, <3>3 DEF Locals
    <3> QED BY <3>1, <3>4, <3>5
  <2>12. reader' \in [Readers -> Locals]
    BY ONLY <1>1, <2>10, <2>11
  <2> QED BY <1>1, <1>7, <2>12, LocalTypes DEF LoadKey, indexVars
<1>8. CASE LoadBlock(r)
  <2>1. entries[reader[r].entry].value \in Blocks \cup {NULL}
    <3>1. PICK e \in Nat, i \in Nat : e = reader[r].entry /\ i = reader[r].index
      BY <1>1 DEF Locals
    <3>2. PICK b \in Blocks : InIndex(e, Block(i), b)
      BY <1>8, <3>1 DEF LoadBlock, ReaderAt, Found, Inv, Elements, EntryFound
    <3> QED BY <3>1, <3>2 DEF InIndex
  <2>2. reader' \in [Readers -> Locals]
    <3>1. PICK b \in Blocks \cup {NULL} : b = entries[reader[r].entry].value
      BY <2>1
    <3>2. reader' = [reader EXCEPT ![r] = [reader[r] EXCEPT !.at = "move", !.block = b]]
      BY <1>8, <3>1 DEF LoadBlock
    <3>3. [reader[r] EXCEPT !.at = "move", !.block = b] \in Locals
      BY ONLY <1>1, <3>1 DEF Locals
    <3> QED BY ONLY <1>1, <3>2, <3>3
  <2> QED BY <1>1, <1>8, <2>2, LocalTypes DEF LoadBlock, indexVars
<1> QED BY <1>3, <1>4, <1>6, <1>7, <1>8

\* The element that is moved is the one enqueued at the index that was taken.
LEMMA ElementHeld ==
    ASSUME Inv, NEW r \in Readers, reader[r].at = "move"
    PROVE  \E i \in Nat, b \in Blocks :
             /\ i = reader[r].index /\ b = reader[r].block /\ b \in InUse
             /\ blocks[b].slots[i % BLOCK_SIZE] = i + 1 /\ i < headIndex /\ i + 1 \in Items
<1>1. PICK e \in Nat, i \in Nat, b \in Blocks :
             /\ e = reader[r].entry /\ i = reader[r].index /\ b = reader[r].block
             /\ InIndex(e, Block(i), b) /\ Block(i) \in Nat /\ b \in InUse
  BY BlockInHand
<1>2. i < headIndex
  BY <1>1 DEF Inv, Elements, Indexes, Using
<1>3. headIndex \in Nat /\ tailIndex \in Nat /\ headIndex <= tailIndex /\ tailIndex <= MaxItems
      /\ MaxItems \in Nat
  BY IndexedTypes, ClaimsCovered, Sizes DEF Inv, Indexed
<1>4. i < Enqueued
  BY <1>2, <1>3 DEF Enqueued
<1>5. Unmoved(i)
  BY <1>1 DEF Unmoved, Holding
<1>6. blocks[b].slots[i % BLOCK_SIZE] = i + 1
  BY <1>1, <1>4, <1>5 DEF Inv, Elements, Contents
<1>7. i + 1 \in Items
  BY <1>2, <1>3 DEF Items
<1> QED BY <1>1, <1>2, <1>6, <1>7

LEMMA UsingTypes ==
    ASSUME Inv, NEW r \in Readers, MoveElement(r) \/ SetEmpty(r) \/ UnlinkBlock(r) \/ FreeBlock(r)
    PROVE  TypeOK'
<1>1. TypeOK /\ reader \in [Readers -> Locals] /\ RingTypes /\ Indexed
  BY IndexedTypes DEF Inv, IndexInv, Indexed
<1>2. Polling \in Locals
  BY Sizes DEF Polling, Locals, NULL
<1>3. /\ blocks \in [Blocks -> [slots : [Slots -> Items \cup {NULL}], emptied : 0..BLOCK_SIZE]]
      /\ delivered \in [Readers -> Seq(Items)]
  BY <1>1 DEF TypeOK
<1>4. CASE MoveElement(r)
  <2>1. PICK i \in Nat, b \in Blocks :
             /\ i = reader[r].index /\ b = reader[r].block
             /\ blocks[b].slots[i % BLOCK_SIZE] = i + 1 /\ i + 1 \in Items
    BY <1>4, ElementHeld DEF MoveElement, ReaderAt
  <2>2. PICK s \in Slots, x \in Items : s = i % BLOCK_SIZE /\ x = i + 1
    BY <2>1, BlockFacts
  <2>3. /\ delivered' = [delivered EXCEPT ![r] = Append(@, x)]
        /\ blocks' = [blocks EXCEPT ![b].slots[s] = NULL]
        /\ reader' = [reader EXCEPT ![r].at = "empty"]
    BY <1>4, <2>1, <2>2 DEF MoveElement, ReaderTo
  <2>4. delivered' \in [Readers -> Seq(Items)]
    BY <1>3, <2>3
  <2>5. blocks' \in [Blocks -> [slots : [Slots -> Items \cup {NULL}], emptied : 0..BLOCK_SIZE]]
    <3> DEFINE S == [slots : [Slots -> Items \cup {NULL}], emptied : 0..BLOCK_SIZE]
    <3>1. blocks \in [Blocks -> S]
      BY <1>3
    <3>2. blocks' = [blocks EXCEPT ![b] = [blocks[b] EXCEPT !.slots = [blocks[b].slots EXCEPT ![s] = NULL]]]
      BY <2>3
    <3>3. blocks[b].slots \in [Slots -> Items \cup {NULL}] /\ blocks[b] \in S
      BY <1>3
    <3>4. PICK t \in [Slots -> Items \cup {NULL}] : t = [blocks[b].slots EXCEPT ![s] = NULL]
      BY ONLY <2>2, <3>3
    <3>5. [blocks[b] EXCEPT !.slots = t] \in S
      BY ONLY <3>3, <3>4
    <3>6. blocks' = [blocks EXCEPT ![b] = [blocks[b] EXCEPT !.slots = t]]
      BY <3>2, <3>4
    <3> HIDE DEF S
    <3> QED BY ONLY <3>1, <3>5, <3>6 DEF S
  <2>6. reader' \in [Readers -> Locals]
    <3>1. [reader[r] EXCEPT !.at = "empty"] \in Locals
      BY <1>1 DEF Locals
    <3>2. reader' = [reader EXCEPT ![r] = [reader[r] EXCEPT !.at = "empty"]]
      BY <2>3
    <3> QED BY <1>1, <3>1, <3>2
  <2> QED BY <1>1, <1>4, <2>4, <2>5, <2>6 DEF TypeOK, MoveElement, queueVars, indexVars
<1>5. CASE SetEmpty(r)
  <2>1. PICK b \in Blocks : b = reader[r].block
    BY <1>5, BlockInHand DEF SetEmpty, ReaderAt
  <2>2. blocks[b].emptied < BLOCK_SIZE /\ blocks[b].emptied \in 0..BLOCK_SIZE
    BY <1>3, <1>5, <2>1, SetEmptyKeeps
  <2>3. blocks[b].emptied + 1 \in 0..BLOCK_SIZE
    BY <2>2, Sizes
  <2>4. blocks' = [blocks EXCEPT ![b].emptied = blocks[b].emptied + 1]
    BY <1>3, <1>5, <2>1 DEF SetEmpty
  <2>5. blocks' \in [Blocks -> [slots : [Slots -> Items \cup {NULL}], emptied : 0..BLOCK_SIZE]]
    BY <1>3, <2>3, <2>4
  <2>6. reader' \in [Readers -> Locals]
    <3>1. [reader[r] EXCEPT !.at = "unlink"] \in Locals
      BY <1>1 DEF Locals
    <3> QED BY <1>1, <1>2, <1>5, <3>1 DEF SetEmpty
  <2> QED BY <1>1, <1>5, <2>5, <2>6 DEF TypeOK, SetEmpty, queueVars, indexVars
<1>6. CASE UnlinkBlock(r)
  <2>1. PICK e \in Nat, i \in Nat, b \in Blocks : e = reader[r].entry /\ InIndex(e, Block(i), b)
    BY <1>6, BlockInHand DEF UnlinkBlock, ReaderAt
  <2>2. e \in DOMAIN entries
    BY <2>1 DEF InIndex, HasKey
  <2>3. PICK v \in Blocks \cup {NULL} : v = NULL
    OBVIOUS
  <2>4. entries' = [entries EXCEPT ![e].value = v]
    BY <1>6, <2>1, <2>3 DEF UnlinkBlock
  <2>5. entries' \in Seq(Entry)
    BY <1>1, <2>2, <2>4, ValueStored
  <2>6. reader' \in [Readers -> Locals]
    BY <1>1, <1>6 DEF UnlinkBlock, ReaderTo, Locals
  <2> QED BY <1>1, <1>6, <2>5, <2>6 DEF TypeOK, UnlinkBlock, queueVars, blockVars, Entry
<1>7. CASE FreeBlock(r)
  <2>1. reader' \in [Readers -> Locals]
    BY <1>1, <1>2, <1>7 DEF FreeBlock, PollAgain
  <2>2. reader[r].block \in InUse
    BY <1>7 DEF FreeBlock, ReaderAt, Inv, Owners, WithReader
  <2>3. reader[r].block \in Blocks
    <3>1. reader[r].block \in Blocks \cup {NULL}
      BY <1>1 DEF Locals
    <3>2. NULL \notin InUse
      <4>1. NULL \notin heap
        BY <1>1, BlockTypes DEF TypeOK, NULL
      <4>2. NULL \notin 1..initialBlockPoolIndex
        BY DEF NULL
      <4> QED BY <4>1, <4>2 DEF InUse
    <3> QED BY <2>2, <3>1, <3>2
  <2>4. /\ freeList' \subseteq {b \in Blocks : InPool(b)}
        /\ heap' \subseteq {b \in Blocks : ~InPool(b)}
    BY <1>1, <1>7, <2>3 DEF TypeOK, FreeBlock
  <2> QED BY <1>1, <1>7, <2>1, <2>4 DEF TypeOK, FreeBlock, queueVars, indexVars
<1> QED BY <1>4, <1>5, <1>6, <1>7

\* There are as many blocks as the producer may need.
LEMMA BlocksNeeded ==
    /\ (MaxItems + BLOCK_SIZE - 1) \div BLOCK_SIZE \in Nat
    /\ MaxItems > 0 => (MaxItems + BLOCK_SIZE - 1) \div BLOCK_SIZE <= MaxItems
<1>1. PICK c \in Nat \ {0}, M \in Nat : c = BLOCK_SIZE /\ M = MaxItems /\ c > 1
  BY Sizes
<1>2. PICK a \in Nat : a = M + c - 1
  BY <1>1
<1>3. PICK k \in Int, m \in Int : k = a \div c /\ m = a % c /\ m \in 0..(c - 1) /\ c * k \in Int /\ a = c * k + m
  BY Remainder
<1>4. k >= 0
  <2> SUFFICES ASSUME k <= -1 PROVE FALSE
    OBVIOUS
  <2>1. PICK n \in Int : n = -1
    OBVIOUS
  <2>2. c * k <= c * n
    BY <2>1, Monotone
  <2>3. c * n = -c
    BY <2>1
  <2> DEFINE u == c * k  v == c * n
  <2>4. u \in Int /\ v = -c /\ u <= v /\ a = u + m
    BY <1>3, <2>2, <2>3
  <2> HIDE DEF u, v
  <2> QED BY <1>3, <2>4
<1>5. ASSUME M > 0, k > M PROVE FALSE
  <2>1. PICK n \in Int, i \in Int : n = M + 1 /\ n <= k /\ i = 1 /\ i <= c
    BY <1>1, <1>5
  <2>2. c * n <= c * k
    BY <2>1, Monotone
  <2>3. M * i <= M * c
    BY <2>1, Monotone
  <2>4. c * n = M * c + c /\ M * i = M /\ M * c \in Int
    BY <2>1
  <2> DEFINE u == c * k  v == c * n  w == M * c  x == M * i
  <2>5. u \in Int /\ w \in Int /\ v <= u /\ x <= w /\ v = w + c /\ x = M /\ a = u + m
    BY <1>3, <2>2, <2>3, <2>4
  <2> HIDE DEF u, v, w, x
  <2>6. M + c <= a
    BY <1>3, <2>5
  <2> QED BY <1>1, <1>2, <2>6
<1> QED BY <1>1, <1>2, <1>3, <1>4, <1>5

LEMMA EnqueueTypes ==
    ASSUME Inv, Enqueue
    PROVE  TypeOK'
<1>1. /\ TypeOK /\ RingTypes /\ Enqueuing /\ tailIndex \in Nat /\ Indexed
      /\ reader \in [Readers -> Locals]
  BY IndexedTypes DEF Inv, IndexInv, Indexed
<1>2. /\ blocks \in [Blocks -> [slots : [Slots -> Items \cup {NULL}], emptied : 0..BLOCK_SIZE]]
      /\ producer \in [at : {"idle", "grow", "key", "tail", "block", "link", "publish"},
                       entry : Nat, block : Blocks \cup {NULL}]
  BY <1>1 DEF TypeOK
<1>3. CASE AddProducer
  BY <1>1, <1>3 DEF AddProducer, TypeOK, blockVars, indexVars
<1>4. ASSUME tailIndex < MaxItems PROVE tailIndex + 1 \in Items
  BY <1>1, <1>4, Sizes DEF Items
<1>5. CASE ConstructInTailBlock
  <2>1. tailBlock \in Blocks
    BY <1>5, TailBlockInIndex DEF ConstructInTailBlock, ProducerAt
  <2>2. PICK s \in Slots, x \in Items, b \in Blocks :
          s = tailIndex % BLOCK_SIZE /\ x = tailIndex + 1 /\ b = tailBlock
    BY <1>1, <1>4, <1>5, <2>1, BlockFacts DEF ConstructInTailBlock
  <2>3. blocks' = [blocks EXCEPT ![b].slots[s] = x] /\ producer' = [producer EXCEPT !.at = "publish"]
    BY <1>5, <2>2 DEF ConstructInTailBlock, ProducerTo
  <2>4. blocks' \in [Blocks -> [slots : [Slots -> Items \cup {NULL}], emptied : 0..BLOCK_SIZE]]
    BY ONLY <1>2, <2>3
  <2>5. producer' \in [at : {"idle", "grow", "key", "tail", "block", "link", "publish"},
                       entry : Nat, block : Blocks \cup {NULL}]
    BY ONLY <1>2, <2>3
  <2> QED BY <1>1, <1>5, <2>4, <2>5 DEF ConstructInTailBlock, TypeOK, queueVars, indexVars
<1>6. CASE FindEntry
  <2>1. headers[blockIndex].index[NextTail(blockIndex)] \in Nat
    <3>1. PICK a \in Int, c \in Nat \ {0} :
             /\ a = headers[blockIndex].tail + 1 /\ c = headers[blockIndex].capacity
             /\ \A p \in 0..(c - 1) : headers[blockIndex].index[p] \in Nat
      <4>1. /\ headers[blockIndex].capacity \in Nat \ {0}
            /\ headers[blockIndex].tail \in 0..(headers[blockIndex].capacity - 1)
        BY <1>1, RingFacts
      <4>2. \A p \in 0..(headers[blockIndex].capacity - 1) :
              headers[blockIndex].index[p] \in DOMAIN entries
        BY <1>1, RingFacts
      <4>3. DOMAIN entries \subseteq Nat
        BY <1>1, RingFacts
      <4>4. headers[blockIndex].tail + 1 \in Int
        BY <4>1
      <4> QED BY ONLY <4>1, <4>2, <4>3, <4>4
    <3>2. a % c \in 0..(c - 1)
      BY Remainder
    <3> QED BY <3>1, <3>2 DEF NextTail
  <2>2. PICK e \in Nat : e = headers[blockIndex].index[NextTail(blockIndex)]
    BY <2>1
  <2>3. producer' = [producer EXCEPT !.at = "key", !.entry = e] \/ producer' = [producer EXCEPT !.at = "grow"]
    BY <1>6, <2>2 DEF FindEntry
  <2>4. producer' \in [at : {"idle", "grow", "key", "tail", "block", "link", "publish"},
                       entry : Nat, block : Blocks \cup {NULL}]
    BY ONLY <1>2, <2>3
  <2> QED BY <1>1, <1>6, <2>4 DEF FindEntry, TypeOK, queueVars, blockVars, indexVars
<1>7. CASE NewBlockIndex
  <2>1. PICK c \in Nat, L \in Nat, x \in {Doubled(Ring)} : c = Ring.capacity /\ L = blockIndex /\ x = Doubled(Ring)
    BY <1>1, RingFacts DEF Ring
  <2>2. entries' \in Seq(Entry) /\ producer' = [producer EXCEPT !.at = "key", !.entry = c + 1]
    BY <1>1, <1>7, <2>1, IndexGrown
  <2>3. PICK e \in Nat : e = c + 1
    OBVIOUS
  <2>4. producer' = [producer EXCEPT !.at = "key", !.entry = e]
    BY <2>2, <2>3
  <2>5. producer' \in [at : {"idle", "grow", "key", "tail", "block", "link", "publish"},
                       entry : Nat, block : Blocks \cup {NULL}]
    BY ONLY <1>2, <2>4
  <2> QED BY <1>1, <1>7, <2>2, <2>5 DEF NewBlockIndex, TypeOK, queueVars, blockVars, Entry
<1>8. CASE StoreKey
  <2>1. /\ producer.at = "key" /\ tailIndex % BLOCK_SIZE = 0 /\ producer.entry \in DOMAIN entries
        /\ entries' = [entries EXCEPT ![producer.entry].key = tailIndex]
        /\ producer' = [producer EXCEPT !.at = "tail"]
    BY <1>1, <1>8 DEF StoreKey, Enqueuing, ProducerAt, ProducerTo
  <2>2. PICK d \in [Nat -> Int] : EntryReserved(d)
    BY DEF Inv, IndexInv, Placed
  <2>3. entries[producer.entry].value = NULL
    BY <2>1, <2>2 DEF EntryReserved
  <2>4. PICK e \in DOMAIN entries, n \in Nat, k \in Nat :
           e = producer.entry /\ n = Block(tailIndex) /\ k = tailIndex
    BY <1>1, <2>1, BlockFacts
  <2>5. k = BLOCK_SIZE * n
    BY <1>1, <2>1, <2>4, BlockEnds
  <2>6. entries[e].value = NULL /\ entries' = [entries EXCEPT ![e].key = k]
    BY <2>1, <2>3, <2>4
  <2>7. entries' \in Seq(Entry)
    BY <1>1, <2>5, <2>6, KeyStored
  <2>8. producer' \in [at : {"idle", "grow", "key", "tail", "block", "link", "publish"},
                       entry : Nat, block : Blocks \cup {NULL}]
    BY ONLY <1>2, <2>1
  <2> QED BY <1>1, <1>8, <2>7, <2>8 DEF StoreKey, TypeOK, queueVars, blockVars, Entry
<1>9. CASE StoreIndexTail
  <2>1. producer' = [producer EXCEPT !.at = "block"]
    BY <1>9 DEF StoreIndexTail, ProducerTo
  <2>2. producer' \in [at : {"idle", "grow", "key", "tail", "block", "link", "publish"},
                       entry : Nat, block : Blocks \cup {NULL}]
    BY ONLY <1>2, <2>1
  <2> QED BY <1>1, <1>9, <2>2 DEF StoreIndexTail, TypeOK, queueVars, blockVars
<1>10. CASE RequisitionBlock
  <2>1. producer.at = "block" /\ tailIndex < MaxItems /\ tailIndex % BLOCK_SIZE = 0
    BY <1>1, <1>10 DEF RequisitionBlock, ProducerAt, Enqueuing
  <2>2. PICK b \in Blocks :
           /\ FromPool(b) \/ FromFreeList(b) \/ FromHeap(b)
           /\ blocks' = [blocks EXCEPT ![b].emptied = 0, ![b].slots[0] = tailIndex + 1]
           /\ producer' = [producer EXCEPT !.at = "link", !.block = b]
    BY <1>10, <2>1 DEF RequisitionBlock, Emptied
  <2>3. PICK s \in Slots, x \in Items, z \in 0..BLOCK_SIZE : s = 0 /\ x = tailIndex + 1 /\ z = 0
    BY <1>4, <2>1, Sizes DEF Slots
  <2>4. blocks' = [blocks EXCEPT ![b].emptied = z, ![b].slots[s] = x]
    BY <2>2, <2>3
  <2>5. blocks' \in [Blocks -> [slots : [Slots -> Items \cup {NULL}], emptied : 0..BLOCK_SIZE]]
    BY ONLY <1>2, <2>4
  <2>6. producer' \in [at : {"idle", "grow", "key", "tail", "block", "link", "publish"},
                       entry : Nat, block : Blocks \cup {NULL}]
    BY ONLY <1>2, <2>2
  <2>7. /\ initialBlockPoolIndex' \in 0..PoolSize /\ allocations' \in Nat
        /\ freeList' \subseteq freeList /\ heap' \subseteq heap \cup {b}
        /\ b \in heap' \ heap => ~InPool(b)
        /\ allocations' # allocations => b = PoolSize + allocations'
    BY <2>2, BlockObtained
  <2>8. freeList' \subseteq {c \in Blocks : InPool(c)} /\ heap' \subseteq {c \in Blocks : ~InPool(c)}
    BY <1>1, <2>7 DEF TypeOK
  <2>9. allocations' \in 0..MaxItems
    <3>1. CASE allocations' = allocations
      BY <1>1, <3>1 DEF TypeOK
    <3>2. CASE allocations' # allocations
      <4>0. tailIndex < MaxItems /\ MaxItems \in Nat /\ PoolSize \in Nat
        BY <2>1, Sizes
      <4>6. MaxItems > 0
        BY ONLY <4>0, <1>1
      <4>1. PICK k \in Nat : k = (MaxItems + BLOCK_SIZE - 1) \div BLOCK_SIZE /\ k <= MaxItems
        BY <4>6, BlocksNeeded
      <4>2. b \in 1..(PoolSize + k)
        BY <4>1 DEF Blocks
      <4>3. b = PoolSize + allocations'
        BY <2>7, <3>2
      <4>4. PICK a \in Nat : a = allocations' /\ b = PoolSize + a
        BY <2>7, <4>3
      <4>5. k <= MaxItems
        BY <4>1
      <4>7. a <= MaxItems
        <5>2. MaxItems \in Nat /\ PoolSize \in Nat
          BY <4>0
        <5>3. b = PoolSize + a
          BY <4>4
        <5>4. PoolSize + a \in 1..(PoolSize + k)
          BY <4>2, <5>3
        <5>1. MaxItems \in Nat /\ PoolSize \in Nat /\ PoolSize + a <= PoolSize + k
          BY ONLY <5>2, <5>4
        <5> QED BY ONLY <4>5, <5>1
      <4> QED BY ONLY <4>0, <4>4, <4>7
    <3> QED BY <3>1, <3>2
  <2> QED BY <1>1, <1>10, <2>5, <2>6, <2>7, <2>8, <2>9 DEF RequisitionBlock, TypeOK, queueVars, indexVars
<1>11. CASE LinkBlock
  <2>1. producer.at = "link" /\ producer.entry \in DOMAIN entries /\ producer.block \in Blocks
    BY <1>1, <1>11 DEF LinkBlock, ProducerAt, Enqueuing, Inv, Elements, Prepared
  <2>2. PICK e \in DOMAIN entries, v \in Blocks \cup {NULL} : e = producer.entry /\ v = producer.block
    BY <2>1
  <2>3. entries' = [entries EXCEPT ![e].value = v]
    BY <1>11, <2>2 DEF LinkBlock
  <2>4. entries' \in Seq(Entry)
    BY <1>1, <2>3, ValueStored
  <2>5. tailBlock' \in Blocks \cup {NULL}
    BY <1>11, <2>1 DEF LinkBlock
  <2>6. producer' = [at |-> "publish", entry |-> 0, block |-> NULL]
    BY <1>11 DEF LinkBlock, Idle, NULL
  <2>7. producer' \in [at : {"idle", "grow", "key", "tail", "block", "link", "publish"},
                       entry : Nat, block : Blocks \cup {NULL}]
    BY ONLY <2>6
  <2> QED BY <1>1, <1>11, <2>4, <2>5, <2>7 DEF LinkBlock, TypeOK, queueVars, blockVars, Entry
<1>12. CASE Publish
  <2>1. tailIndex < MaxItems /\ tailIndex' = tailIndex + 1
    BY <1>1, <1>12, PublishKeeps DEF Enqueuing, Publish, ProducerAt
  <2>2. tailIndex' \in 0..MaxItems
    BY <1>1, <2>1, Sizes
  <2>3. producer' = [at |-> "idle", entry |-> 0, block |-> NULL]
    BY <1>12 DEF Publish, Idle, NULL
  <2>4. producer' \in [at : {"idle", "grow", "key", "tail", "block", "link", "publish"},
                       entry : Nat, block : Blocks \cup {NULL}]
    BY ONLY <2>3
  <2> QED BY <1>1, <1>12, <2>2, <2>4 DEF Publish, TypeOK, blockVars, indexVars
<1> QED BY <1>3, <1>5, <1>6, <1>7, <1>8, <1>9, <1>10, <1>11, <1>12 DEF Enqueue

-----------------------------------------------------------------------------
(* The invariant                                                           *)

LEMMA TypesStep ==
    ASSUME Inv, [Next]_vars
    PROVE  TypeOK'
<1>1. ASSUME NEW r \in Readers, DequeueStep(r) PROVE TypeOK'
  <2>1. CASE ClaimStep(r)
    BY <2>1, ClaimStepTypes DEF Inv
  <2>2. CASE TakeIndex(r) \/ LoadHeader(r) \/ LoadIndexTail(r) \/ LoadKey(r) \/ LoadBlock(r)
    BY <2>2, FindingTypes
  <2>3. CASE MoveElement(r) \/ SetEmpty(r) \/ UnlinkBlock(r) \/ FreeBlock(r)
    BY <2>3, UsingTypes
  <2> QED BY <1>1, <2>1, <2>2, <2>3 DEF DequeueStep, ClaimStep
<1>2. CASE UNCHANGED vars
  <2>1. UNCHANGED <<queueVars, blockVars, entries, headers, tailBlock, producer, delivered, reader>>
    BY <1>2 DEF vars, queueVars, blockVars, indexVars
  <2> QED BY <2>1, LocalTypes DEF Inv, TypeOK
<1> QED BY <1>1, <1>2, EnqueueTypes DEF Next

LEMMA InvStep ==
    ASSUME Inv, NoReaderLags', [Next]_vars
    PROVE  Inv'
<1> TypeOK'
  BY TypesStep
<1>1. CASE Enqueue
  <2>2. Claims' /\ IndexInv' /\ Elements' /\ Owners'
    BY <1>1, AddProducerKeeps, ConstructKeeps, FindEntryKeeps, NewBlockIndexKeeps, StoreKeyKeeps,
       StoreIndexTailKeeps, RequisitionBlockKeeps, LinkBlockKeeps, PublishKeeps DEF Enqueue
  <2> QED BY <2>2 DEF Inv
<1>2. ASSUME NEW r \in Readers, DequeueStep(r) PROVE Inv'
  <2>1. CASE ClaimStep(r)
    BY <2>1, ClaimStepRest, ClaimStepClaims DEF Inv
  <2>2. CASE TakeIndex(r) \/ LoadHeader(r) \/ LoadIndexTail(r) \/ LoadKey(r) \/ LoadBlock(r)
    BY <2>2, TakeIndexKeeps, LoadHeaderKeeps, LoadIndexTailKeeps, LoadKeyKeeps,
       LoadBlockKeeps DEF Inv
  <2>3. CASE MoveElement(r) \/ SetEmpty(r) \/ UnlinkBlock(r) \/ FreeBlock(r)
    BY <2>3, MoveElementKeeps, SetEmptyKeeps, UnlinkBlockKeeps, FreeBlockKeeps DEF Inv
  <2> QED BY <1>2, <2>1, <2>2, <2>3 DEF DequeueStep, ClaimStep
<1>3. CASE UNCHANGED vars
  <2>1. UNCHANGED <<queueVars, blockVars, entries, headers, tailBlock, producer, delivered, reader>>
    BY <1>3 DEF vars, queueVars, blockVars, indexVars
  <2>3. Claims' /\ Elements' /\ Owners'
    BY <2>1, SameIndex, QuietKeeps DEF queueVars
  <2>4. IndexInv'
    BY <2>1, IndexKept DEF Inv, queueVars
  <2> QED BY <2>3, <2>4 DEF Inv
<1> QED BY <1>1, <1>2, <1>3 DEF Next

LEMMA InitTypes ==
    ASSUME Init
    PROVE  TypeOK /\ \A r \in Readers : reader[r].at = "poll"
<1>1. /\ listed = FALSE /\ tailIndex = 0 /\ headIndex = 0 /\ dequeueOptimisticCount = 0
      /\ dequeueOvercommit = 0 /\ tailBlock = NULL /\ initialBlockPoolIndex = 0 /\ freeList = {}
      /\ heap = {} /\ allocations = 0
  BY DEF Init
<1>2. blocks = [b \in Blocks |-> [slots |-> [i \in Slots |-> NULL], emptied |-> 0]]
  BY DEF Init
<1>3. blocks \in [Blocks -> [slots : [Slots -> Items \cup {NULL}], emptied : 0..BLOCK_SIZE]]
  <2>1. 0 \in 0..BLOCK_SIZE
    BY Sizes
  <2> QED BY ONLY <1>2, <2>1
<1>4. entries \in Seq(Entry)
  <2>1. PICK z : z = [key |-> INVALID_BLOCK_BASE, value |-> NULL]
    OBVIOUS
  <2>2. entries = [i \in 1..IndexSize |-> z] /\ IndexSize \in Nat
    BY <2>1, Sizes DEF Init, NewEntries
  <2>3. z \in Entry
    BY <2>1 DEF Entry, INVALID_BLOCK_BASE, NULL
  <2> QED BY ONLY <2>2, <2>3
<1>5. producer \in [at : {"idle", "grow", "key", "tail", "block", "link", "publish"},
                    entry : Nat, block : Blocks \cup {NULL}]
  <2>1. producer = [at |-> "idle", entry |-> 0, block |-> NULL]
    BY DEF Init, Idle, NULL
  <2> QED BY ONLY <2>1
<1>6. reader \in [Readers -> Locals] /\ \A r \in Readers : reader[r].at = "poll"
  <2>1. Polling \in Locals /\ Polling.at = "poll"
    BY Sizes DEF Polling, Locals, NULL
  <2>2. reader = [r \in Readers |-> Polling]
    BY DEF Init
  <2> QED BY ONLY <2>1, <2>2
<1>7. delivered \in [Readers -> Seq(Items)]
  BY DEF Init
<1>8. /\ listed \in BOOLEAN /\ {tailIndex, headIndex} \subseteq 0..MaxItems
      /\ {dequeueOptimisticCount, dequeueOvercommit} \subseteq Nat
      /\ tailBlock \in Blocks \cup {NULL} /\ initialBlockPoolIndex \in 0..PoolSize
      /\ freeList \subseteq {b \in Blocks : InPool(b)} /\ heap \subseteq {b \in Blocks : ~InPool(b)}
      /\ allocations \in 0..MaxItems
  <2>1. MaxItems \in Nat /\ PoolSize \in Nat
    BY Sizes
  <2>2. 0 \in 0..MaxItems /\ 0 \in 0..PoolSize /\ 0 \in Nat
    BY <2>1
  <2>3. {tailIndex, headIndex} \subseteq 0..MaxItems
    BY <1>1, <2>2
  <2>4. {dequeueOptimisticCount, dequeueOvercommit} \subseteq Nat
    BY <1>1, <2>2
  <2>5. listed \in BOOLEAN
    BY <1>1
  <2> QED BY <1>1, <2>2, <2>3, <2>4, <2>5
<1>9. entries \in Seq([key : Nat, value : Blocks \cup {NULL}])
  BY <1>4 DEF Entry
<1> QED BY ONLY <1>3, <1>5, <1>6, <1>7, <1>8, <1>9 DEF TypeOK

LEMMA InitIndex ==
    ASSUME Init
    PROVE  IndexInv /\ \A e, n \in Nat, b \in Blocks : ~InIndex(e, n, b)
<1>1. PICK c \in Nat \ {0} : c = IndexSize /\ c > 1
  BY Sizes
<1>2. DOMAIN entries = 1..c /\ Len(entries) = c
      /\ \A e \in 1..c : entries[e].key = INVALID_BLOCK_BASE /\ entries[e].value = NULL
  <2>1. entries = [i \in 1..c |-> [key |-> INVALID_BLOCK_BASE, value |-> NULL]]
    BY <1>1 DEF Init, NewEntries
  <2> QED BY ONLY <2>1
<1>3. headers = <<FirstHeader>>
  BY DEF Init
<1>4. blockIndex = 1 /\ DOMAIN headers = {1} /\ Ring = FirstHeader /\ headers[1] = FirstHeader
      /\ headers # <<>>
  BY <1>3 DEF blockIndex, Ring
<1>5. /\ FirstHeader.capacity = c /\ FirstHeader.tail = c - 1
      /\ FirstHeader.index = [i \in 0..(c - 1) |-> i + 1]
  BY <1>1 DEF FirstHeader
<1>6. FirstHeader.index \in [0..(c - 1) -> 1..c]
  BY <1>5
<1>7. FirstHeader \in Header
  <2>1. PICK a, b, f : FirstHeader = [capacity |-> a, tail |-> b, index |-> f]
    BY DEF FirstHeader
  <2>2. PICK T \in SUBSET Nat : T = 0..(c - 1)
    OBVIOUS
  <2>3. f \in [T -> Nat]
    BY <1>6, <2>1, <2>2
  <2>4. f \in UNION {[S -> Nat] : S \in SUBSET Nat}
    BY <2>3
  <2>5. a \in Nat /\ b \in Nat
    BY <1>5, <2>1
  <2> QED BY <2>1, <2>4, <2>5 DEF Header
<1>8. \A e, n \in Nat : ~HasKey(e, n)
  <2>1. \A n \in Nat : BLOCK_SIZE * n # INVALID_BLOCK_BASE
    BY KeysDiffer
  <2> QED BY <1>2, <2>1 DEF HasKey
<1>9. \A e, n \in Nat, b \in Blocks : ~InIndex(e, n, b)
  BY <1>8 DEF InIndex
<1>10. producer.at = "idle" /\ tailIndex = 0 /\ \A r \in Readers : reader[r].at = "poll"
  BY InitTypes DEF Init, Idle
<1>11. Block(tailIndex) = 0 /\ Keyed = 0 /\ Tailed = 0
  <2>1. PICK z \in Nat, s \in Slots : z = 0 /\ s = 0
    BY Sizes DEF Slots
  <2>2. BLOCK_SIZE * z + s = 0
    BY <2>1, Sizes
  <2>3. Block(0) = 0 /\ 0 % BLOCK_SIZE = 0
    BY <2>1, <2>2, BlockAt
  <2>4. Block(z + BLOCK_SIZE - 1) = Block(z)
    BY <2>1, <2>3, BlockEnds
  <2> QED BY <1>10, <2>1, <2>3, <2>4 DEF Keyed, Tailed, ProducerAt
<1>12. RingTypes
  <2>1. headers \in Seq(Header)
    BY <1>3, <1>7
  <2>2. \A h \in DOMAIN headers : RingOK(headers[h])
    BY <1>2, <1>4, <1>5, <1>6 DEF RingOK
  <2>3. \A p, q \in 0..(c - 1) : FirstHeader.index[p] = FirstHeader.index[q] => p = q
    BY <1>5
  <2> QED BY <1>2, <1>4, <1>5, <2>1, <2>2, <2>3 DEF RingTypes
<1>13. KeyTypes
  BY <1>2 DEF KeyTypes
<1>14. Enqueuing
  BY <1>10 DEF Enqueuing, ProducerAt
<1>15. TailKeys
  BY <1>4, <1>11 DEF TailKeys
<1>16. Placed
  <2>1. PICK d \in [Nat -> Int], B \in [Nat -> Nat] : d[1] = 0
    <3>1. [n \in Nat |-> 0] \in [Nat -> Int] /\ [n \in Nat |-> 0] \in [Nat -> Nat]
      OBVIOUS
    <3>2. [n \in Nat |-> 0][1] = 0
      OBVIOUS
    <3> QED BY <3>1, <3>2
  <2>2. FirstHeader.tail = Place(FirstHeader, d[1], Tailed - 1)
    <3>1. PICK z \in Int, r \in 0..(c - 1), m \in Int : z = -1 /\ r = c - 1 /\ m = -1
      OBVIOUS
    <3>2. (c * z + r) % c = r
      BY Division
    <3>3. c * z + r = m
      BY <3>1
    <3>4. (Tailed - 1) - d[1] = m
      BY <1>11, <2>1, <3>1
    <3> QED BY <1>5, <3>1, <3>2, <3>3, <3>4 DEF Place
  <2>3. \A p \in 0..(c - 1), n \in Nat :
          FirstHeader.index[p] = EntryFor(FirstHeader, d[1], n) => Place(FirstHeader, d[1], n) = p
    <3> SUFFICES ASSUME NEW p \in 0..(c - 1), NEW n \in Nat,
                        FirstHeader.index[p] = EntryFor(FirstHeader, d[1], n)
                 PROVE  Place(FirstHeader, d[1], n) = p
      OBVIOUS
    <3>6. n - d[1] \in Int
      BY <2>1
    <3>1. PICK a \in Int : a = n - d[1]
      BY <3>6
    <3>2. PICK q \in Int : q = a % c /\ q \in 0..(c - 1)
      <4>1. a % c \in 0..(c - 1)
        BY Remainder
      <4> QED BY ONLY <4>1
    <3>3. Place(FirstHeader, d[1], n) = q
      BY <1>5, <3>1, <3>2 DEF Place
    <3>4. FirstHeader.index[p] = FirstHeader.index[q]
      BY <3>3 DEF EntryFor
    <3>5. p + 1 = q + 1
      BY <1>5, <3>2, <3>4
    <3> QED BY <3>2, <3>3, <3>5
  <2>4. Rings(d, B)
    <3>1. Ring.tail = Place(Ring, d[blockIndex], Tailed - 1)
      BY <1>4, <2>2
    <3>2. \A h \in DOMAIN headers : h = 1 /\ headers[h] = FirstHeader /\ h = blockIndex
      BY <1>4
    <3>3. \A h \in DOMAIN headers : \A p \in 0..(headers[h].capacity - 1), n \in Nat :
             headers[h].index[p] = EntryFor(Ring, d[blockIndex], n) =>
                 Place(headers[h], d[h], n) = p
      <4> SUFFICES ASSUME NEW h \in DOMAIN headers, NEW p \in 0..(headers[h].capacity - 1),
                          NEW n \in Nat, headers[h].index[p] = EntryFor(Ring, d[blockIndex], n)
                   PROVE  Place(headers[h], d[h], n) = p
        OBVIOUS
      <4>1. h = 1 /\ headers[h] = FirstHeader /\ blockIndex = 1 /\ Ring = FirstHeader
        BY <1>4, <3>2
      <4>2. p \in 0..(c - 1)
        BY <1>5, <4>1
      <4>3. FirstHeader.index[p] = EntryFor(FirstHeader, d[1], n)
        BY <4>1
      <4> QED BY <2>3, <4>1, <4>2, <4>3
    <3> QED BY ONLY <1>8, <1>9, <3>1, <3>2, <3>3 DEF Rings
  <2>5. EntryReserved(d) /\ RingsSearched(B)
    BY <1>10 DEF EntryReserved, RingsSearched
  <2> QED BY <2>4, <2>5 DEF Placed
<1> QED BY <1>9, <1>12, <1>13, <1>14, <1>15, <1>16 DEF IndexInv

LEMMA InvInit ==
    ASSUME Init
    PROVE  Inv
<1>1. TypeOK /\ \A r \in Readers : reader[r].at = "poll"
  BY InitTypes
<1>2. IndexInv /\ \A e, n \in Nat, b \in Blocks : ~InIndex(e, n, b)
  BY InitIndex
<1>3. /\ tailIndex = 0 /\ headIndex = 0 /\ dequeueOptimisticCount = 0 /\ dequeueOvercommit = 0
      /\ initialBlockPoolIndex = 0 /\ freeList = {} /\ heap = {} /\ producer.at = "idle"
  BY DEF Init, Idle
<1>4. Claims
  <2>1. PICK t \in [Readers -> Nat] : t = [r \in Readers |-> 0]
    BY Zenon
  <2>2. PICK z \in Nat, s \in Int : z = 0 /\ s = -1
    OBVIOUS
  <2>3. At({"take"}) = {} /\ Undecided = {}
    BY <1>1 DEF At, Undecided
  <2>4. Wrap(z) = z
    <3>1. PICK b \in Int : b = 0
      OBVIOUS
    <3>2. 0 <= z /\ z < 2 * HalfRange
      BY <2>2, Sizes
    <3> QED BY <3>1, <3>2, WrapFacts
  <2>5. ClaimCounts(z, z, t, t)
    BY <1>1, <1>3, <2>2, <2>4 DEF ClaimCounts, Deciding
  <2>6. Cardinality(At({"take"})) = 0 /\ Cardinality(Undecided) = 0
        /\ Cardinality({r \in Undecided : t[r] <= s}) = 0
    <3>1. {r \in Undecided : t[r] <= s} = {}
      BY <2>3
    <3> QED BY <2>3, <3>1, FS_EmptySet
  <2>7. ClaimOrder(z, z, t, t, s)
    BY <1>1, <1>3, <2>2, <2>3, <2>6 DEF ClaimOrder, Owned
  <2> QED BY <2>5, <2>7 DEF Claims
<1>5. Elements
  <2>1. Indexes /\ EntryFound /\ Unlinking
    BY <1>1, <1>2 DEF Indexes, EntryFound, Found, Unlinking, Using
  <2>2. BlocksLive
    <3>1. \A i \in Nat : BLOCK_SIZE * Block(i) \in Nat
      BY BlockFacts
    <3>2. Enqueued = 0
      BY <1>3 DEF Enqueued, ProducerAt
    <3> QED BY <3>1, <3>2 DEF BlocksLive
  <2>3. Contents
    BY <1>2, BlockFacts DEF Contents
  <2>4. Counts /\ Prepared /\ TailBlock
    BY <1>2, <1>3 DEF Counts, Prepared, TailBlock, ProducerAt
  <2> QED BY <2>1, <2>2, <2>3, <2>4 DEF Elements
<1>6. Owners
  <2>1. InUse = {}
    BY <1>3 DEF InUse
  <2>2. FreeFromPool
    BY <1>3 DEF FreeFromPool
  <2> QED BY <1>1, <1>2, <1>3, <2>1, <2>2
        DEF Owners, InOneEntry, WithProducer, WithReader, NoneLost, ProducerAt
<1> QED BY <1>1, <1>2, <1>4, <1>5, <1>6 DEF Inv

\* The invariant: claims, index, elements and blocks are as above in every state,
\* with any number of readers, none of which is suspended in its decision on a
\* claim for as many claims given back as the indexes can count.
THEOREM QueueInvariant == Spec /\ []NoReaderLags => []Inv
<1>1. Init => Inv
  BY InvInit
<1>2. Inv /\ NoReaderLags' /\ [Next]_vars => Inv'
  BY InvStep
<1> QED BY <1>1, <1>2, PTL DEF Spec

-----------------------------------------------------------------------------
(* What the invariant means to the users of the queue                      *)

LEMMA AccessIsSafe ==
    ASSUME Inv
    PROVE  SafeAccess
<1> SUFFICES ASSUME NEW r \in Readers, reader[r].at = "move"
             PROVE  /\ reader[r].block # NULL
                    /\ InPool(reader[r].block) \/ reader[r].block \in heap
                    /\ reader[r].block \notin freeList
                    /\ blocks[reader[r].block].slots[reader[r].index % BLOCK_SIZE]
                          = reader[r].index + 1
  BY DEF SafeAccess, ReaderAt
<1>1. PICK i \in Nat, b \in Blocks :
             /\ i = reader[r].index /\ b = reader[r].block /\ b \in InUse
             /\ blocks[b].slots[i % BLOCK_SIZE] = i + 1
  BY ElementHeld
<1>2. b # NULL
  BY BlockTypes DEF NULL, Inv
<1>3. b \notin freeList /\ (b \in 1..initialBlockPoolIndex \/ b \in heap)
  BY <1>1 DEF InUse
<1>4. initialBlockPoolIndex \in 0..PoolSize /\ PoolSize \in Nat
  BY Sizes DEF Inv, TypeOK
<1>5. b \in 1..initialBlockPoolIndex => InPool(b)
  BY <1>4 DEF InPool
<1> QED BY <1>1, <1>2, <1>3, <1>5

LEMMA ClaimsAddUp ==
    ASSUME Inv
    PROVE  ClaimsBalanced
<1>1. PICK C \in Nat, O \in Nat, t \in [Readers -> Nat], o \in [Readers -> Nat], s \in Int :
         ClaimCounts(C, O, t, o) /\ ClaimOrder(C, O, t, o, s)
  BY DEF Inv, Claims
<1>2. Indexed /\ headIndex \in Nat /\ tailIndex \in 0..MaxItems /\ headIndex <= tailIndex
      /\ Owned <= tailIndex
  BY IndexedTypes, ClaimsCovered DEF Inv, Indexed
<1> DEFINE h == headIndex  k == Cardinality(At({"take"}))  u == Cardinality(Undecided)
           p == Cardinality(At(Pending))  n == Cardinality(Readers)
<1>3. /\ IsFiniteSet(At({"take"})) /\ IsFiniteSet(Undecided) /\ k \in Nat /\ u \in Nat /\ p \in Nat
      /\ p <= n /\ n \in Nat
  <2>1. At({"take"}) \in SUBSET Readers /\ Undecided \in SUBSET Readers /\ At(Pending) \in SUBSET Readers
    BY DEF At, Undecided
  <2> QED BY <2>1, Counted, Sizes
<1>4. p = k + u
  <2>1. At(Pending) = At({"take"}) \cup Undecided /\ At({"take"}) \cap Undecided = {}
    BY DEF At, Undecided, Pending
  <2>2. Cardinality(At({"take"}) \cup Undecided)
          = k + u - Cardinality(At({"take"}) \cap Undecided)
    BY <1>3, FS_Union
  <2>3. Cardinality(At({"take"}) \cap Undecided) = 0
    BY <2>1, FS_EmptySet
  <2> DEFINE v == Cardinality(At({"take"}) \cup Undecided)  w == Cardinality(At({"take"}) \cap Undecided)
  <2>4. p = v /\ v = k + u - w /\ w = 0
    BY <2>1, <2>2, <2>3
  <2> HIDE DEF v, w, p, k, u
  <2> QED BY <1>3, <2>4
<1>5. C = (h + k) + O + u
  BY <1>1 DEF ClaimOrder, Owned
<1> HIDE DEF k, u, p, n, h
<1>6. PICK a \in Int : a = C - O /\ a = h + p /\ 0 <= a
  BY <1>2, <1>3, <1>4, <1>5 DEF h
<1>7. a < 2 * HalfRange
  <2>1. MaxItems \in Nat /\ HalfRange \in Nat /\ MaxItems + n < HalfRange
    BY Sizes DEF n
  <2>2. h \in Nat /\ h <= MaxItems
    BY <1>2, <2>1 DEF h
  <2> QED BY <1>3, <1>6, <2>1, <2>2
<1>8. Wrap(Wrap(C) - Wrap(O)) = Wrap(a)
  BY <1>6, WrapFacts
<1>9. Wrap(a) = a
  <2>1. PICK z \in Int : z = 0
    OBVIOUS
  <2> QED BY <1>6, <1>7, <2>1, WrapFacts
<1>10. Wrap(dequeueOptimisticCount - dequeueOvercommit) = headIndex + p
  BY <1>1, <1>6, <1>8, <1>9 DEF ClaimCounts, h
<1>11. headIndex + k <= tailIndex
  BY <1>2 DEF Owned, k
<1> QED BY <1>10, <1>11 DEF ClaimsBalanced, p, k, At

LEMMA BlocksAddUp ==
    ASSUME Inv
    PROVE  BlocksAccounted
<1> SUFFICES ASSUME NEW b \in (1..initialBlockPoolIndex) \cup heap
             PROVE  /\ Cardinality(Linked(b)) + Cardinality(Releasing(b))
                         + (IF Requisitioned(b) THEN 1 ELSE 0) + (IF b \in freeList THEN 1 ELSE 0) = 1
                    /\ Linked(b) # {} /\ blocks[b].emptied = BLOCK_SIZE =>
                         \E r \in Readers : reader[r].at = "unlink" /\ reader[r].block = b
  BY DEF BlocksAccounted, ReaderAt
<1>1. TypeOK /\ RingTypes /\ KeyTypes
  BY DEF Inv, IndexInv
<1>2. b \in Blocks /\ b # NULL
  <2>1. initialBlockPoolIndex \in 0..PoolSize /\ heap \subseteq Blocks /\ PoolSize \in Nat
    BY <1>1, Sizes DEF TypeOK
  <2>2. (MaxItems + BLOCK_SIZE - 1) \div BLOCK_SIZE \in Nat
    BY BlocksNeeded
  <2>3. 1..PoolSize \subseteq Blocks
    BY <2>1, <2>2 DEF Blocks
  <2>4. 1..initialBlockPoolIndex \subseteq 1..PoolSize
    BY <2>1
  <2>5. b \in Blocks
    BY <2>1, <2>3, <2>4
  <2> QED BY <1>1, <2>5, BlockTypes DEF NULL
<1>3. \A e : e \in Linked(b) <=> \E n \in Nat : e \in Nat /\ InIndex(e, n, b)
  <2> SUFFICES ASSUME NEW e PROVE e \in Linked(b) <=> \E n \in Nat : e \in Nat /\ InIndex(e, n, b)
    OBVIOUS
  <2>1. ASSUME e \in Linked(b) PROVE \E n \in Nat : e \in Nat /\ InIndex(e, n, b)
    <3>1. e \in DOMAIN entries /\ entries[e].value = b /\ DOMAIN entries \subseteq Nat
      BY <1>1, <2>1, RingFacts DEF Linked
    <3>2. PICK n \in Nat : HasKey(e, n)
      BY <1>1, <1>2, <3>1 DEF KeyTypes
    <3> QED BY <1>2, <3>1, <3>2 DEF InIndex
  <2>2. ASSUME NEW n \in Nat, InIndex(e, n, b) PROVE e \in Linked(b)
    BY <2>2 DEF InIndex, HasKey, Linked
  <2> QED BY <2>1, <2>2
<1>4. \A e, f \in Linked(b) : e = f
  BY <1>2, <1>3 DEF Inv, Owners, InOneEntry
<1>5. \A r, q \in Releasing(b) : r = q
  BY DEF Releasing, ReaderAt, Inv, Owners, WithReader
<1>6. \A r : r \in Releasing(b) <=> r \in Readers /\ reader[r].at = "free" /\ reader[r].block = b
  BY DEF Releasing, ReaderAt
<1>7. /\ Linked(b) # {} => b \in InUse /\ Releasing(b) = {} /\ ~Requisitioned(b)
      /\ Releasing(b) # {} => b \in InUse /\ ~Requisitioned(b)
      /\ Requisitioned(b) => b \in InUse
  <2>1. ASSUME Linked(b) # {} PROVE b \in InUse /\ Releasing(b) = {} /\ ~Requisitioned(b)
    <3>1. PICK e \in Nat, n \in Nat : InIndex(e, n, b)
      BY <1>3, <2>1
    <3>2. b \in InUse
      BY <1>2, <3>1 DEF Inv, Owners, InOneEntry
    <3>3. ~Requisitioned(b)
      BY <1>2, <3>1 DEF Requisitioned, Inv, Owners, WithProducer
    <3>4. \A r \in Readers : ~(reader[r].at = "free" /\ reader[r].block = b)
      BY <1>2, <3>1 DEF Inv, Owners, WithReader
    <3> QED BY <1>6, <3>2, <3>3, <3>4
  <2>2. ASSUME Releasing(b) # {} PROVE b \in InUse /\ ~Requisitioned(b)
    BY <1>6, <2>2 DEF Requisitioned, Inv, Owners, WithReader
  <2>3. ASSUME Requisitioned(b) PROVE b \in InUse
    BY <2>3 DEF Requisitioned, Inv, Owners, WithProducer
  <2> QED BY <2>1, <2>2, <2>3
<1>8. b \in InUse <=> b \notin freeList
  BY DEF InUse
<1>9. b \in InUse => Linked(b) # {} \/ Requisitioned(b) \/ Releasing(b) # {}
  BY <1>3, <1>6 DEF Inv, Owners, NoneLost, Requisitioned
<1> DEFINE l == Cardinality(Linked(b))  m == Cardinality(Releasing(b))
           x == IF Requisitioned(b) THEN 1 ELSE 0  y == IF b \in freeList THEN 1 ELSE 0
<1>10. (Linked(b) = {} => l = 0) /\ (Linked(b) # {} => l = 1)
  <2>1. Linked(b) # {} => \E e : Linked(b) = {e}
    BY <1>4
  <2> QED BY <2>1, FS_EmptySet, FS_Singleton
<1>11. (Releasing(b) = {} => m = 0) /\ (Releasing(b) # {} => m = 1)
  <2>1. Releasing(b) # {} => \E e : Releasing(b) = {e}
    BY <1>5
  <2> QED BY <2>1, FS_EmptySet, FS_Singleton
<1>12. l + m + x + y = 1
  <2> HIDE DEF l, m
  <2>1. CASE b \in freeList
    <3>1. l = 0 /\ m = 0 /\ x = 0 /\ y = 1
      BY <1>7, <1>8, <1>10, <1>11, <2>1
    <3> QED BY <3>1
  <2>2. CASE b \notin freeList /\ Linked(b) # {}
    <3>1. l = 1 /\ m = 0 /\ x = 0 /\ y = 0
      BY <1>7, <1>8, <1>10, <1>11, <2>2
    <3> QED BY <3>1
  <2>3. CASE b \notin freeList /\ Releasing(b) # {}
    <3>1. l = 0 /\ m = 1 /\ x = 0 /\ y = 0
      BY <1>7, <1>8, <1>10, <1>11, <2>3
    <3> QED BY <3>1
  <2>4. CASE b \notin freeList /\ Linked(b) = {} /\ Releasing(b) = {}
    <3>1. l = 0 /\ m = 0 /\ x = 1 /\ y = 0
      BY <1>8, <1>9, <1>10, <1>11, <2>4
    <3> QED BY <3>1
  <2> QED BY <2>1, <2>2, <2>3, <2>4
<1>13. Linked(b) # {} /\ blocks[b].emptied = BLOCK_SIZE =>
         \E r \in Readers : reader[r].at = "unlink" /\ reader[r].block = b
  BY <1>2, <1>3 DEF Inv, Elements, Unlinking
<1> QED BY <1>12, <1>13

-----------------------------------------------------------------------------
(* The queue is one                                                        *)

Queued == [i \in 1..(tailIndex - headIndex) |-> headIndex + i]
HeldBy == [r \in Readers |-> IF reader[r].at \in Holding THEN reader[r].index + 1 ELSE NULL]

\* A queue of consecutive numbers.
LEMMA Consecutive ==
    ASSUME NEW h \in Nat, NEW n \in Nat, NEW q, q = [i \in 1..n |-> h + i]
    PROVE  /\ q \in Seq(Nat) /\ Len(q) = n
           /\ [i \in 1..(n + 1) |-> h + i] = Append(q, h + n + 1)
           /\ n > 0 => /\ q # <<>> /\ Head(q) = h + 1
                       /\ [i \in 1..(n - 1) |-> (h + 1) + i] = Tail(q)
<1>1. q \in Seq(Nat) /\ Len(q) = n /\ \A i \in 1..n : q[i] = h + i
  OBVIOUS
<1>2. [i \in 1..(n + 1) |-> h + i] = Append(q, h + n + 1)
  <2> DEFINE s == [i \in 1..(n + 1) |-> h + i]  a == Append(q, h + n + 1)
  <2>1. s \in Seq(Nat) /\ Len(s) = n + 1 /\ \A i \in 1..(n + 1) : s[i] = h + i
    OBVIOUS
  <2>2. a \in Seq(Nat) /\ Len(a) = n + 1 /\ a[n + 1] = h + n + 1 /\ \A i \in 1..n : a[i] = h + i
    BY <1>1
  <2>3. \A i \in 1..(n + 1) : i \in 1..n \/ i = n + 1
    OBVIOUS
  <2>4. \A i \in 1..(n + 1) : s[i] = a[i]
    BY <2>1, <2>2, <2>3
  <2> HIDE DEF s, a
  <2>5. s = a
    BY <2>1, <2>2, <2>4
  <2> QED BY <2>5 DEF s, a
<1>3. ASSUME n > 0
      PROVE  /\ q # <<>> /\ Head(q) = h + 1
             /\ [i \in 1..(n - 1) |-> (h + 1) + i] = Tail(q)
  <2> DEFINE s == [i \in 1..(n - 1) |-> (h + 1) + i]  a == Tail(q)
  <2>1. q # <<>> /\ Head(q) = h + 1
    BY <1>1, <1>3
  <2>2. s \in Seq(Nat) /\ Len(s) = n - 1 /\ \A i \in 1..(n - 1) : s[i] = (h + 1) + i
    BY <1>3
  <2>3. a \in Seq(Nat) /\ Len(a) = n - 1 /\ \A i \in 1..(n - 1) : a[i] = q[i + 1]
    BY <1>1, <1>3, <2>1
  <2>4. \A i \in 1..(n - 1) : i + 1 \in 1..n /\ h + (i + 1) = (h + 1) + i
    BY <1>3
  <2>5. \A i \in 1..(n - 1) : s[i] = a[i]
    BY <1>1, <2>2, <2>3, <2>4
  <2> HIDE DEF s, a
  <2>6. s = a
    BY <2>2, <2>3, <2>5
  <2> QED BY <2>1, <2>6 DEF s, a
<1> QED BY <1>1, <1>2, <1>3

\* Most steps are none to the users of the queue.
LEMMA NoneSeen ==
    ASSUME reader \in [Readers -> Locals],
           UNCHANGED <<tailIndex, headIndex, delivered>>,
           \A r \in Readers : /\ reader'[r].at \in Holding <=> reader[r].at \in Holding
                              /\ reader[r].at \in Holding => reader'[r].index = reader[r].index
    PROVE  UNCHANGED <<Queued, HeldBy, delivered>>
<1>1. Queued' = Queued
  BY DEF Queued
<1>2. HeldBy' = HeldBy
  BY DEF HeldBy
<1> QED BY <1>1, <1>2

\* An element is in the queue from the store of tailIndex on.
LEMMA PublishPuts ==
    ASSUME Inv, Publish
    PROVE  /\ tailIndex + 1 \in Items
           /\ Queued' = Append(Queued, tailIndex + 1) /\ UNCHANGED <<HeldBy, delivered>>
<1>1. /\ headIndex \in Nat /\ tailIndex \in Nat /\ headIndex <= tailIndex
      /\ tailIndex < MaxItems /\ MaxItems \in Nat /\ producer.at = "publish"
  BY IndexedTypes, ClaimsCovered, Sizes
     DEF Inv, Indexed, IndexInv, Enqueuing, Publish, ProducerAt
<1>2. tailIndex' = tailIndex + 1 /\ UNCHANGED <<headIndex, reader, delivered>>
  BY PublishKeeps DEF Publish
<1>3. HeldBy' = HeldBy
  BY <1>2 DEF HeldBy
<1>4. PICK n \in Nat, h \in Nat : h = headIndex /\ n = tailIndex - headIndex
  BY <1>1
<1>5. tailIndex + 1 = h + n + 1 /\ tailIndex' - headIndex' = n + 1
  BY <1>1, <1>2, <1>4
<1>6. Queued = [i \in 1..n |-> h + i] /\ Queued' = [i \in 1..(n + 1) |-> h + i]
  BY <1>2, <1>4, <1>5 DEF Queued
<1>7. Queued' = Append(Queued, h + n + 1)
  BY <1>6, Consecutive
<1>8. tailIndex + 1 \in Items
  BY <1>1 DEF Items
<1> QED BY <1>2, <1>3, <1>5, <1>7, <1>8

\* An element leaves the queue when its index is taken.
LEMMA IndexTaken ==
    ASSUME Inv, NEW r \in Readers, TakeIndex(r)
    PROVE  /\ Queued # <<>> /\ HeldBy[r] = NULL
           /\ HeldBy' = [HeldBy EXCEPT ![r] = Head(Queued)]
           /\ Queued' = Tail(Queued) /\ delivered' = delivered
<1>1. Indexed /\ reader \in [Readers -> Locals] /\ headIndex \in Nat /\ tailIndex \in Nat
  BY IndexedTypes DEF Inv, Indexed
<1>2. headIndex < tailIndex /\ headIndex' = headIndex + 1
  BY <1>1, ClaimsTaken DEF Inv
<1>3. /\ reader[r].at = "take" /\ reader'[r].at = "header" /\ reader'[r].index = headIndex
      /\ UNCHANGED <<tailIndex, delivered>>
  BY <1>1 DEF TakeIndex, ReaderAt, Polling
<1>4. \A q \in Readers \ {r} : reader'[q] = reader[q]
  BY <1>1, OneReader DEF DequeueStep
<1>5. PICK n \in Nat, h \in Nat : h = headIndex /\ n = tailIndex - headIndex /\ n > 0
  BY <1>1, <1>2
<1>6. tailIndex' - headIndex' = n - 1 /\ headIndex' = h + 1
  BY <1>1, <1>2, <1>3, <1>5
<1>7. Queued = [i \in 1..n |-> h + i] /\ Queued' = [i \in 1..(n - 1) |-> (h + 1) + i]
  BY <1>5, <1>6 DEF Queued
<1>8. Queued # <<>> /\ Head(Queued) = h + 1 /\ Queued' = Tail(Queued)
  BY <1>5, <1>7, Consecutive
<1>9. HeldBy[r] = NULL
  BY <1>3 DEF HeldBy, Holding
<1>10. HeldBy' = [HeldBy EXCEPT ![r] = h + 1]
  BY <1>3, <1>4, <1>5 DEF HeldBy, Holding
<1> QED BY <1>3, <1>8, <1>9, <1>10

\* The reader is handed the element that was enqueued at the index it took.
LEMMA ElementDelivered ==
    ASSUME Inv, NEW r \in Readers, MoveElement(r)
    PROVE  /\ HeldBy[r] # NULL
           /\ delivered' = [delivered EXCEPT ![r] = Append(@, HeldBy[r])]
           /\ HeldBy' = [HeldBy EXCEPT ![r] = NULL] /\ Queued' = Queued
<1>1. Indexed /\ reader \in [Readers -> Locals]
  BY IndexedTypes DEF Inv, Indexed
<1>2. /\ reader[r].at = "move" /\ reader'[r] = [reader[r] EXCEPT !.at = "empty"]
      /\ UNCHANGED <<tailIndex, headIndex>>
      /\ delivered' = [delivered EXCEPT ![r] =
                         Append(@, blocks[reader[r].block].slots[reader[r].index % BLOCK_SIZE])]
  BY <1>1 DEF MoveElement, ReaderAt, ReaderTo, queueVars
<1>3. reader'[r].at = "empty"
  BY <1>1, <1>2 DEF Locals
<1>4. \A q \in Readers \ {r} : reader'[q] = reader[q]
  BY <1>1, OneReader DEF DequeueStep
<1>5. PICK i \in Nat, b \in Blocks :
             /\ i = reader[r].index /\ b = reader[r].block
             /\ blocks[b].slots[i % BLOCK_SIZE] = i + 1
  BY <1>2, ElementHeld
<1>6. HeldBy[r] = i + 1 /\ HeldBy[r] # NULL
  BY <1>2, <1>5 DEF HeldBy, Holding, NULL
<1>7. delivered' = [delivered EXCEPT ![r] = Append(@, HeldBy[r])]
  BY <1>2, <1>5, <1>6
<1>8. HeldBy' = [HeldBy EXCEPT ![r] = NULL]
  BY <1>3, <1>4 DEF HeldBy, Holding
<1>9. Queued' = Queued
  BY <1>2 DEF Queued
<1> QED BY <1>6, <1>7, <1>8, <1>9

LEMMA OthersUnseen ==
    ASSUME Inv, NEW r \in Readers, DequeueStep(r), ~TakeIndex(r), ~MoveElement(r)
    PROVE  UNCHANGED <<Queued, HeldBy, delivered>>
<1>1. Indexed /\ reader \in [Readers -> Locals]
  BY IndexedTypes DEF Inv, Indexed
<1>2. \A q \in Readers \ {r} : reader'[q] = reader[q]
  BY <1>1, OneReader
<1>3. CASE ClaimStep(r)
  <2>1. /\ reader[r].at \notin Holding /\ reader'[r].at \notin Holding
        /\ UNCHANGED <<tailIndex, headIndex, delivered>>
    BY <1>1, <1>3, ClaimStepEffect DEF Early, Late, Holding
  <2> QED BY <1>1, <1>2, <2>1, NoneSeen
<1>4. CASE LoadHeader(r) \/ LoadIndexTail(r) \/ LoadKey(r) \/ LoadBlock(r)
  <2>1. /\ reader[r].at \in Holding /\ reader'[r].at \in Holding
        /\ reader'[r].index = reader[r].index
        /\ UNCHANGED <<tailIndex, headIndex, delivered>>
    <3>1. CASE LoadHeader(r)
      BY <1>1, <3>1 DEF LoadHeader, ReaderAt, Holding, Locals, queueVars
    <3>2. CASE LoadIndexTail(r)
      BY <1>1, <3>2 DEF LoadIndexTail, ReaderAt, Holding, Locals, queueVars
    <3>3. CASE LoadKey(r)
      BY <1>1, <3>3 DEF LoadKey, ReaderAt, Holding, Locals, queueVars
    <3>4. CASE LoadBlock(r)
      BY <1>1, <3>4 DEF LoadBlock, ReaderAt, Holding, Locals, queueVars
    <3> QED BY <1>4, <3>1, <3>2, <3>3, <3>4
  <2> QED BY <1>1, <1>2, <2>1, NoneSeen
<1>5. CASE SetEmpty(r) \/ UnlinkBlock(r) \/ FreeBlock(r)
  <2>1. /\ reader[r].at \notin Holding /\ reader'[r].at \notin Holding
        /\ UNCHANGED <<tailIndex, headIndex, delivered>>
    <3>1. CASE SetEmpty(r)
      BY <1>1, <3>1 DEF SetEmpty, ReaderAt, Polling, Holding, Locals, queueVars
    <3>2. CASE UnlinkBlock(r)
      BY <1>1, <3>2 DEF UnlinkBlock, ReaderAt, ReaderTo, Holding, Locals, queueVars
    <3>3. CASE FreeBlock(r)
      BY <1>1, <3>3 DEF FreeBlock, ReaderAt, PollAgain, Polling, Holding, Locals, queueVars
    <3> QED BY <1>5, <3>1, <3>2, <3>3
  <2> QED BY <1>1, <1>2, <2>1, NoneSeen
<1> QED BY <1>3, <1>4, <1>5 DEF DequeueStep, ClaimStep

LEMMA FifoStep ==
    ASSUME Inv, [Next]_vars
    PROVE  [Fifo!Next]_Fifo!vars
<1>1. reader \in [Readers -> Locals]
  BY DEF Inv, TypeOK
<1>2. ASSUME UNCHANGED <<Queued, HeldBy, delivered>> PROVE UNCHANGED Fifo!vars
  BY <1>2 DEF Queued, HeldBy, Fifo!vars
<1>3. CASE Publish
  <2>1. PICK x \in Items : x = tailIndex + 1
    BY <1>3, PublishPuts
  <2>2. Fifo!Put(x)
    BY <1>3, <2>1, PublishPuts DEF Fifo!Put, Queued, HeldBy
  <2>3. Fifo!Next
    BY <2>2 DEF Fifo!Next
  <2> QED BY <2>3
<1>4. CASE Enqueue /\ ~Publish
  <2>1. UNCHANGED <<tailIndex, headIndex, delivered, reader>>
    BY <1>4 DEF Enqueue, AddProducer, ConstructInTailBlock, FindEntry, NewBlockIndex, StoreKey,
                StoreIndexTail, RequisitionBlock, LinkBlock, queueVars
  <2>2. UNCHANGED <<Queued, HeldBy, delivered>>
    BY <1>1, <2>1, NoneSeen
  <2> QED BY <1>2, <2>2
<1>5. ASSUME NEW r \in Readers, TakeIndex(r) PROVE Fifo!Next
  <2>1. Fifo!Take(r)
    BY <1>5, IndexTaken DEF Fifo!Take, Queued, HeldBy
  <2> QED BY <2>1 DEF Fifo!Next
<1>6. ASSUME NEW r \in Readers, MoveElement(r) PROVE Fifo!Next
  <2>1. Fifo!Deliver(r)
    BY <1>6, ElementDelivered DEF Fifo!Deliver, Queued, HeldBy
  <2> QED BY <2>1 DEF Fifo!Next
<1>7. ASSUME NEW r \in Readers, DequeueStep(r), ~TakeIndex(r), ~MoveElement(r)
      PROVE  UNCHANGED Fifo!vars
  BY <1>2, <1>7, OthersUnseen
<1>8. CASE UNCHANGED vars
  <2>1. UNCHANGED <<tailIndex, headIndex, delivered, reader>>
    BY <1>8 DEF vars, queueVars
  <2> QED BY <1>1, <1>2, <2>1, NoneSeen
<1> QED BY <1>3, <1>4, <1>5, <1>6, <1>7, <1>8 DEF Next

LEMMA FifoInit ==
    ASSUME Init
    PROVE  Fifo!Init
<1>1. /\ tailIndex = 0 /\ headIndex = 0 /\ delivered = [r \in Readers |-> <<>>]
      /\ reader = [r \in Readers |-> Polling]
  BY DEF Init
<1>2. Queued = <<>>
  BY <1>1 DEF Queued
<1>3. HeldBy = [r \in Readers |-> NULL]
  BY <1>1 DEF HeldBy, Polling, Holding
<1> QED BY <1>1, <1>2, <1>3 DEF Fifo!Init, Queued, HeldBy

-----------------------------------------------------------------------------
(* With several readers, as long as none lags behind                       *)

\* Indexes stay within the elements there are and every load and store finds a
\* value of its kind.
THEOREM QueueTypes == Spec /\ []NoReaderLags => []TypeOK
<1>1. Inv => TypeOK
  BY DEF Inv
<1> QED BY <1>1, QueueInvariant, PTL

\* Whichever reader moves an element out of a block, the block is in use, on no
\* free list, and its slot holds the element enqueued at the index that was taken.
THEOREM QueueAccess == Spec /\ []NoReaderLags => []SafeAccess
BY QueueInvariant, AccessIsSafe, PTL

\* Claims are taken, given back or pending, and elements cover those that hold.
THEOREM QueueClaims == Spec /\ []NoReaderLags => []ClaimsBalanced
BY QueueInvariant, ClaimsAddUp, PTL

\* Every block obtained is in one place, and one emptied leaves the index.
THEOREM QueueBlocks == Spec /\ []NoReaderLags => []BlocksAccounted
BY QueueInvariant, BlocksAddUp, PTL

\* The lock-free queue implements the queue the nodes rely on: elements are
\* removed in the order of their enqueuing, each by one reader, who is handed it.
THEOREM QueueRefinesFifo == Spec /\ []NoReaderLags => ImplementsFifo
<1>1. Inv /\ [Next]_vars => [Fifo!Next]_Fifo!vars
  BY FifoStep
<1>2. Init => Fifo!Init
  BY FifoInit
<1> QED BY <1>1, <1>2, QueueInvariant, PTL DEF Spec, ImplementsFifo, Fifo!Spec

-----------------------------------------------------------------------------
(* With one reader, as in a pipe: it cannot lag                            *)

\* Only a reader gives claims back: the single one knows how many.
Current == \A r \in Readers : reader[r].at \in Deciding => reader[r].overcommit = dequeueOvercommit

LEMMA CurrentStep ==
    ASSUME TypeOK, Current, NEW r0, Readers = {r0}, [Next]_vars
    PROVE  Current'
<1>1. reader \in [Readers -> Locals]
  BY DEF TypeOK
<1>2. CASE UNCHANGED <<reader, dequeueOvercommit>>
  BY <1>2 DEF Current, Deciding
<1>3. Enqueue => UNCHANGED <<reader, dequeueOvercommit>>
  BY DEF Enqueue, AddProducer, ConstructInTailBlock, FindEntry, NewBlockIndex, StoreKey,
         StoreIndexTail, RequisitionBlock, LinkBlock, Publish, queueVars
<1>4. UNCHANGED vars => UNCHANGED <<reader, dequeueOvercommit>>
  BY DEF vars, queueVars
<1>5. CASE SizeTail(r0) \/ SizeHead(r0) \/ LoadTail(r0)
  BY <1>1, <1>5 DEF Current, SizeTail, SizeHead, LoadTail, PollAgain, Polling, ReaderAt, Locals, Deciding
<1>6. CASE LoadOvercommit(r0)
  BY <1>1, <1>6 DEF Current, LoadOvercommit, Locals, queueVars
<1>7. CASE LookForElement(r0) \/ Claim(r0) \/ CheckClaim(r0)
  <2>1. /\ reader[r0].at \in Deciding /\ dequeueOvercommit' = dequeueOvercommit
        /\ reader'[r0].at \in Deciding => reader'[r0].overcommit = reader[r0].overcommit
    <3>1. CASE LookForElement(r0)
      BY <1>1, <3>1 DEF LookForElement, ReaderTo, PollAgain, Polling, ReaderAt, Locals, Deciding, queueVars
    <3>2. CASE Claim(r0)
      BY <1>1, <3>2 DEF Claim, ReaderAt, Locals, Deciding
    <3>3. CASE CheckClaim(r0)
      BY <1>1, <3>3 DEF CheckClaim, ReaderTo, ReaderAt, Locals, Deciding, queueVars
    <3> QED BY <1>7, <3>1, <3>2, <3>3
  <2> QED BY <2>1 DEF Current
<1>8. CASE GiveBack(r0) \/ TakeIndex(r0)
  <2>1. reader'[r0].at \notin Deciding
    <3>1. CASE GiveBack(r0)
      BY <1>1, <3>1 DEF GiveBack, PollAgain, Polling, Deciding
    <3>2. CASE TakeIndex(r0)
      BY <1>1, <3>2 DEF TakeIndex, Polling, Deciding
    <3> QED BY <1>8, <3>1, <3>2
  <2> QED BY <2>1 DEF Current
<1>9. CASE LoadHeader(r0) \/ LoadIndexTail(r0) \/ LoadKey(r0) \/ LoadBlock(r0)
  <2>1. reader'[r0].at \notin Deciding
    <3>1. CASE LoadHeader(r0)
      BY <1>1, <3>1 DEF LoadHeader, Locals, Deciding
    <3>2. CASE LoadIndexTail(r0)
      BY <1>1, <3>2 DEF LoadIndexTail, Locals, Deciding
    <3>3. CASE LoadKey(r0)
      BY <1>1, <3>3 DEF LoadKey, Locals, Deciding
    <3>4. CASE LoadBlock(r0)
      BY <1>1, <3>4 DEF LoadBlock, Locals, Deciding
    <3> QED BY <1>9, <3>1, <3>2, <3>3, <3>4
  <2> QED BY <2>1 DEF Current
<1>10. CASE MoveElement(r0) \/ SetEmpty(r0) \/ UnlinkBlock(r0) \/ FreeBlock(r0)
  <2>1. reader'[r0].at \notin Deciding
    BY <1>1, <1>10 DEF MoveElement, SetEmpty, UnlinkBlock, FreeBlock, ReaderTo, PollAgain, Polling,
                       Locals, Deciding
  <2> QED BY <2>1 DEF Current
<1> QED BY <1>2, <1>3, <1>4, <1>5, <1>6, <1>7, <1>8, <1>9, <1>10 DEF Next, DequeueStep

LEMMA CurrentReader ==
    ASSUME TypeOK, Current, NEW r0, Readers = {r0}
    PROVE  NoReaderLags
<1> SUFFICES ASSUME NEW r \in Readers, reader[r].at \in {"look", "claim", "check"}
             PROVE  Wrap(dequeueOvercommit - reader[r].overcommit) + Cardinality(Readers) <= HalfRange
  BY DEF NoReaderLags
<1>1. PICK k \in Nat : k = dequeueOvercommit /\ k = reader[r].overcommit
  BY DEF TypeOK, Current, Deciding
<1>2. PICK z \in Int : z = 0 /\ k - k = z
  <2>1. 0 \in Int /\ k - k = 0
    BY <1>1
  <2> QED BY <2>1
<1>3. Wrap(z) = z
  <2>1. 0 <= z /\ z < 2 * HalfRange
    BY <1>2, Sizes
  <2> QED BY <1>2, <2>1, WrapFacts
<1>4. Cardinality(Readers) = 1
  BY FS_Singleton
<1>5. HalfRange \in Nat /\ MaxItems \in Nat /\ MaxItems + Cardinality(Readers) < HalfRange
  BY Sizes
<1>6. 0 + 1 <= HalfRange
  BY <1>4, <1>5
<1>7. dequeueOvercommit - reader[r].overcommit = z
  BY <1>1, <1>2
<1>8. Wrap(dequeueOvercommit - reader[r].overcommit) = 0
  BY <1>2, <1>3, <1>7
<1> QED BY <1>4, <1>6, <1>8
OneReadingThread == \E r0 : Readers = {r0}

LEMMA OneReaderInvariant ==
    ASSUME OneReadingThread
    PROVE  Spec => [](Inv /\ NoReaderLags)
<1> PICK r0 : Readers = {r0}
  BY DEF OneReadingThread
<1>1. Init => Inv /\ Current
  BY InvInit, InitTypes DEF Current, Deciding
<1>2. TypeOK /\ Current => NoReaderLags
  BY CurrentReader
<1>3. TypeOK' /\ Current' => NoReaderLags'
  BY <1>2, PTL
<1>4. Inv /\ Current /\ [Next]_vars => Inv' /\ Current'
  <2> SUFFICES ASSUME Inv, Current, [Next]_vars PROVE Inv' /\ Current'
    OBVIOUS
  <2>1. Current' /\ TypeOK'
    BY CurrentStep, TypesStep DEF Inv
  <2> QED BY <1>3, <2>1, InvStep
<1>5. Inv => TypeOK
  BY DEF Inv
<1> QED BY <1>1, <1>2, <1>4, <1>5, PTL DEF Spec

\* The claims of the one reading thread of a pipe are always up to date.
THEOREM OneReaderNeverLags ==
    ASSUME OneReadingThread
    PROVE  Spec => []NoReaderLags
BY OneReaderInvariant, PTL

\* A pipe's reading thread is handed the element enqueued at its index, out of a
\* block in use.
THEOREM OneReaderAccess ==
    ASSUME OneReadingThread
    PROVE  Spec => []SafeAccess
BY OneReaderNeverLags, QueueAccess, PTL

\* In a pipe no block is lost or used twice.
THEOREM OneReaderBlocks ==
    ASSUME OneReadingThread
    PROVE  Spec => []BlocksAccounted
BY OneReaderNeverLags, QueueBlocks, PTL

\* In a pipe claims add up.
THEOREM OneReaderClaims ==
    ASSUME OneReadingThread
    PROVE  Spec => []ClaimsBalanced
BY OneReaderNeverLags, QueueClaims, PTL

\* A pipe is the queue that the nodes take it for.
THEOREM OneReaderRefinesFifo ==
    ASSUME OneReadingThread
    PROVE  Spec => ImplementsFifo
BY OneReaderNeverLags, QueueRefinesFifo, PTL
=============================================================================
