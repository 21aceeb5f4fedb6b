----------------------- MODULE PixelListClustererProofs -----------------------
(***************************************************************************)
(* The pixel list clusterer for any sensor, tile size, tolerance and       *)
(* stream of hits: its linked structures stay consistent, and it           *)
(* implements the clustering rule.                                         *)
(*                                                                         *)
(* The search stops at the first match in the list of a tile.  That it     *)
(* misses no cluster rests on TimesApart: two open clusters with adjacent  *)
(* hits were last extended at least MaxDt apart, and so at most one of     *)
(* them is near enough to the time of a new hit.                           *)
(***************************************************************************)
EXTENDS PixelListClusterer, FiniteSetTheorems, WellFoundedInduction, TLAPS

Cluster == [hits : Seq(Hits), pixelIterators : Seq(Ids), first : Nat, last : Nat]
TileIds == 0..(Tiles * Tiles - 1)

Open == Range(unfinished)
HitsOf(c) == Range(clusters[c].hits)

-----------------------------------------------------------------------------
(* The inductive invariant. *)

Kinds ==
    /\ pc \in {"read", "write", "process", "flush", "closed"}
    /\ processed \in 0..MaxHits
    /\ hit.id \in 0..MaxHits /\ hit.toa \in Nat
    /\ pc \in {"write", "process"} => hit \in Hits /\ hit.id = processed + 1
    /\ unfinished \in Seq(Ids)
    /\ clusters \in [Ids -> Cluster]
    /\ nodes \in [TileIds -> Seq(Ids)]
    /\ owner \in [Ids -> 0..MaxHits]
    /\ output \in Seq(Seq(Hits))
    /\ read \subseteq Hits

\* What is open was read, and what was read is not later than the last hit.
Past ==
    /\ \A h \in read : h.id <= processed /\ h.toa <= hit.toa
    /\ \A c \in Open : c <= processed /\ HitsOf(c) \subseteq read

\* A cluster has hits, an iterator for each, and the first and last of their toa.
Parallel(cl) ==
    /\ Len(cl.pixelIterators) = Len(cl.hits)
    /\ \A i \in DOMAIN cl.hits : cl.pixelIterators[i] = cl.hits[i].id
    /\ IsInjective(cl.pixelIterators)

Spans(cl) ==
    /\ \A h \in Range(cl.hits) : cl.first <= h.toa /\ h.toa <= cl.last
    /\ \E h \in Range(cl.hits) : h.toa = cl.first
    /\ \E h \in Range(cl.hits) : h.toa = cl.last

Consistent ==
    /\ \A c \in Open : Parallel(clusters[c]) /\ Spans(clusters[c])
    /\ \A c \in Ids : c \notin Open => clusters[c] = NoCluster

\* No hit is in two clusters, and clusters that touch are apart in time.
IdsApart ==
    \A c, d \in Open : \A g \in HitsOf(c), h \in HitsOf(d) : g.id = h.id => c = d

TimesApart ==
    \A c, d \in Open : \A g \in HitsOf(c), h \in HitsOf(d) :
        c # d /\ Adjacent(g, h) => MaxDt <= Abs(clusters[c].last - clusters[d].last)

\* The matrix holds the hits of the open clusters, and no other.
MatrixHolds ==
    /\ \A t \in TileIds : \A n \in Ids :
          n \in Range(nodes[t]) <=>
             \E c \in Open : \E h \in HitsOf(c) : h.id = n /\ Linearize(h) = t
    /\ \A c \in Open : \A h \in HitsOf(c) : owner[h.id] = c
    /\ \A t \in TileIds : IsInjective(nodes[t])

\* The list holds each cluster once, the oldest last.
ListHolds == IsInjective(unfinished) /\ OldestLast

\* What was written is out of reach of the hits to come.
WrittenHolds ==
    /\ \A i \in DOMAIN output : \E g \in Range(output[i]) :
          \A h \in Range(output[i]) : h.toa <= g.toa
    /\ pc \in {"read", "write", "process"} =>
          \A i \in DOMAIN output : \A h \in Range(output[i]) : h.toa + ClosingDt < hit.toa
    /\ pc = "closed" => unfinished = <<>>

PixelInv ==
    /\ Kinds /\ Past /\ Consistent /\ IdsApart /\ TimesApart
    /\ MatrixHolds /\ ListHolds /\ WrittenHolds

-----------------------------------------------------------------------------
(* Induction, sequences and functions defined by recursion. *)

\* Induction over the naturals, for a set: a set of them has a least member.
LEMMA LeastElement ==
    ASSUME NEW S \in SUBSET Nat, S # {}
    PROVE  \E m \in S : \A k \in S : m <= k
<1> DEFINE F == {0..m : m \in S}
<1>1. F \subseteq FiniteSubsetsOf(Nat) /\ F # {}
  <2>1. \A m \in S : 0..m \subseteq Nat /\ IsFiniteSet(0..m)
    BY FS_Interval
  <2> QED BY <2>1 DEF FiniteSubsetsOf
<1>2. PICK x \in F : \A y \in F : <<y, x>> \notin StrictSubsetOrdering(Nat)
  <2> HIDE DEF F
  <2> QED BY <1>1, FS_StrictSubsetOrderingWellFounded, WFMin
<1>3. PICK m \in S : x = 0..m
  BY <1>2
<1>4. ASSUME NEW k \in S, ~(m <= k) PROVE FALSE
  <2>1. k \in Nat /\ m \in Nat /\ k < m
    BY <1>4
  <2>2. 0..k \subseteq 0..m /\ m \notin 0..k /\ m \in 0..m /\ 0..k \subseteq Nat /\ 0..m \subseteq Nat
    BY <2>1
  <2>3. <<0..k, 0..m>> \in StrictSubsetOrdering(Nat) /\ 0..k \in F
    BY <2>2 DEF StrictSubsetOrdering
  <2> QED BY <2>3, <1>2, <1>3
<1> QED BY <1>4

LEMMA Induction ==
    ASSUME NEW n \in Nat, NEW S, 0 \in S, \A k \in 0..(n - 1) : k \in S => k + 1 \in S
    PROVE  0..n \subseteq S
<1> DEFINE T == {k \in 0..n : k \notin S}
<1> SUFFICES ASSUME T # {} PROVE FALSE
  OBVIOUS
<1>1. T \in SUBSET Nat
  OBVIOUS
<1>2. PICK m \in T : \A k \in T : m <= k
  <2> HIDE DEF T
  <2> QED BY <1>1, LeastElement
<1>3. m \in 1..n /\ m \notin S
  BY <1>2
<1>4. m - 1 \in 0..(n - 1) /\ (m - 1) + 1 = m /\ m - 1 \in 0..n /\ ~(m <= m - 1)
  BY <1>3
<1>5. m - 1 \in S
  BY <1>2, <1>4
<1> QED BY <1>3, <1>4, <1>5

\* A value for each number up to n, each made from the one before.
Iterable(S, n, e, step) ==
    \E f \in [0..n -> S] : f[0] = e /\ \A k \in 1..n : f[k] = step[k][f[k - 1]]

LEMMA Iterates ==
    ASSUME NEW S, NEW n \in Nat, NEW e \in S, NEW step \in [1..n -> [S -> S]]
    PROVE  Iterable(S, n, e, step)
<1> DEFINE P(m, f) == /\ f \in [0..m -> S] /\ f[0] = e
                      /\ \A k \in 1..m : f[k] = step[k][f[k - 1]]
           U == {m \in 0..n : \E f : P(m, f)}
<1>1. 0 \in U
  <2>1. P(0, [k \in 0..0 |-> e])
    OBVIOUS
  <2> HIDE DEF P
  <2> QED BY <2>1
<1>2. ASSUME NEW m \in 0..(n - 1), m \in U PROVE m + 1 \in U
  <2>1. PICK f : P(m, f)
    <3> HIDE DEF P
    <3> QED BY <1>2
  <2>2. m + 1 \in 1..n /\ m \in 0..m /\ f[m] \in S /\ step[m + 1] \in [S -> S]
    BY <2>1
  <2>3. step[m + 1][f[m]] \in S
    BY <2>2
  <2> DEFINE g == [k \in 0..(m + 1) |-> IF k = m + 1 THEN step[m + 1][f[m]] ELSE f[k]]
  <2>4. g \in [0..(m + 1) -> S] /\ g[0] = e /\ \A k \in 0..m : g[k] = f[k]
    BY <2>1, <2>3
  <2>5. ASSUME NEW k \in 1..(m + 1) PROVE g[k] = step[k][g[k - 1]]
    <3>1. CASE k = m + 1
      <4>1. k - 1 = m /\ g[k] = step[m + 1][f[m]] /\ g[m] = f[m]
        BY <2>4, <3>1
      <4> QED BY <3>1, <4>1
    <3>2. CASE k # m + 1
      <4>1. k \in 1..m /\ k \in 0..m /\ k - 1 \in 0..m
        BY <3>2
      <4>2. f[k] = step[k][f[k - 1]]
        BY <2>1, <4>1
      <4> QED BY <2>4, <4>1, <4>2
    <3> QED BY <3>1, <3>2
  <2> HIDE DEF g
  <2>6. P(m + 1, g)
    BY <2>4, <2>5
  <2>7. m + 1 \in 0..n
    BY <2>2
  <2> HIDE DEF P
  <2> QED BY <2>6, <2>7
<1>3. n \in U
  <2> HIDE DEF U
  <2>1. 0..n \subseteq U
    BY <1>1, <1>2, Induction
  <2> QED BY <2>1
<1>4. PICK f : P(n, f)
  <2> HIDE DEF P
  <2> QED BY <1>3
<1> QED BY <1>4 DEF Iterable

\* A sequence and its elements, when another follows and when one more does.
LEMMA Concatenation ==
    ASSUME NEW S, NEW o \in Seq(S), NEW p \in Seq(S)
    PROVE  /\ o \o p \in Seq(S)
           /\ Len(o) \in Nat /\ Len(p) \in Nat /\ Len(o \o p) = Len(o) + Len(p)
           /\ DOMAIN o = 1..Len(o) /\ DOMAIN p = 1..Len(p)
           /\ DOMAIN (o \o p) = 1..(Len(o) + Len(p))
           /\ \A i \in 1..Len(o) : (o \o p)[i] = o[i]
           /\ \A i \in 1..Len(p) : (o \o p)[Len(o) + i] = p[i]
           /\ \A i \in 1..(Len(o) + Len(p)) :
                  i \in 1..Len(o) \/ \E k \in 1..Len(p) : i = Len(o) + k
           /\ Range(o \o p) = Range(o) \cup Range(p)
<1> DEFINE r == o \o p
<1>1. /\ r \in Seq(S)
      /\ Len(o) \in Nat /\ Len(p) \in Nat /\ Len(r) = Len(o) + Len(p)
      /\ DOMAIN o = 1..Len(o) /\ DOMAIN p = 1..Len(p)
      /\ DOMAIN r = 1..(Len(o) + Len(p))
  OBVIOUS
<1>2. /\ \A i \in 1..Len(o) : r[i] = o[i]
      /\ \A i \in 1..Len(p) : r[Len(o) + i] = p[i]
  OBVIOUS
<1> HIDE DEF r
<1>3. ASSUME NEW i \in 1..(Len(o) + Len(p)), i \notin 1..Len(o)
      PROVE  \E k \in 1..Len(p) : i = Len(o) + k
  <2>1. i - Len(o) \in 1..Len(p) /\ i = Len(o) + (i - Len(o))
    BY <1>1, <1>3
  <2> QED BY <2>1
<1>4. \A i \in 1..Len(o) : i \in 1..(Len(o) + Len(p))
  BY <1>1
<1>5. \A i \in 1..Len(p) : Len(o) + i \in 1..(Len(o) + Len(p))
  BY <1>1
<1>6. Range(r) \subseteq Range(o) \cup Range(p)
  <2> SUFFICES ASSUME NEW i \in DOMAIN r PROVE r[i] \in Range(o) \cup Range(p)
    BY DEF Range
  <2>1. CASE i \in 1..Len(o)
    BY <1>1, <1>2, <2>1 DEF Range
  <2>2. CASE i \notin 1..Len(o)
    <3>1. PICK k \in 1..Len(p) : i = Len(o) + k
      BY <1>1, <1>3, <2>2
    <3> QED BY <1>1, <1>2, <3>1 DEF Range
  <2> QED BY <2>1, <2>2
<1>7. Range(o) \cup Range(p) \subseteq Range(r)
  <2>1. \A i \in DOMAIN o : o[i] \in Range(r)
    BY <1>1, <1>2, <1>4 DEF Range
  <2>2. \A i \in DOMAIN p : p[i] \in Range(r)
    BY <1>1, <1>2, <1>5 DEF Range
  <2> QED BY <2>1, <2>2 DEF Range
<1> QED BY <1>1, <1>2, <1>3, <1>6, <1>7 DEF r

LEMMA OneElement ==
    ASSUME NEW S, NEW x \in S
    PROVE  /\ <<x>> \in Seq(S) /\ Len(<<x>>) = 1 /\ <<x>>[1] = x
           /\ DOMAIN <<x>> = 1..1 /\ Range(<<x>>) = {x} /\ IsInjective(<<x>>)
<1>1. /\ <<x>> \in Seq(S) /\ Len(<<x>>) = 1 /\ <<x>>[1] = x
      /\ DOMAIN <<x>> = 1..1 /\ 1 \in 1..1 /\ \A i \in 1..1 : i = 1
  OBVIOUS
<1> DEFINE s == <<x>>
<1> HIDE DEF s
<1>2. s[1] = x /\ DOMAIN s = 1..1 /\ 1 \in 1..1 /\ \A i \in 1..1 : i = 1
  BY <1>1 DEF s
<1>3. Range(s) = {x} /\ IsInjective(s)
  BY <1>2 DEF Range, IsInjective
<1> QED BY <1>1, <1>3 DEF s

\* Nothing is twice in one sequence behind another, if it is not in both.
LEMMA InjectiveConcatenation ==
    ASSUME NEW S, NEW o \in Seq(S), NEW p \in Seq(S),
           IsInjective(o), IsInjective(p), Range(o) \cap Range(p) = {}
    PROVE  IsInjective(o \o p)
<1> DEFINE r == o \o p
<1>1. /\ Len(o) \in Nat /\ Len(p) \in Nat
      /\ DOMAIN o = 1..Len(o) /\ DOMAIN p = 1..Len(p)
      /\ DOMAIN r = 1..(Len(o) + Len(p))
      /\ \A i \in 1..Len(o) : r[i] = o[i]
      /\ \A i \in 1..Len(p) : r[Len(o) + i] = p[i]
      /\ \A i \in 1..(Len(o) + Len(p)) :
             i \in 1..Len(o) \/ \E k \in 1..Len(p) : i = Len(o) + k
  BY Concatenation
<1> HIDE DEF r
<1>2. \A i \in 1..Len(o), k \in 1..Len(p) : r[i] # r[Len(o) + k]
  BY <1>1 DEF Range
<1> SUFFICES ASSUME NEW i \in DOMAIN r, NEW j \in DOMAIN r, r[i] = r[j] PROVE i = j
  BY DEF IsInjective, r
<1>3. CASE i \in 1..Len(o) /\ j \in 1..Len(o)
  BY <1>1, <1>3 DEF IsInjective
<1>4. CASE i \in 1..Len(o) /\ j \notin 1..Len(o)
  <2>1. PICK k \in 1..Len(p) : j = Len(o) + k
    BY <1>1, <1>4
  <2> QED BY <1>2, <1>4, <2>1
<1>5. CASE i \notin 1..Len(o) /\ j \in 1..Len(o)
  <2>1. PICK k \in 1..Len(p) : i = Len(o) + k
    BY <1>1, <1>5
  <2> QED BY <1>2, <1>5, <2>1
<1>6. CASE i \notin 1..Len(o) /\ j \notin 1..Len(o)
  <2>1. PICK k \in 1..Len(p) : i = Len(o) + k
    BY <1>1, <1>6
  <2>2. PICK l \in 1..Len(p) : j = Len(o) + l
    BY <1>1, <1>6
  <2>3. p[k] = p[l]
    BY <1>1, <2>1, <2>2
  <2> QED BY <1>1, <2>1, <2>2, <2>3 DEF IsInjective
<1> QED BY <1>3, <1>4, <1>5, <1>6

LEMMA OneAppended ==
    ASSUME NEW S, NEW s \in Seq(S), NEW x \in S
    PROVE  /\ Append(s, x) \in Seq(S) /\ Append(s, x) # <<>>
           /\ Len(s) \in Nat /\ Len(Append(s, x)) = Len(s) + 1
           /\ DOMAIN s = 1..Len(s) /\ DOMAIN Append(s, x) = 1..(Len(s) + 1)
           /\ Append(s, x)[Len(s) + 1] = x
           /\ \A i \in DOMAIN s : i \in DOMAIN Append(s, x) /\ Append(s, x)[i] = s[i]
           /\ Range(Append(s, x)) = Range(s) \cup {x}
           /\ IsInjective(s) /\ x \notin Range(s) => IsInjective(Append(s, x))
<1> DEFINE r == Append(s, x)
<1>1. /\ r \in Seq(S) /\ r # <<>>
      /\ Len(s) \in Nat /\ Len(r) = Len(s) + 1
      /\ DOMAIN s = 1..Len(s) /\ DOMAIN r = 1..(Len(s) + 1)
      /\ r[Len(s) + 1] = x /\ \A i \in DOMAIN s : r[i] = s[i]
  OBVIOUS
<1> HIDE DEF r
<1>2. /\ \A i \in 1..(Len(s) + 1) : i \in 1..Len(s) \/ i = Len(s) + 1
      /\ \A i \in 1..Len(s) : i \in 1..(Len(s) + 1)
      /\ Len(s) + 1 \in 1..(Len(s) + 1)
  BY <1>1
<1>3. Range(r) = Range(s) \cup {x}
  BY <1>1, <1>2 DEF Range
<1>4. ASSUME IsInjective(s), x \notin Range(s) PROVE IsInjective(r)
  <2> SUFFICES ASSUME NEW i \in DOMAIN r, NEW j \in DOMAIN r, r[i] = r[j] PROVE i = j
    BY DEF IsInjective
  <2>1. \A k \in DOMAIN s : s[k] # x
    BY <1>4 DEF Range
  <2> QED BY <1>1, <1>2, <1>4, <2>1 DEF IsInjective
<1> QED BY <1>1, <1>2, <1>3, <1>4 DEF r

\* r holds what the first n of seq are without S, in their order.
Filtered(r, seq, S, n) ==
    /\ Range(r) = {seq[i] : i \in 1..n} \ S
    /\ \A i, j \in DOMAIN r : i < j =>
          \E k, l \in 1..n : k < l /\ r[i] = seq[k] /\ r[j] = seq[l]

LEMMA FilteredMore ==
    ASSUME NEW T, NEW r \in Seq(T), NEW seq, NEW S, NEW n \in Nat, Filtered(r, seq, S, n),
           seq[n + 1] \in T
    PROVE  Filtered(IF seq[n + 1] \in S THEN r ELSE Append(r, seq[n + 1]), seq, S, n + 1)
<1> DEFINE x == seq[n + 1]
<1>1. /\ \A i \in 1..(n + 1) : i \in 1..n \/ i = n + 1
      /\ \A i \in 1..n : i \in 1..(n + 1) /\ i < n + 1
      /\ n + 1 \in 1..(n + 1)
  OBVIOUS
<1>2. {seq[i] : i \in 1..(n + 1)} = {seq[i] : i \in 1..n} \cup {x}
  BY <1>1
<1>3. CASE x \in S
  <2>1. Range(r) = {seq[i] : i \in 1..(n + 1)} \ S
    BY <1>2, <1>3 DEF Filtered
  <2>2. \A i, j \in DOMAIN r : i < j =>
           \E k, l \in 1..(n + 1) : k < l /\ r[i] = seq[k] /\ r[j] = seq[l]
    BY <1>1 DEF Filtered
  <2>3. Filtered(r, seq, S, n + 1)
    BY <2>1, <2>2 DEF Filtered
  <2> QED BY <1>3, <2>3
<1>4. CASE x \notin S
  <2> DEFINE q == Append(r, x)
  <2>1. /\ Len(r) \in Nat /\ DOMAIN r = 1..Len(r) /\ DOMAIN q = 1..(Len(r) + 1)
        /\ q[Len(r) + 1] = x /\ \A i \in DOMAIN r : q[i] = r[i]
        /\ Range(q) = Range(r) \cup {x}
    BY OneAppended
  <2> HIDE DEF q
  <2>2. Range(q) = {seq[i] : i \in 1..(n + 1)} \ S
    BY <1>2, <1>4, <2>1 DEF Filtered
  <2>3. ASSUME NEW i \in DOMAIN q, NEW j \in DOMAIN q, i < j
        PROVE  \E k, l \in 1..(n + 1) : k < l /\ q[i] = seq[k] /\ q[j] = seq[l]
    <3>1. i \in DOMAIN r /\ (j \in DOMAIN r \/ j = Len(r) + 1)
      BY <2>1, <2>3
    <3>2. CASE j \in DOMAIN r
      <4>1. PICK k \in 1..n, l \in 1..n : k < l /\ r[i] = seq[k] /\ r[j] = seq[l]
        BY <2>3, <3>1, <3>2 DEF Filtered
      <4> QED BY <1>1, <2>1, <3>1, <3>2, <4>1
    <3>3. CASE j = Len(r) + 1
      <4>1. r[i] \in Range(r)
        BY <3>1 DEF Range
      <4>2. PICK k \in 1..n : r[i] = seq[k]
        BY <4>1 DEF Filtered
      <4> QED BY <1>1, <2>1, <3>1, <3>3, <4>2
    <3> QED BY <3>1, <3>2, <3>3
  <2>4. Filtered(q, seq, S, n + 1)
    BY <2>2, <2>3 DEF Filtered
  <2> QED BY <1>4, <2>4 DEF q
<1> QED BY <1>3, <1>4

LEMMA WithoutFiltered ==
    ASSUME NEW T, NEW seq \in Seq(T), NEW S
    PROVE  Without(seq, S) \in Seq(T) /\ Filtered(Without(seq, S), seq, S, Len(seq))
<1> DEFINE n == Len(seq)
           next(k, r) == IF seq[k] \in S THEN r ELSE Append(r, seq[k])
           Made(g) == [k \in 0..n |-> IF k = 0 THEN <<>> ELSE next(k, g[k - 1])]
           kept == CHOOSE g : g = Made(g)
           step == [k \in 1..n |-> [r \in Seq(T) |-> next(k, r)]]
<1>1. n \in Nat /\ \A k \in 1..n : seq[k] \in T
  OBVIOUS
<1>2. <<>> \in Seq(T) /\ \A k \in 1..n : \A r \in Seq(T) : next(k, r) \in Seq(T)
  BY <1>1
<1>3. \E f : f = Made(f)
  <2> HIDE DEF next
  <2>1. step \in [1..n -> [Seq(T) -> Seq(T)]]
    BY <1>2
  <2>2. /\ \A k \in 1..n : \A r \in Seq(T) : step[k][r] = next(k, r)
        /\ \A k \in 1..n : k - 1 \in 0..n /\ k # 0
        /\ \A k \in 0..n : k = 0 \/ k \in 1..n
    BY <1>1
  <2> HIDE DEF step, n
  <2>3. PICK f \in [0..n -> Seq(T)] : f[0] = <<>> /\ \A k \in 1..n : f[k] = step[k][f[k - 1]]
    <3>1. Iterable(Seq(T), n, <<>>, step)
      <4>1. n \in Nat /\ <<>> \in Seq(T)
        BY <1>1, <1>2
      <4> QED BY <4>1, <2>1, Iterates
    <3> QED BY <3>1 DEF Iterable
  <2>4. \A k \in 1..n : f[k] = next(k, f[k - 1])
    BY <2>2, <2>3
  <2>5. f = Made(f)
    BY <2>2, <2>3, <2>4
  <2> QED BY <2>5
<1>4. kept = Made(kept)
  BY <1>3
<1>5. Without(seq, S) = kept[n]
  BY DEF Without
<1> HIDE DEF kept
<1>6. kept[0] = <<>> /\ \A k \in 1..n : kept[k] = next(k, kept[k - 1])
  <2>1. 0 \in 0..n /\ \A k \in 1..n : k \in 0..n /\ k # 0
    BY <1>1
  <2> HIDE DEF next, n
  <2>2. \A k \in 0..n : kept[k] = IF k = 0 THEN <<>> ELSE next(k, kept[k - 1])
    BY <1>4
  <2> QED BY <2>1, <2>2
<1> DEFINE U == {k \in 0..n : kept[k] \in Seq(T) /\ Filtered(kept[k], seq, S, k)}
<1>7. 0 \in U
  <2>1. Range(<<>>) = {} /\ {seq[i] : i \in 1..0} = {} /\ DOMAIN <<>> = {}
    BY DEF Range
  <2>2. Filtered(<<>>, seq, S, 0)
    BY <2>1 DEF Filtered
  <2>3. kept[0] \in Seq(T) /\ Filtered(kept[0], seq, S, 0) /\ 0 \in 0..n
    <3> HIDE DEF next
    <3> QED BY <1>1, <1>2, <1>6, <2>2
  <2> QED BY <2>3
<1>8. ASSUME NEW k \in 0..(n - 1), k \in U PROVE k + 1 \in U
  <2>1. /\ k \in Nat /\ k + 1 \in 1..n /\ k + 1 \in 0..n /\ (k + 1) - 1 = k
        /\ kept[k] \in Seq(T) /\ Filtered(kept[k], seq, S, k) /\ seq[k + 1] \in T
    BY <1>1, <1>8
  <2>2. kept[k + 1] = next(k + 1, kept[k])
    <3>1. k + 1 \in 1..n /\ (k + 1) - 1 = k
      BY <2>1
    <3> HIDE DEF next, n
    <3>2. kept[k + 1] = next(k + 1, kept[(k + 1) - 1])
      BY <1>6, <3>1
    <3> QED BY <3>1, <3>2
  <2>3. kept[k + 1] \in Seq(T)
    <3> HIDE DEF next
    <3> QED BY <1>2, <2>1, <2>2
  <2>4. Filtered(next(k + 1, kept[k]), seq, S, k + 1)
    BY <2>1, FilteredMore
  <2> HIDE DEF next
  <2> QED BY <2>1, <2>2, <2>3, <2>4
<1>9. n \in U
  <2> HIDE DEF U, n
  <2>1. 0..n \subseteq U
    BY <1>1, <1>7, <1>8, Induction
  <2> QED BY <1>1, <2>1
<1> QED BY <1>5, <1>9

LEMMA WithoutFacts ==
    ASSUME NEW T, NEW seq \in Seq(T), NEW S
    PROVE  /\ Without(seq, S) \in Seq(T)
           /\ Range(Without(seq, S)) = Range(seq) \ S
           /\ IsInjective(seq) => IsInjective(Without(seq, S))
           /\ \A i, j \in DOMAIN Without(seq, S) : i < j =>
                 \E k, l \in DOMAIN seq : /\ k < l /\ Without(seq, S)[i] = seq[k]
                                          /\ Without(seq, S)[j] = seq[l]
<1> DEFINE r == Without(seq, S)
<1>1. r \in Seq(T) /\ Filtered(r, seq, S, Len(seq)) /\ DOMAIN seq = 1..Len(seq)
  BY WithoutFiltered
<1>2. DOMAIN r = 1..Len(r) /\ Len(r) \in Nat /\ Len(seq) \in Nat
  BY <1>1
<1> HIDE DEF r
<1>3. Range(r) = Range(seq) \ S
  BY <1>1 DEF Filtered, Range
<1>4. \A i, j \in DOMAIN r : i < j =>
         \E k, l \in DOMAIN seq : k < l /\ r[i] = seq[k] /\ r[j] = seq[l]
  BY <1>1 DEF Filtered
<1>5. ASSUME IsInjective(seq) PROVE IsInjective(r)
  <2>1. ASSUME NEW i \in DOMAIN r, NEW j \in DOMAIN r, i < j PROVE r[i] # r[j]
    <3>1. PICK k \in DOMAIN seq, l \in DOMAIN seq : k < l /\ r[i] = seq[k] /\ r[j] = seq[l]
      BY <1>4, <2>1
    <3>2. k \in Nat /\ l \in Nat /\ k # l
      BY <1>1, <1>2, <3>1
    <3> QED BY <1>5, <3>1, <3>2 DEF IsInjective
  <2>2. ASSUME NEW i \in DOMAIN r, NEW j \in DOMAIN r, r[i] = r[j] PROVE i = j
    <3>1. i \in Nat /\ j \in Nat /\ ~(i < j) /\ ~(j < i)
      BY <1>2, <2>1, <2>2
    <3> QED BY <3>1
  <2> QED BY <2>2 DEF IsInjective
<1> QED BY <1>1, <1>3, <1>4, <1>5 DEF r

-----------------------------------------------------------------------------
(* The sensor and its tiles. *)

LEMMA Sizes ==
    /\ Width \in Nat \ {0} /\ TileSize \in Nat \ {0} /\ MaxDt \in Nat
    /\ ClosingDt \in Nat /\ MaxDt <= ClosingDt /\ WriteInterval \in Nat \ {0}
    /\ MaxHits \in Nat /\ MaxToa \in Nat
    /\ Width % TileSize = 0
    /\ HitPixels \subseteq (0..(Width - 1)) \X (0..(Width - 1))
  BY SensorAssumption, ClustererAssumption

LEMMA HitType ==
    ASSUME NEW h \in Hits
    PROVE  /\ h.id \in Ids /\ h.id \in Nat /\ h.toa \in 0..MaxToa /\ h.toa \in Nat
           /\ h.x \in 0..(Width - 1) /\ h.y \in 0..(Width - 1)
<1>1. PICK i \in Ids, p \in HitPixels, t \in 0..MaxToa :
         h = [id |-> i, x |-> p[1], y |-> p[2], toa |-> t]
  BY DEF Hits
<1>2. p[1] \in 0..(Width - 1) /\ p[2] \in 0..(Width - 1)
  BY Sizes
<1>3. i \in Nat /\ t \in Nat
  BY Sizes DEF Ids
<1> QED BY <1>1, <1>2, <1>3

LEMMA NewHitType ==
    ASSUME NEW i \in Ids, NEW p \in HitPixels, NEW t \in 0..MaxToa
    PROVE  [id |-> i, x |-> p[1], y |-> p[2], toa |-> t] \in Hits
  BY DEF Hits

LEMMA Monotone ==
    ASSUME NEW m \in Nat, NEW a \in Int, NEW b \in Int, a <= b
    PROVE  m * a \in Int /\ m * b \in Int /\ m * a <= m * b
<1>1. b - a \in Nat /\ b = a + (b - a)
  OBVIOUS
<1>2. PICK d \in Nat : b = a + d
  BY <1>1
<1>3. m * b = m * a + m * d
  BY <1>2
<1>4. m * d \in Nat /\ m * a \in Int
  OBVIOUS
<1> DEFINE u == m * a  v == m * d  w == m * b
<1>5. w = u + v /\ v \in Nat /\ u \in Int
  BY <1>3, <1>4
<1> HIDE DEF u, v, w
<1>6. w \in Int /\ u <= w /\ u \in Int
  BY <1>5
<1> QED BY <1>6 DEF u, w

LEMMA NextMultiple ==
    ASSUME NEW m \in Nat, NEW a \in Int
    PROVE  m * (a + 1) = m * a + m /\ m * (a - 1) = m * a - m
  OBVIOUS

\* Places in the matrix are numbered row by row.
LEMMA Numbering ==
    ASSUME NEW m \in Nat \ {0}, NEW a \in Int, NEW c \in Int,
           NEW b \in 0..(m - 1), NEW d \in 0..(m - 1)
    PROVE  /\ m * a + b = m * c + d => a = c /\ b = d
           /\ a \in 0..(m - 1) => m * a + b \in 0..(m * m - 1)
<1>1. \A e, f \in Int : e < f => m * e + m <= m * f /\ m * e \in Int /\ m * f \in Int
  <2> SUFFICES ASSUME NEW e \in Int, NEW f \in Int, e < f
               PROVE  m * e + m <= m * f /\ m * e \in Int /\ m * f \in Int
    OBVIOUS
  <2>1. m \in Nat /\ e + 1 \in Int /\ e + 1 <= f
    OBVIOUS
  <2>2. m * (e + 1) <= m * f
    BY <2>1, Monotone
  <2>3. m * (e + 1) = m * e + m
    BY <2>1, NextMultiple
  <2> QED BY <2>2, <2>3
<1>2. ASSUME m * a + b = m * c + d PROVE a = c /\ b = d
  <2>1. ~(a < c)
    <3> SUFFICES ASSUME a < c PROVE FALSE
      OBVIOUS
    <3> DEFINE u == m * a  v == m * c
    <3>1. u + m <= v /\ u \in Int /\ v \in Int /\ u + b = v + d
      BY <1>1, <1>2
    <3> HIDE DEF u, v
    <3> QED BY <3>1
  <2>2. ~(c < a)
    <3> SUFFICES ASSUME c < a PROVE FALSE
      OBVIOUS
    <3> DEFINE u == m * a  v == m * c
    <3>1. v + m <= u /\ u \in Int /\ v \in Int /\ u + b = v + d
      BY <1>1, <1>2
    <3> HIDE DEF u, v
    <3> QED BY <3>1
  <2>3. a = c
    BY <2>1, <2>2
  <2> DEFINE u == m * a
  <2>4. u \in Int /\ u + b = u + d
    BY <1>2, <2>3
  <2> HIDE DEF u
  <2>5. b = d
    BY <2>4
  <2> QED BY <2>3, <2>5
<1>3. ASSUME a \in 0..(m - 1) PROVE m * a + b \in 0..(m * m - 1)
  <2> DEFINE u == m * a  v == m * m
  <2>1. u + m <= v /\ u \in Int /\ v \in Int
    BY <1>1, <1>3
  <2>2. m * 0 <= u
    BY <1>3, Monotone
  <2>3. m * 0 = 0
    OBVIOUS
  <2> HIDE DEF u, v
  <2>4. u + b \in 0..(v - 1)
    BY <2>1, <2>2, <2>3
  <2> QED BY <2>4 DEF u, v
<1> QED BY <1>2, <1>3

Cell(x) == x \div TileSize

LEMMA TilesFact == Tiles \in Nat \ {0} /\ Width = TileSize * Tiles
<1>1. Tiles \in Nat
  BY Sizes DEF Tiles
<1>2. Width = TileSize * (Width \div TileSize) + (Width % TileSize)
  BY Sizes
<1>3. Width = TileSize * Tiles
  BY <1>1, <1>2, Sizes DEF Tiles
<1>4. TileSize * 0 = 0
  BY Sizes
<1> QED BY <1>1, <1>3, <1>4, Sizes

LEMMA CellFacts ==
    ASSUME NEW x \in 0..(Width - 1), NEW a \in {-1, 0, 1}
    PROVE  /\ Cell(x) \in 0..(Tiles - 1)
           /\ x + a * TileSize \in 0..(Width - 1) <=> Cell(x) + a \in 0..(Tiles - 1)
<1> DEFINE q == Cell(x)
           r == x % TileSize
<1>1. q \in Nat /\ x \in Nat /\ x < Width
  BY Sizes DEF Cell
<1>2. x = TileSize * q + r /\ r \in 0..(TileSize - 1)
  BY Sizes DEF Cell
<1> HIDE DEF q, r
<1>3. Tiles \in Nat \ {0} /\ Width = TileSize * Tiles /\ TileSize \in Nat \ {0}
  BY TilesFact, Sizes
<1> DEFINE u == TileSize * q  w == TileSize * Tiles
<1>4. u \in Int /\ w \in Int
  BY <1>1, <1>3
<1>5. ASSUME NEW e \in Int, e < Tiles
      PROVE  TileSize * e + TileSize <= w /\ TileSize * e \in Int
  <2>1. TileSize * (e + 1) <= TileSize * Tiles
    BY <1>3, <1>5, Monotone
  <2>2. TileSize * (e + 1) = TileSize * e + TileSize /\ TileSize * e \in Int
    BY <1>3, NextMultiple
  <2> QED BY <2>1, <2>2
<1>6. ASSUME NEW e \in Int, Tiles <= e PROVE w <= TileSize * e /\ TileSize * e \in Int
  BY <1>3, <1>6, Monotone
<1>7. q < Tiles
  <2> SUFFICES ASSUME ~(q < Tiles) PROVE FALSE
    OBVIOUS
  <2>1. w <= u
    BY <1>1, <1>3, <1>6
  <2> HIDE DEF u, w
  <2>2. x = u + r /\ x < w
    BY <1>1, <1>2, <1>3 DEF u, w
  <2> QED BY <1>2, <1>4, <2>1, <2>2
<1>8. CASE a = 0
  <2>1. a * TileSize = 0
    BY <1>3, <1>8
  <2> QED BY <1>1, <1>3, <1>7, <1>8, <2>1 DEF q
<1>9. CASE a = 1
  <2>1. a * TileSize = TileSize
    BY <1>3, <1>9
  <2>2. TileSize * (q + 1) = u + TileSize
    BY <1>1, <1>3, NextMultiple
  <2>3. q + 1 < Tiles => u + TileSize + TileSize <= w
    BY <1>1, <1>5, <2>2
  <2>4. Tiles <= q + 1 => w <= u + TileSize
    BY <1>1, <1>6, <2>2
  <2>5. x = u + r /\ Width = w
    BY <1>2, <1>3
  <2> HIDE DEF u, w
  <2>6. q + 1 < Tiles => x + TileSize \in 0..(Width - 1)
    BY <1>1, <1>2, <1>3, <1>4, <2>3, <2>5
  <2>7. Tiles <= q + 1 => ~(x + TileSize \in 0..(Width - 1))
    BY <1>1, <1>2, <1>3, <1>4, <2>4, <2>5
  <2>8. q + a \in 0..(Tiles - 1) <=> q + 1 < Tiles
    BY <1>1, <1>3, <1>9
  <2>9. q + 1 < Tiles \/ Tiles <= q + 1
    BY <1>1, <1>3
  <2> QED BY <1>1, <1>3, <1>7, <2>1, <2>6, <2>7, <2>8, <2>9 DEF q
<1>10. CASE a = -1
  <2>1. a * TileSize = -TileSize
    BY <1>3, <1>10
  <2>2. 1 <= q => TileSize <= u
    <3>1. 1 <= q => TileSize * 1 <= u
      BY <1>1, <1>3, Monotone
    <3>2. TileSize * 1 = TileSize
      BY <1>3
    <3> QED BY <3>1, <3>2
  <2>3. q = 0 => u = 0
    BY <1>3
  <2>4. x = u + r
    BY <1>2
  <2> HIDE DEF u
  <2>5. x + a * TileSize \in 0..(Width - 1) <=> q # 0
    BY <1>1, <1>2, <1>3, <1>4, <2>1, <2>2, <2>3, <2>4, Sizes
  <2>6. q + a \in 0..(Tiles - 1) <=> q # 0
    BY <1>1, <1>3, <1>7, <1>10
  <2> QED BY <1>1, <1>3, <1>7, <2>5, <2>6 DEF q
<1> QED BY <1>8, <1>9, <1>10

\* The offsets are those of a tile and the eight around it.
Unit == {-1, 0, 1}

LEMMA Offsets ==
    /\ Len(EightNeighbors) = 9
    /\ \A k \in 1..9 : EightNeighbors[k][1] \in Unit /\ EightNeighbors[k][2] \in Unit
    /\ \A a, b \in Unit : \E k \in 1..9 : EightNeighbors[k][1] = a /\ EightNeighbors[k][2] = b
<1> DEFINE e == EightNeighbors
<1>1. /\ Len(e) = 9
      /\ e[1][1] = -1 /\ e[1][2] = -1 /\ e[2][1] = -1 /\ e[2][2] = 0
      /\ e[3][1] = -1 /\ e[3][2] = 1 /\ e[4][1] = 0 /\ e[4][2] = -1
      /\ e[5][1] = 0 /\ e[5][2] = 0 /\ e[6][1] = 0 /\ e[6][2] = 1
      /\ e[7][1] = 1 /\ e[7][2] = -1 /\ e[8][1] = 1 /\ e[8][2] = 0
      /\ e[9][1] = 1 /\ e[9][2] = 1
  BY DEF EightNeighbors
<1> HIDE DEF e
<1>2. \A k \in 1..9 : k = 1 \/ k = 2 \/ k = 3 \/ k = 4 \/ k = 5 \/ k = 6 \/ k = 7 \/ k = 8 \/ k = 9
  OBVIOUS
<1>3. \A k \in 1..9 : e[k][1] \in Unit /\ e[k][2] \in Unit
  BY <1>1, <1>2 DEF Unit
<1>4. \A a, b \in Unit : \E k \in 1..9 : e[k][1] = a /\ e[k][2] = b
  BY <1>1 DEF Unit
<1> QED BY <1>1, <1>3, <1>4 DEF e

TileAt(h, k) == LinearizeTiled(EightNeighbors[k]) + Linearize(h)

LEMMA TileFacts ==
    ASSUME NEW g \in Hits, NEW h \in Hits
    PROVE  /\ Linearize(h) \in TileIds
           /\ \A k \in 1..9 : IsValidNeighbor(h, EightNeighbors[k]) =>
                 /\ TileAt(h, k) \in TileIds
                 /\ Linearize(g) = TileAt(h, k) => Adjacent(g, h)
           /\ Adjacent(g, h) => \E k \in 1..9 : /\ IsValidNeighbor(h, EightNeighbors[k])
                                                /\ Linearize(g) = TileAt(h, k)
           /\ Linearize(g) = Linearize(h) => Adjacent(g, h)
           /\ Adjacent(g, h) => Adjacent(h, g)
<1> DEFINE m == Tiles
           gx == Cell(g.x)  gy == Cell(g.y)  hx == Cell(h.x)  hy == Cell(h.y)
<1>1. m \in Nat \ {0} /\ gx \in 0..(m - 1) /\ gy \in 0..(m - 1) /\ hx \in 0..(m - 1) /\ hy \in 0..(m - 1)
  <2>1. /\ g.x \in 0..(Width - 1) /\ g.y \in 0..(Width - 1)
        /\ h.x \in 0..(Width - 1) /\ h.y \in 0..(Width - 1) /\ 0 \in {-1, 0, 1}
    BY HitType
  <2> QED BY <2>1, TilesFact, CellFacts
<1>2. Linearize(g) = m * gx + gy /\ Linearize(h) = m * hx + hy
  BY DEF Linearize, Cell
<1>3. Adjacent(g, h) <=> Abs(gx - hx) <= 1 /\ Abs(gy - hy) <= 1
  BY DEF Adjacent, Cell
<1>4. Adjacent(h, g) <=> Abs(hx - gx) <= 1 /\ Abs(hy - gy) <= 1
  BY DEF Adjacent, Cell
<1>5. TileIds = 0..(m * m - 1)
  BY DEF TileIds
<1>6. ASSUME NEW k \in 1..9
      PROVE  /\ IsValidNeighbor(h, EightNeighbors[k]) <=>
                   /\ hx + EightNeighbors[k][1] \in 0..(m - 1)
                   /\ hy + EightNeighbors[k][2] \in 0..(m - 1)
             /\ EightNeighbors[k][1] \in Unit /\ EightNeighbors[k][2] \in Unit
             /\ TileAt(h, k) = m * (hx + EightNeighbors[k][1]) + (hy + EightNeighbors[k][2])
  <2>1. PICK a \in Unit, b \in Unit : a = EightNeighbors[k][1] /\ b = EightNeighbors[k][2]
    BY Offsets
  <2>2. h.x \in 0..(Width - 1) /\ h.y \in 0..(Width - 1)
    BY HitType
  <2>3. /\ h.x + a * TileSize \in 0..(Width - 1) <=> hx + a \in 0..(m - 1)
        /\ h.y + b * TileSize \in 0..(Width - 1) <=> hy + b \in 0..(m - 1)
    BY <2>2, CellFacts DEF Unit
  <2>4. IsValidNeighbor(h, EightNeighbors[k]) <=> hx + a \in 0..(m - 1) /\ hy + b \in 0..(m - 1)
    BY <2>1, <2>3 DEF IsValidNeighbor
  <2>5. TileAt(h, k) = (m * a + b) + (m * hx + hy)
    BY <1>2, <2>1 DEF TileAt, LinearizeTiled
  <2> HIDE DEF m, hx, hy
  <2>6. a \in Int /\ b \in Int /\ hx \in Int /\ hy \in Int /\ m \in Int
    BY <1>1 DEF Unit
  <2>7. (m * a + b) + (m * hx + hy) = m * (hx + a) + (hy + b)
    BY <2>6
  <2> QED BY <2>1, <2>4, <2>5, <2>7
<1> HIDE DEF m, gx, gy, hx, hy
<1>7. gx \in Int /\ hx \in Int /\ gy \in Int /\ hy \in Int
  BY <1>1
<1>8. ASSUME NEW k \in 1..9, IsValidNeighbor(h, EightNeighbors[k])
      PROVE  /\ TileAt(h, k) \in TileIds
             /\ Linearize(g) = TileAt(h, k) => Adjacent(g, h)
  <2>1. PICK a \in Unit, b \in Unit : a = EightNeighbors[k][1] /\ b = EightNeighbors[k][2]
    BY <1>6
  <2>2. /\ hx + a \in 0..(m - 1) /\ hy + b \in 0..(m - 1)
        /\ TileAt(h, k) = m * (hx + a) + (hy + b)
    BY <1>6, <1>8, <2>1
  <2>3. TileAt(h, k) \in TileIds
    <3>1. PICK u \in 0..(m - 1), v \in 0..(m - 1) : u = hx + a /\ v = hy + b
      BY <2>2
    <3>2. m * u + v \in 0..(m * m - 1)
      BY <1>1, Numbering
    <3> QED BY <1>5, <2>2, <3>1, <3>2
  <2>4. ASSUME Linearize(g) = TileAt(h, k) PROVE Adjacent(g, h)
    <3>1. PICK u \in 0..(m - 1), v \in 0..(m - 1) : u = hx + a /\ v = hy + b
      BY <2>2
    <3>2. m * gx + gy = m * u + v /\ u \in Int
      BY <1>1, <1>2, <2>2, <2>4, <3>1
    <3>3. gx = u /\ gy = v
      BY <1>1, <1>7, <3>2, Numbering
    <3> QED BY <1>3, <1>7, <3>1, <3>3 DEF Unit, Abs
  <2> QED BY <2>3, <2>4
<1>9. ASSUME Adjacent(g, h)
      PROVE  \E k \in 1..9 : IsValidNeighbor(h, EightNeighbors[k]) /\ Linearize(g) = TileAt(h, k)
  <2>1. gx - hx \in Unit /\ gy - hy \in Unit
    BY <1>3, <1>7, <1>9 DEF Unit, Abs
  <2>2. PICK k \in 1..9 : EightNeighbors[k][1] = gx - hx /\ EightNeighbors[k][2] = gy - hy
    BY <2>1, Offsets
  <2>3. hx + (gx - hx) = gx /\ hy + (gy - hy) = gy
    BY <1>7
  <2> QED BY <1>1, <1>2, <1>6, <2>2, <2>3
<1>10. ASSUME Linearize(g) = Linearize(h) PROVE Adjacent(g, h)
  <2>1. gx = hx /\ gy = hy
    BY <1>1, <1>2, <1>7, <1>10, Numbering
  <2> QED BY <1>3, <1>7, <2>1 DEF Abs
<1>11. Adjacent(g, h) => Adjacent(h, g)
  BY <1>3, <1>4, <1>7 DEF Abs
<1>12. Linearize(h) \in TileIds
  BY <1>1, <1>2, <1>5, <1>7, Numbering
<1> QED BY <1>8, <1>9, <1>10, <1>11, <1>12

-----------------------------------------------------------------------------
(* Clusters. *)

LEMMA ClusterHits ==
    ASSUME NEW cl \in Cluster, NEW h \in Range(cl.hits)
    PROVE  h \in Hits /\ h.toa \in Nat
<1>1. cl.hits \in Seq(Hits)
  BY DEF Cluster
<1>2. h \in Hits
  BY <1>1 DEF Range
<1> QED BY <1>2, HitType

\* The first and the last toa of a cluster are those it keeps.
LEMMA SpanIsToa ==
    ASSUME NEW cl \in Cluster, Spans(cl)
    PROVE  FirstToa(Range(cl.hits)) = cl.first /\ LastToa(Range(cl.hits)) = cl.last
<1> DEFINE R == Range(cl.hits)
           T == {h.toa : h \in R}
<1>1. /\ \A h \in R : cl.first <= h.toa /\ h.toa <= cl.last /\ h.toa \in Nat
      /\ \E h \in R : h.toa = cl.first
      /\ \E h \in R : h.toa = cl.last
      /\ cl.first \in Nat /\ cl.last \in Nat
  <2>1. \A h \in R : h.toa \in Nat
    BY ClusterHits
  <2>2. cl.first \in Nat /\ cl.last \in Nat
    BY DEF Cluster
  <2> QED BY <2>1, <2>2 DEF Spans
<1> HIDE DEF R
<1>2. cl.first \in T /\ cl.last \in T /\ \A t \in T : t \in Nat
  BY <1>1
<1>3. FirstToa(R) = CHOOSE t \in T : \A h \in R : t <= h.toa
  BY DEF FirstToa
<1>4. LastToa(R) = CHOOSE t \in T : \A h \in R : h.toa <= t
  BY DEF LastToa
<1>5. (\A h \in R : cl.first <= h.toa) /\ (\A h \in R : h.toa <= cl.last)
  BY <1>1
<1>6. \A t \in T : \E h \in R : h.toa = t
  OBVIOUS
<1> HIDE DEF T
<1>7. FirstToa(R) \in T /\ \A h \in R : FirstToa(R) <= h.toa
  BY <1>2, <1>3, <1>5
<1>8. LastToa(R) \in T /\ \A h \in R : h.toa <= LastToa(R)
  BY <1>2, <1>4, <1>5
<1>9. FirstToa(R) <= cl.first /\ cl.first <= FirstToa(R) /\ FirstToa(R) \in Nat
  BY <1>1, <1>2, <1>6, <1>7
<1>10. LastToa(R) <= cl.last /\ cl.last <= LastToa(R) /\ LastToa(R) \in Nat
  BY <1>1, <1>2, <1>6, <1>8
<1>11. FirstToa(R) = cl.first /\ LastToa(R) = cl.last
  BY <1>1, <1>9, <1>10
<1> QED BY <1>11 DEF R

Sound(cl) == cl \in Cluster /\ Parallel(cl) /\ Spans(cl)

\* The iterators of a cluster are named by its hits.
IdsOf(R) == {h.id : h \in R}

LEMMA IteratorsOf ==
    ASSUME NEW cl \in Cluster, Parallel(cl)
    PROVE  /\ Range(cl.pixelIterators) = IdsOf(Range(cl.hits))
           /\ cl.hits \in Seq(Hits) /\ cl.pixelIterators \in Seq(Ids)
           /\ DOMAIN cl.pixelIterators = DOMAIN cl.hits
           /\ \A h \in Range(cl.hits) : h \in Hits /\ h.id \in Ids
<1>1. cl.hits \in Seq(Hits) /\ cl.pixelIterators \in Seq(Ids)
  BY DEF Cluster
<1>2. DOMAIN cl.hits = 1..Len(cl.hits) /\ DOMAIN cl.pixelIterators = 1..Len(cl.pixelIterators)
  BY <1>1
<1>3. DOMAIN cl.pixelIterators = DOMAIN cl.hits
  BY <1>2 DEF Parallel
<1>4. \A h \in Range(cl.hits) : h \in Hits /\ h.id \in Ids
  BY <1>1, HitType DEF Range
<1>5. Range(cl.pixelIterators) = IdsOf(Range(cl.hits))
  BY <1>3 DEF Parallel, Range, IdsOf
<1> QED BY <1>1, <1>3, <1>4, <1>5

LEMMA MergeSound ==
    ASSUME NEW big, NEW small, Sound(big), Sound(small), big.first <= small.first,
           \A g \in Range(big.hits), h \in Range(small.hits) : g.id # h.id
    PROVE  /\ Sound(MergeInto(big, small))
           /\ Range(MergeInto(big, small).hits) = Range(big.hits) \cup Range(small.hits)
           /\ MergeInto(big, small).first = big.first
<1> DEFINE m == MergeInto(big, small)
           p == big.hits
           q == small.hits
           u == big.pixelIterators
           v == small.pixelIterators
<1>1. /\ p \in Seq(Hits) /\ q \in Seq(Hits) /\ u \in Seq(Ids) /\ v \in Seq(Ids)
      /\ big.first \in Nat /\ big.last \in Nat /\ small.first \in Nat /\ small.last \in Nat
  BY DEF Sound, Cluster
<1>2. /\ m.hits = p \o q /\ m.pixelIterators = u \o v
      /\ m.first = big.first
      /\ m.last \in Nat /\ big.last <= m.last /\ small.last <= m.last
      /\ m.last \in {big.last, small.last}
      /\ m = [hits |-> p \o q, pixelIterators |-> u \o v, first |-> m.first, last |-> m.last]
  <2>1. /\ m.hits = p \o q /\ m.pixelIterators = u \o v
        /\ m.first = SmallerOf(big.first, small.first)
        /\ m.last = LargerOf(big.last, small.last)
        /\ m = [hits |-> p \o q, pixelIterators |-> u \o v, first |-> m.first, last |-> m.last]
    BY DEF MergeInto
  <2>2. SmallerOf(big.first, small.first) = big.first
    BY <1>1 DEF SmallerOf
  <2>3. /\ LargerOf(big.last, small.last) \in {big.last, small.last}
        /\ big.last <= LargerOf(big.last, small.last)
        /\ small.last <= LargerOf(big.last, small.last)
    BY <1>1 DEF LargerOf
  <2> HIDE DEF m
  <2> QED BY <1>1, <2>1, <2>2, <2>3
<1>3. Range(p \o q) = Range(p) \cup Range(q)
  BY <1>1, Concatenation
<1>4. p \o q \in Seq(Hits) /\ u \o v \in Seq(Ids)
  BY <1>1
<1>5. m \in Cluster
  <2> HIDE DEF m
  <2> QED BY <1>1, <1>2, <1>4 DEF Cluster
<1>6. Parallel(m)
  <2>1. /\ Len(u) = Len(p) /\ Len(v) = Len(q)
        /\ \A i \in DOMAIN p : u[i] = p[i].id
        /\ \A i \in DOMAIN q : v[i] = q[i].id
        /\ IsInjective(u) /\ IsInjective(v)
    BY DEF Sound, Parallel
  <2>2. /\ Len(p) \in Nat /\ Len(q) \in Nat
        /\ DOMAIN p = 1..Len(p) /\ DOMAIN q = 1..Len(q)
        /\ Len(p \o q) = Len(p) + Len(q) /\ DOMAIN (p \o q) = 1..(Len(p) + Len(q))
        /\ \A i \in 1..Len(p) : (p \o q)[i] = p[i]
        /\ \A i \in 1..Len(q) : (p \o q)[Len(p) + i] = q[i]
        /\ \A i \in 1..(Len(p) + Len(q)) :
               i \in 1..Len(p) \/ \E k \in 1..Len(q) : i = Len(p) + k
    <3> HIDE DEF m, p, q
    <3> QED BY <1>1, Concatenation
  <2>3. /\ Len(u \o v) = Len(u) + Len(v)
        /\ \A i \in 1..Len(u) : (u \o v)[i] = u[i]
        /\ \A i \in 1..Len(v) : (u \o v)[Len(u) + i] = v[i]
    <3> HIDE DEF m, u, v
    <3> QED BY <1>1, Concatenation
  <2>4. Range(u) \cap Range(v) = {}
    <3>1. Range(u) = IdsOf(Range(p)) /\ Range(v) = IdsOf(Range(q))
      BY IteratorsOf DEF Sound
    <3> QED BY <3>1 DEF IdsOf
  <2>5. IsInjective(u \o v)
    BY <1>1, <2>1, <2>4, InjectiveConcatenation
  <2> DEFINE r == p \o q
             w == u \o v
  <2> HIDE DEF p, q, u, v, r, w
  <2>6. ASSUME NEW i \in DOMAIN r PROVE w[i] = r[i].id
    <3>1. CASE i \in 1..Len(p)
      BY <2>1, <2>2, <2>3, <3>1 DEF r, w
    <3>2. CASE i \notin 1..Len(p)
      <4>1. PICK k \in 1..Len(q) : i = Len(p) + k
        BY <2>2, <3>2 DEF r
      <4>2. w[i] = v[k] /\ r[i] = q[k]
        BY <2>1, <2>2, <2>3, <4>1 DEF r, w
      <4> QED BY <2>1, <2>2, <4>2
    <3> QED BY <3>1, <3>2
  <2>7. Len(w) = Len(r)
    BY <2>1, <2>2, <2>3 DEF r, w
  <2>8. m.hits = r /\ m.pixelIterators = w
    BY <1>2 DEF p, q, u, v, r, w
  <2> HIDE DEF m
  <2> QED BY <2>5, <2>6, <2>7, <2>8 DEF Parallel, r, w
<1>7. Spans(m)
  <2>1. Range(m.hits) = Range(p) \cup Range(q)
    BY <1>2, <1>3
  <2>2. /\ \A h \in Range(p) : big.first <= h.toa /\ h.toa <= big.last /\ h.toa \in Nat
        /\ \A h \in Range(q) : small.first <= h.toa /\ h.toa <= small.last /\ h.toa \in Nat
        /\ \E h \in Range(p) : h.toa = big.first
        /\ \E h \in Range(p) : h.toa = big.last
        /\ \E h \in Range(q) : h.toa = small.last
    BY ClusterHits DEF Sound, Spans
  <2> DEFINE P == Range(p)
             Q == Range(q)
  <2> HIDE DEF P, Q, m
  <2>3. /\ \A h \in P : m.first <= h.toa /\ h.toa <= m.last
        /\ \A h \in Q : m.first <= h.toa /\ h.toa <= m.last
    BY <1>1, <1>2, <2>2 DEF P, Q
  <2>4. \E h \in P \cup Q : h.toa = m.first
    BY <1>2, <2>2 DEF P
  <2>5. \E h \in P \cup Q : h.toa = m.last
    BY <1>2, <2>2 DEF P, Q
  <2> QED BY <2>1, <2>3, <2>4, <2>5 DEF Spans, P, Q
<1> QED BY <1>2, <1>3, <1>5, <1>6, <1>7 DEF Sound

LEMMA ExtendSound ==
    ASSUME NEW cl \in Cluster, NEW h \in Hits,
           \/ cl.hits = <<>> /\ cl.pixelIterators = <<>>
           \/ Parallel(cl) /\ Spans(cl),
           \A g \in Range(cl.hits) : g.id # h.id /\ g.toa <= h.toa
    PROVE  /\ Sound(Extend(cl, h))
           /\ Range(Extend(cl, h).hits) = Range(cl.hits) \cup {h}
           /\ Extend(cl, h).last = h.toa
           /\ Extend(cl, h).first = IF cl.hits = <<>> THEN h.toa ELSE cl.first
<1> DEFINE e == Extend(cl, h)
           p == cl.hits
           u == cl.pixelIterators
           r == Append(p, h)
           w == Append(u, h.id)
<1>1. /\ p \in Seq(Hits) /\ u \in Seq(Ids) /\ cl.first \in Nat /\ cl.last \in Nat
      /\ h.toa \in Nat /\ h.id \in Ids
  BY HitType DEF Cluster
<1>2. /\ \A g \in Range(p) : g.toa \in Nat /\ g \in Hits /\ g.toa <= h.toa
      /\ p # <<>> => /\ \A g \in Range(p) : cl.first <= g.toa
                     /\ \E g \in Range(p) : g.toa = cl.first
                     /\ \E g \in Range(p) : g.toa = cl.last
  BY ClusterHits DEF Spans
<1>3. p # <<>> => cl.first <= h.toa /\ cl.last <= h.toa
  BY <1>1, <1>2
<1>4. /\ e.hits = r /\ e.pixelIterators = w
      /\ e.first = IF p = <<>> THEN h.toa ELSE cl.first
      /\ e.last = h.toa
      /\ e = [hits |-> r, pixelIterators |-> w, first |-> e.first, last |-> e.last]
  BY <1>1, <1>3 DEF Extend, SmallerOf, LargerOf
<1>5. /\ r \in Seq(Hits) /\ r # <<>> /\ Len(p) \in Nat /\ Len(r) = Len(p) + 1
      /\ DOMAIN p = 1..Len(p) /\ DOMAIN r = 1..(Len(p) + 1)
      /\ r[Len(p) + 1] = h /\ \A i \in DOMAIN p : r[i] = p[i]
      /\ Range(r) = Range(p) \cup {h}
  <2> HIDE DEF e, p
  <2> QED BY <1>1, OneAppended
<1>6. /\ w \in Seq(Ids) /\ Len(w) = Len(u) + 1
      /\ DOMAIN u = 1..Len(u) /\ w[Len(u) + 1] = h.id /\ \A i \in DOMAIN u : w[i] = u[i]
      /\ IsInjective(u) /\ h.id \notin Range(u) => IsInjective(w)
  <2> HIDE DEF e, u
  <2> QED BY <1>1, OneAppended
<1>7. e \in Cluster
  <2> HIDE DEF e, r, w
  <2>1. e.first \in Nat /\ e.last \in Nat
    BY <1>1, <1>4
  <2> QED BY <1>4, <1>5, <1>6, <2>1 DEF Cluster
<1>8. Len(u) = Len(p) /\ (\A i \in DOMAIN p : u[i] = p[i].id) /\ IsInjective(u) /\ h.id \notin Range(u)
  <2>1. CASE p = <<>> /\ u = <<>>
    BY <2>1 DEF IsInjective, Range
  <2>2. CASE Parallel(cl)
    <3>1. Range(u) = IdsOf(Range(p))
      BY <2>2, IteratorsOf
    <3> QED BY <2>2, <3>1 DEF Parallel, IdsOf
  <2> QED BY <2>1, <2>2
<1> HIDE DEF p, u, r, w
<1>9. Parallel(e)
  <2>1. Len(w) = Len(r) /\ IsInjective(w)
    BY <1>5, <1>6, <1>8
  <2>2. \A i \in DOMAIN r : w[i] = r[i].id
    BY <1>5, <1>6, <1>8
  <2> HIDE DEF e
  <2> QED BY <1>4, <2>1, <2>2 DEF Parallel
<1>10. Spans(e)
  <2>1. h \in Range(r)
    BY <1>5
  <2>2. \A g \in Range(r) : e.first <= g.toa /\ g.toa <= e.last
    <3> HIDE DEF e
    <3>1. CASE p = <<>>
      <4>1. Range(p) = {}
        BY <3>1 DEF Range
      <4> QED BY <1>1, <1>4, <1>5, <3>1, <4>1
    <3>2. CASE p # <<>>
      BY <1>1, <1>2, <1>3, <1>4, <1>5, <3>2
    <3> QED BY <3>1, <3>2
  <2>3. \E g \in Range(r) : g.toa = e.first
    <3> HIDE DEF e
    <3> QED BY <1>2, <1>4, <1>5, <2>1
  <2> HIDE DEF e
  <2> QED BY <1>4, <2>1, <2>2, <2>3 DEF Spans
<1> QED BY <1>4, <1>5, <1>7, <1>9, <1>10 DEF Sound, p, r

\* Of the clusters found, the biggest is one with the least first toa.
LEMMA BiggestFound ==
    ASSUME clusters \in [Ids -> Cluster], NEW found \in Seq(Ids), found # <<>>
    PROVE  /\ Biggest(found) \in Range(found)
           /\ \A c \in Range(found) : clusters[Biggest(found)].first <= clusters[c].first
<1> DEFINE f(i) == clusters[found[i]].first
           F == {f(i) : i \in DOMAIN found}
<1>1. DOMAIN found = 1..Len(found) /\ Len(found) \in Nat /\ 1 \in DOMAIN found
  OBVIOUS
<1>2. \A i \in DOMAIN found : f(i) \in Nat /\ i \in Nat
  <2> SUFFICES ASSUME NEW i \in DOMAIN found PROVE f(i) \in Nat /\ i \in Nat
    OBVIOUS
  <2>1. clusters[found[i]] \in Cluster
    OBVIOUS
  <2> QED BY <1>1, <2>1 DEF Cluster
<1>3. Biggest(found) = found[CHOOSE i \in DOMAIN found : \A j \in DOMAIN found :
                                f(i) < f(j) \/ (f(i) = f(j) /\ i <= j)]
  BY DEF Biggest
<1> HIDE DEF f
<1>4. PICK m \in F : \A k \in F : m <= k
  <2>1. F \in SUBSET Nat /\ F # {}
    BY <1>1, <1>2
  <2> HIDE DEF F
  <2> QED BY <2>1, LeastElement
<1> DEFINE I == {i \in DOMAIN found : f(i) = m}
<1>5. PICK i \in I : \A k \in I : i <= k
  <2>1. I \in SUBSET Nat /\ I # {}
    BY <1>2, <1>4
  <2> HIDE DEF I
  <2> QED BY <2>1, LeastElement
<1>6. \A j \in DOMAIN found : f(i) < f(j) \/ (f(i) = f(j) /\ i <= j)
  <2> SUFFICES ASSUME NEW j \in DOMAIN found PROVE f(i) < f(j) \/ (f(i) = f(j) /\ i <= j)
    OBVIOUS
  <2>1. f(i) = m /\ m <= f(j) /\ f(j) \in Nat /\ m \in Nat
    BY <1>2, <1>4, <1>5
  <2>2. f(j) = m => i <= j
    BY <1>5
  <2> QED BY <2>1, <2>2
<1> DEFINE b == CHOOSE k \in DOMAIN found : \A j \in DOMAIN found :
                   f(k) < f(j) \/ (f(k) = f(j) /\ k <= j)
<1>7. b \in DOMAIN found /\ \A j \in DOMAIN found : f(b) < f(j) \/ (f(b) = f(j) /\ b <= j)
  <2>1. i \in DOMAIN found
    BY <1>5
  <2> QED BY <1>6, <2>1
<1> HIDE DEF b
<1>8. \A j \in DOMAIN found : f(b) <= f(j)
  BY <1>2, <1>7
<1>9. Biggest(found) = found[b]
  BY <1>3 DEF b
<1> QED BY <1>7, <1>8, <1>9 DEF Range, f

\* What the biggest becomes when the others are merged into it.
MergedUpto(cl, big, found, k) ==
    /\ Sound(cl)
    /\ Range(cl.hits) = HitsOf(big) \cup UNION {HitsOf(found[i]) : i \in 1..k}
    /\ cl.first = clusters[big].first

LEMMA MergedMore ==
    ASSUME \A c \in Open : Sound(clusters[c]), IdsApart,
           NEW found \in Seq(Ids), Range(found) \subseteq Open, IsInjective(found),
           NEW big \in Range(found),
           \A c \in Range(found) : clusters[big].first <= clusters[c].first,
           NEW k \in Nat, k + 1 \in 1..Len(found),
           NEW cl, MergedUpto(cl, big, found, k)
    PROVE  MergedUpto(IF found[k + 1] = big THEN cl ELSE MergeInto(cl, clusters[found[k + 1]]),
                      big, found, k + 1)
<1> DEFINE c == found[k + 1]
           R == HitsOf(big) \cup UNION {HitsOf(found[i]) : i \in 1..k}
<1>1. /\ \A i \in 1..(k + 1) : i \in 1..k \/ i = k + 1
      /\ \A i \in 1..k : i \in 1..(k + 1) /\ i # k + 1 /\ i \in DOMAIN found
      /\ k + 1 \in 1..(k + 1) /\ k + 1 \in DOMAIN found
  OBVIOUS
<1>2. HitsOf(big) \cup UNION {HitsOf(found[i]) : i \in 1..(k + 1)} = R \cup HitsOf(c)
  BY <1>1
<1>3. CASE c = big
  <2>1. R \cup HitsOf(c) = R
    BY <1>3
  <2> QED BY <1>2, <1>3, <2>1 DEF MergedUpto
<1>4. CASE c # big
  <2>1. c \in Open /\ c \in Range(found)
    BY <1>1 DEF Range
  <2>2. Sound(cl) /\ Sound(clusters[c]) /\ cl.first <= clusters[c].first
    BY <2>1 DEF MergedUpto
  <2>3. ASSUME NEW g \in Range(cl.hits), NEW h \in Range(clusters[c].hits)
        PROVE  g.id # h.id
    <3>1. g \in R /\ h \in HitsOf(c)
      BY <2>3 DEF MergedUpto, HitsOf
    <3>2. CASE g \in HitsOf(big)
      BY <1>4, <2>1, <3>1, <3>2 DEF IdsApart
    <3>3. CASE \E i \in 1..k : g \in HitsOf(found[i])
      <4>1. PICK i \in 1..k : g \in HitsOf(found[i])
        BY <3>3
      <4>2. found[i] \in Open /\ found[i] # c
        BY <1>1 DEF Range, IsInjective
      <4> QED BY <2>1, <3>1, <4>1, <4>2 DEF IdsApart
    <3> QED BY <3>1, <3>2, <3>3
  <2> DEFINE m == MergeInto(cl, clusters[c])
  <2>4. Sound(m) /\ Range(m.hits) = Range(cl.hits) \cup HitsOf(c) /\ m.first = cl.first
    BY <2>2, <2>3, MergeSound DEF HitsOf
  <2> HIDE DEF m
  <2>5. MergedUpto(m, big, found, k + 1)
    BY <1>2, <2>4 DEF MergedUpto
  <2> QED BY <1>4, <2>5 DEF m
<1> QED BY <1>3, <1>4

LEMMA MergedSound ==
    ASSUME clusters \in [Ids -> Cluster], \A c \in Open : Sound(clusters[c]), IdsApart,
           NEW found \in Seq(Ids), Range(found) \subseteq Open, IsInjective(found),
           NEW big \in Range(found),
           \A c \in Range(found) : clusters[big].first <= clusters[c].first
    PROVE  /\ Sound(Merged(big, found))
           /\ Range(Merged(big, found).hits) = UNION {HitsOf(c) : c \in Range(found)}
           /\ Merged(big, found).first = clusters[big].first
<1> DEFINE n == Len(found)
           next(k, cl) == IF found[k] = big THEN cl ELSE MergeInto(cl, clusters[found[k]])
           Made(g) == [k \in 0..n |-> IF k = 0 THEN clusters[big] ELSE next(k, g[k - 1])]
           merged == CHOOSE g : g = Made(g)
           step == [k \in 1..n |-> [cl \in Cluster |-> next(k, cl)]]
<1>1. n \in Nat /\ DOMAIN found = 1..n /\ (\A k \in 1..n : found[k] \in Ids) /\ big \in Ids
  BY DEF Range
<1>2. clusters[big] \in Cluster /\ \A k \in 1..n : \A cl \in Cluster : next(k, cl) \in Cluster
  <2>1. ASSUME NEW c \in Ids, NEW cl \in Cluster PROVE MergeInto(cl, clusters[c]) \in Cluster
    <3>1. PICK d \in Cluster : d = clusters[c]
      OBVIOUS
    <3>2. /\ cl.hits \in Seq(Hits) /\ cl.pixelIterators \in Seq(Ids) /\ cl.first \in Nat /\ cl.last \in Nat
          /\ d.hits \in Seq(Hits) /\ d.pixelIterators \in Seq(Ids) /\ d.first \in Nat /\ d.last \in Nat
      BY DEF Cluster
    <3>3. cl.hits \o d.hits \in Seq(Hits) /\ cl.pixelIterators \o d.pixelIterators \in Seq(Ids)
      BY <3>2
    <3>4. SmallerOf(cl.first, d.first) \in Nat /\ LargerOf(cl.last, d.last) \in Nat
      BY <3>2 DEF SmallerOf, LargerOf
    <3>5. MergeInto(cl, d) \in Cluster
      BY <3>3, <3>4 DEF MergeInto, Cluster
    <3> QED BY <3>1, <3>5
  <2> QED BY <1>1, <2>1
<1>3. \E f : f = Made(f)
  <2> HIDE DEF next
  <2>1. step \in [1..n -> [Cluster -> Cluster]]
    BY <1>2
  <2>2. /\ \A k \in 1..n : \A cl \in Cluster : step[k][cl] = next(k, cl)
        /\ \A k \in 1..n : k - 1 \in 0..n /\ k # 0
        /\ \A k \in 0..n : k = 0 \/ k \in 1..n
    BY <1>1
  <2> HIDE DEF step, n
  <2>3. PICK f \in [0..n -> Cluster] : f[0] = clusters[big] /\ \A k \in 1..n : f[k] = step[k][f[k - 1]]
    <3>1. Iterable(Cluster, n, clusters[big], step)
      BY <1>1, <1>2, <2>1, Iterates
    <3> QED BY <3>1 DEF Iterable
  <2>4. \A k \in 1..n : f[k] = next(k, f[k - 1])
    BY <2>2, <2>3
  <2>5. f = Made(f)
    BY <2>2, <2>3, <2>4
  <2> QED BY <2>5
<1>4. merged = Made(merged)
  BY <1>3
<1>5. Merged(big, found) = merged[n]
  BY DEF Merged
<1> HIDE DEF merged
<1>6. merged[0] = clusters[big] /\ \A k \in 1..n : merged[k] = next(k, merged[k - 1])
  <2>1. 0 \in 0..n /\ \A k \in 1..n : k \in 0..n /\ k # 0
    BY <1>1
  <2> HIDE DEF next, n
  <2>2. \A k \in 0..n : merged[k] = IF k = 0 THEN clusters[big] ELSE next(k, merged[k - 1])
    BY <1>4
  <2> QED BY <2>1, <2>2
<1> DEFINE U == {k \in 0..n : MergedUpto(merged[k], big, found, k)}
<1>7. 0 \in U
  <2>1. UNION {HitsOf(found[i]) : i \in 1..0} = {}
    OBVIOUS
  <2>2. MergedUpto(clusters[big], big, found, 0)
    BY <2>1 DEF MergedUpto, HitsOf
  <2>3. merged[0] = clusters[big] /\ 0 \in 0..n
    BY <1>1, <1>6
  <2> QED BY <2>2, <2>3
<1>8. ASSUME NEW k \in 0..(n - 1), k \in U PROVE k + 1 \in U
  <2>1. /\ k \in Nat /\ k + 1 \in 1..n /\ k + 1 \in 0..n /\ (k + 1) - 1 = k
    BY <1>1, <1>8
  <2>2. MergedUpto(merged[k], big, found, k)
    BY <1>8
  <2>3. MergedUpto(next(k + 1, merged[k]), big, found, k + 1)
    BY <2>1, <2>2, MergedMore
  <2>4. merged[k + 1] = next(k + 1, merged[k])
    <3> HIDE DEF next, n
    <3>1. merged[k + 1] = next(k + 1, merged[(k + 1) - 1])
      BY <1>6, <2>1
    <3> QED BY <2>1, <3>1
  <2> HIDE DEF next
  <2> QED BY <2>1, <2>3, <2>4
<1>9. n \in U
  <2> HIDE DEF U, n
  <2>1. 0..n \subseteq U
    BY <1>1, <1>7, <1>8, Induction
  <2> QED BY <1>1, <2>1
<1>10. HitsOf(big) \cup UNION {HitsOf(found[i]) : i \in 1..n} = UNION {HitsOf(c) : c \in Range(found)}
  BY <1>1 DEF Range
<1> QED BY <1>5, <1>9, <1>10 DEF MergedUpto

-----------------------------------------------------------------------------
(* What the invariant says of an open cluster, of a node, and of the search. *)

LEMMA OpenFacts ==
    ASSUME Kinds, Past, Consistent, NEW c \in Open
    PROVE  /\ c \in Ids /\ c \in 1..processed
           /\ Sound(clusters[c])
           /\ clusters[c].hits # <<>> /\ HitsOf(c) # {}
           /\ clusters[c].first \in Nat /\ clusters[c].last \in Nat
           /\ clusters[c].first <= hit.toa /\ clusters[c].last <= hit.toa
           /\ \A h \in HitsOf(c) : /\ h \in Hits /\ h.id \in Ids /\ h.id <= processed
                                   /\ h.toa \in Nat /\ h.toa <= hit.toa
           /\ FirstToa(HitsOf(c)) = clusters[c].first
           /\ LastToa(HitsOf(c)) = clusters[c].last
<1>1. c \in Ids /\ processed \in Nat
  BY Sizes DEF Kinds, Open, Range
<1>2. c \in 1..processed
  BY <1>1 DEF Past, Ids
<1>3. clusters[c] \in Cluster /\ Parallel(clusters[c]) /\ Spans(clusters[c])
  BY <1>1 DEF Kinds, Consistent
<1>4. /\ FirstToa(HitsOf(c)) = clusters[c].first /\ LastToa(HitsOf(c)) = clusters[c].last
      /\ clusters[c].first \in Nat /\ clusters[c].last \in Nat
  BY <1>3, SpanIsToa DEF HitsOf, Cluster
<1>5. \A h \in HitsOf(c) : /\ h \in Hits /\ h.id \in Ids /\ h.id <= processed
                           /\ h.toa \in Nat /\ h.toa <= hit.toa
  <2> SUFFICES ASSUME NEW h \in HitsOf(c)
               PROVE  /\ h \in Hits /\ h.id \in Ids /\ h.id <= processed
                      /\ h.toa \in Nat /\ h.toa <= hit.toa
    OBVIOUS
  <2>1. h \in read
    BY DEF Past
  <2>2. h \in Hits
    BY <2>1 DEF Kinds
  <2> QED BY <2>1, <2>2, HitType DEF Past
<1>6. /\ \E h \in HitsOf(c) : h.toa = clusters[c].first
      /\ \E h \in HitsOf(c) : h.toa = clusters[c].last
  BY <1>3 DEF Spans, HitsOf
<1>7. clusters[c].first <= hit.toa /\ clusters[c].last <= hit.toa
  BY <1>5, <1>6
<1>8. clusters[c].hits # <<>>
  BY <1>6 DEF HitsOf, Range
<1> QED BY <1>1, <1>2, <1>3, <1>4, <1>5, <1>6, <1>7, <1>8 DEF Sound

LEMMA NodeFacts ==
    ASSUME Kinds, MatrixHolds, NEW t \in TileIds, NEW i \in DOMAIN nodes[t]
    PROVE  /\ nodes[t][i] \in Ids
           /\ owner[nodes[t][i]] \in Open
           /\ \E h \in HitsOf(owner[nodes[t][i]]) : h.id = nodes[t][i] /\ Linearize(h) = t
<1> DEFINE n == nodes[t][i]
<1>1. nodes[t] \in Seq(Ids)
  BY DEF Kinds
<1>2. n \in Ids /\ n \in Range(nodes[t])
  BY <1>1 DEF Range
<1> HIDE DEF n
<1>3. PICK c \in Open : \E h \in HitsOf(c) : h.id = n /\ Linearize(h) = t
  BY <1>2 DEF MatrixHolds
<1>4. PICK h \in HitsOf(c) : h.id = n /\ Linearize(h) = t
  BY <1>3
<1>5. owner[n] = c
  BY <1>4 DEF MatrixHolds
<1> QED BY <1>2, <1>4, <1>5 DEF n

\* The cluster is near in time to the hit.
Near(c) == Abs(hit.toa - clusters[c].last) < MaxDt

\* Of clusters with adjacent hits, only one is near.
LEMMA NearUnique ==
    ASSUME Kinds, Past, Consistent, TimesApart, NEW c \in Open, NEW d \in Open, Near(c), Near(d),
           NEW g \in HitsOf(c), NEW h \in HitsOf(d), Adjacent(g, h)
    PROVE  c = d
<1> DEFINE u == clusters[c].last
           v == clusters[d].last
<1>1. u \in Nat /\ v \in Nat /\ u <= hit.toa /\ v <= hit.toa
  BY OpenFacts
<1>2. hit.toa \in Nat /\ MaxDt \in Nat
  BY Sizes DEF Kinds
<1>3. Abs(hit.toa - u) < MaxDt /\ Abs(hit.toa - v) < MaxDt
  BY DEF Near
<1>4. c # d => MaxDt <= Abs(u - v)
  BY DEF TimesApart
<1> HIDE DEF u, v
<1> QED BY <1>1, <1>2, <1>3, <1>4 DEF Abs

\* The hit joins a cluster if it is near and has an adjacent hit.
LEMMA JoinsNear ==
    ASSUME Kinds, Past, Consistent, NEW c \in Open
    PROVE  Joins(hit, HitsOf(c)) <=> Near(c) /\ \E g \in HitsOf(c) : Adjacent(g, hit)
  BY OpenFacts DEF Joins, Near

\* What one more offset adds to the clusters found.
LEMMA CandidateFacts ==
    ASSUME PixelInv, hit \in Hits, NEW k \in 1..9, NEW s \in Seq(Ids)
    PROVE  /\ Candidate(hit, EightNeighbors[k], s) \in Seq(Ids)
           /\ IsInjective(Candidate(hit, EightNeighbors[k], s))
           /\ Range(Candidate(hit, EightNeighbors[k], s)) \cap Range(s) = {}
           /\ \A c \in Range(Candidate(hit, EightNeighbors[k], s)) :
                 c \in Open /\ Joins(hit, HitsOf(c))
           /\ \A c \in Open :
                 /\ IsValidNeighbor(hit, EightNeighbors[k]) /\ Near(c)
                 /\ \E g \in HitsOf(c) : Linearize(g) = TileAt(hit, k)
                 => c \in Range(s) \cup Range(Candidate(hit, EightNeighbors[k], s))
<1> DEFINE off == EightNeighbors[k]
           tile == TileAt(hit, k)
           fits == Fitting(hit, tile, Range(s))
           first == CHOOSE i \in fits : \A j \in fits : i <= j
           d == owner[nodes[tile][first]]
           C == Candidate(hit, off, s)
<1>0. /\ Kinds /\ Past /\ Consistent /\ TimesApart /\ MatrixHolds
  BY DEF PixelInv
<1>1. C = IF IsValidNeighbor(hit, off) /\ fits # {} THEN <<d>> ELSE <<>>
  BY DEF Candidate, TileAt
<1>2. CASE ~IsValidNeighbor(hit, off) \/ fits = {}
  <2>1. C = <<>>
    BY <1>1, <1>2
  <2>2. C \in Seq(Ids) /\ Range(C) = {} /\ IsInjective(C)
    BY <2>1 DEF Range, IsInjective
  <2> HIDE DEF C
  <2>3. ASSUME NEW c \in Open, IsValidNeighbor(hit, off), Near(c),
               NEW g \in HitsOf(c), Linearize(g) = tile
        PROVE  c \in Range(s)
    <3>1. tile \in TileIds
      BY <2>3, TileFacts
    <3>2. g.id \in Ids /\ owner[g.id] = c
      BY <1>0, <2>3, OpenFacts DEF MatrixHolds
    <3>3. g.id \in Range(nodes[tile])
      BY <1>0, <2>3, <3>1, <3>2 DEF MatrixHolds
    <3>4. PICK i \in DOMAIN nodes[tile] : nodes[tile][i] = g.id
      BY <3>3 DEF Range
    <3>5. i \notin fits
      BY <1>2, <2>3
    <3> QED BY <2>3, <3>2, <3>4, <3>5 DEF Fitting, Near
  <2> QED BY <2>2, <2>3 DEF C
<1>3. CASE IsValidNeighbor(hit, off) /\ fits # {}
  <2>1. C = <<d>>
    BY <1>1, <1>3
  <2>2. tile \in TileIds
    BY <1>3, TileFacts
  <2>3. first \in fits
    <3>1. fits \in SUBSET Nat
      <4>1. nodes[tile] \in Seq(Ids)
        BY <1>0, <2>2 DEF Kinds
      <4> QED BY <4>1 DEF Fitting
    <3>2. PICK m \in fits : \A j \in fits : m <= j
      <4> HIDE DEF fits
      <4> QED BY <1>3, <3>1, LeastElement
    <3> HIDE DEF fits
    <3> QED BY <3>2
  <2>4. first \in DOMAIN nodes[tile] /\ Near(d) /\ d \notin Range(s)
    <3> HIDE DEF first
    <3> QED BY <2>3 DEF Fitting, Near
  <2> HIDE DEF first
  <2>5. d \in Open /\ \E h \in HitsOf(d) : Linearize(h) = tile
    BY <1>0, <2>2, <2>4, NodeFacts
  <2> HIDE DEF fits, d
  <2>6. PICK h \in HitsOf(d) : Linearize(h) = tile
    BY <2>5
  <2>7. d \in Ids /\ h \in Hits
    BY <1>0, <2>5, <2>6, OpenFacts
  <2>8. C \in Seq(Ids) /\ Range(C) = {d} /\ IsInjective(C)
    BY <2>1, <2>7, OneElement
  <2> HIDE DEF C
  <2>9. Joins(hit, HitsOf(d))
    <3>1. Adjacent(h, hit)
      BY <1>3, <2>6, <2>7, TileFacts
    <3> QED BY <1>0, <2>4, <2>5, <2>6, <3>1, JoinsNear
  <2>10. ASSUME NEW c \in Open, Near(c), NEW g \in HitsOf(c), Linearize(g) = tile
         PROVE  c = d
    <3>1. g \in Hits
      BY <1>0, <2>10, OpenFacts
    <3>2. Adjacent(g, h)
      BY <2>6, <2>7, <2>10, <3>1, TileFacts
    <3> QED BY <1>0, <2>4, <2>5, <2>6, <2>10, <3>2, NearUnique
  <2> QED BY <2>4, <2>5, <2>8, <2>9, <2>10 DEF C
<1> QED BY <1>2, <1>3

\* The clusters found after k offsets.
FoundUpto(s, k) ==
    /\ s \in Seq(Ids) /\ IsInjective(s)
    /\ \A c \in Range(s) : c \in Open /\ Joins(hit, HitsOf(c))
    /\ \A j \in 1..k : \A c \in Open :
          /\ IsValidNeighbor(hit, EightNeighbors[j]) /\ Near(c)
          /\ \E g \in HitsOf(c) : Linearize(g) = TileAt(hit, j)
          => c \in Range(s)

LEMMA FoundMore ==
    ASSUME PixelInv, hit \in Hits, NEW k \in 0..8, NEW s, FoundUpto(s, k)
    PROVE  FoundUpto(s \o Candidate(hit, EightNeighbors[k + 1], s), k + 1)
<1>1. k + 1 \in 1..9 /\ s \in Seq(Ids)
  BY DEF FoundUpto
<1> DEFINE C == Candidate(hit, EightNeighbors[k + 1], s)
<1>2. /\ C \in Seq(Ids) /\ IsInjective(C) /\ Range(C) \cap Range(s) = {}
      /\ \A c \in Range(C) : c \in Open /\ Joins(hit, HitsOf(c))
      /\ \A c \in Open :
            /\ IsValidNeighbor(hit, EightNeighbors[k + 1]) /\ Near(c)
            /\ \E g \in HitsOf(c) : Linearize(g) = TileAt(hit, k + 1)
            => c \in Range(s) \cup Range(C)
  BY <1>1, CandidateFacts
<1> HIDE DEF C
<1>3. s \o C \in Seq(Ids) /\ Range(s \o C) = Range(s) \cup Range(C) /\ IsInjective(s \o C)
  BY <1>1, <1>2, Concatenation, InjectiveConcatenation DEF FoundUpto
<1>4. \A j \in 1..(k + 1) : j \in 1..k \/ j = k + 1
  OBVIOUS
<1>5. ASSUME NEW j \in 1..(k + 1), NEW c \in Open,
             IsValidNeighbor(hit, EightNeighbors[j]), Near(c),
             \E g \in HitsOf(c) : Linearize(g) = TileAt(hit, j)
      PROVE  c \in Range(s) \cup Range(C)
  <2>1. CASE j \in 1..k
    BY <1>5, <2>1 DEF FoundUpto
  <2>2. CASE j = k + 1
    BY <1>2, <1>5, <2>2
  <2> QED BY <1>4, <2>1, <2>2
<1>6. \A c \in Range(s \o C) : c \in Open /\ Joins(hit, HitsOf(c))
  BY <1>2, <1>3 DEF FoundUpto
<1>7. FoundUpto(s \o C, k + 1)
  BY <1>3, <1>5, <1>6 DEF FoundUpto
<1> QED BY <1>7 DEF C

\* The search finds the clusters the hit joins, each once.
LEMMA SearchFacts ==
    ASSUME PixelInv, hit \in Hits
    PROVE  /\ Neighboring(hit) \in Seq(Ids)
           /\ IsInjective(Neighboring(hit))
           /\ Range(Neighboring(hit)) = {c \in Open : Joins(hit, HitsOf(c))}
<1> DEFINE n == Len(EightNeighbors)
           next(k, s) == s \o Candidate(hit, EightNeighbors[k], s)
           Made(g) == [k \in 0..n |-> IF k = 0 THEN <<>> ELSE next(k, g[k - 1])]
           found == CHOOSE g : g = Made(g)
           step == [k \in 1..n |-> [s \in Seq(Ids) |-> next(k, s)]]
<1>0. Kinds /\ Past /\ Consistent
  BY DEF PixelInv
<1>1. n = 9
  BY Offsets
<1>2. \A k \in 1..n : \A s \in Seq(Ids) : next(k, s) \in Seq(Ids)
  BY <1>1, CandidateFacts
<1> HIDE DEF n
<1>3. \E f : f = Made(f)
  <2> HIDE DEF next
  <2>1. step \in [1..n -> [Seq(Ids) -> Seq(Ids)]]
    BY <1>2
  <2>2. /\ \A k \in 1..n : \A s \in Seq(Ids) : step[k][s] = next(k, s)
        /\ \A k \in 1..n : k - 1 \in 0..n /\ k # 0
        /\ \A k \in 0..n : k = 0 \/ k \in 1..n
    BY <1>1
  <2> HIDE DEF step
  <2>3. PICK f \in [0..n -> Seq(Ids)] : f[0] = <<>> /\ \A k \in 1..n : f[k] = step[k][f[k - 1]]
    <3>1. Iterable(Seq(Ids), n, <<>>, step)
      <4>1. n \in Nat /\ <<>> \in Seq(Ids)
        BY <1>1
      <4> QED BY <4>1, <2>1, Iterates
    <3> QED BY <3>1 DEF Iterable
  <2>4. \A k \in 1..n : f[k] = next(k, f[k - 1])
    BY <2>2, <2>3
  <2>5. f = Made(f)
    BY <2>2, <2>3, <2>4
  <2> QED BY <2>5
<1>4. found = Made(found)
  BY <1>3
<1>5. Neighboring(hit) = found[n]
  BY DEF Neighboring, n
<1> HIDE DEF found
<1>6. found[0] = <<>> /\ \A k \in 1..n : found[k] = next(k, found[k - 1])
  <2>1. 0 \in 0..n /\ \A k \in 1..n : k \in 0..n /\ k # 0
    BY <1>1
  <2> HIDE DEF next
  <2>2. \A k \in 0..n : found[k] = IF k = 0 THEN <<>> ELSE next(k, found[k - 1])
    BY <1>4
  <2> QED BY <2>1, <2>2
<1> DEFINE U == {k \in 0..n : FoundUpto(found[k], k)}
<1>7. 0 \in U
  <2>1. <<>> \in Seq(Ids) /\ IsInjective(<<>>) /\ Range(<<>>) = {} /\ 1..0 = {}
    BY DEF IsInjective, Range
  <2>2. FoundUpto(<<>>, 0)
    BY <2>1 DEF FoundUpto
  <2>3. found[0] = <<>> /\ 0 \in 0..n
    BY <1>1, <1>6
  <2> QED BY <2>2, <2>3
<1>8. ASSUME NEW k \in 0..(n - 1), k \in U PROVE k + 1 \in U
  <2>1. k \in 0..8 /\ k + 1 \in 1..n /\ k + 1 \in 0..n /\ (k + 1) - 1 = k
    BY <1>1
  <2>2. FoundUpto(next(k + 1, found[k]), k + 1)
    BY <1>8, <2>1, FoundMore
  <2>3. found[k + 1] = next(k + 1, found[k])
    <3> HIDE DEF next
    <3>1. found[k + 1] = next(k + 1, found[(k + 1) - 1])
      BY <1>6, <2>1
    <3> QED BY <2>1, <3>1
  <2> HIDE DEF next
  <2> QED BY <2>1, <2>2, <2>3
<1>9. FoundUpto(found[n], n)
  <2>1. n \in Nat /\ n \in 0..n
    BY <1>1
  <2>2. 0..n \subseteq U
    <3> HIDE DEF U
    <3> QED BY <1>7, <1>8, <2>1, Induction
  <2> QED BY <2>1, <2>2
<1> DEFINE s == Neighboring(hit)
<1>10. FoundUpto(s, 9)
  BY <1>1, <1>5, <1>9
<1> HIDE DEF s
<1>11. ASSUME NEW c \in Open, Joins(hit, HitsOf(c)) PROVE c \in Range(s)
  <2>1. Near(c) /\ \E g \in HitsOf(c) : Adjacent(g, hit)
    BY <1>0, <1>11, JoinsNear
  <2>2. PICK g \in HitsOf(c) : Adjacent(g, hit)
    BY <2>1
  <2>3. g \in Hits
    BY <1>0, OpenFacts
  <2>4. PICK j \in 1..9 : IsValidNeighbor(hit, EightNeighbors[j]) /\ Linearize(g) = TileAt(hit, j)
    BY <2>2, <2>3, TileFacts
  <2> QED BY <1>10, <2>1, <2>4 DEF FoundUpto
<1>12. Range(s) = {c \in Open : Joins(hit, HitsOf(c))}
  BY <1>10, <1>11 DEF FoundUpto
<1> QED BY <1>10, <1>12 DEF FoundUpto, s

-----------------------------------------------------------------------------
(* A hit is processed: the clusters it joins become one with it. *)

Taken == {c \in Open : Joins(hit, HitsOf(c))}

Absorbs(big) ==
    /\ pc' = "read" /\ processed' = processed + 1 /\ read' = read \cup {hit}
    /\ UNCHANGED <<hit, output>>
    /\ nodes' = [nodes EXCEPT ![Linearize(hit)] = <<hit.id>> \o @]
    /\ IF Taken = {} THEN big = hit.id ELSE big \in Taken
    /\ unfinished' \in Seq(Ids) /\ IsInjective(unfinished')
    /\ Open' = (Open \ Taken) \cup {big}
    /\ Taken = {} => unfinished' = <<hit.id>> \o unfinished
    /\ Taken # {} =>
          \A i, j \in DOMAIN unfinished' : i < j =>
             \E k, l \in DOMAIN unfinished :
                k < l /\ unfinished'[i] = unfinished[k] /\ unfinished'[j] = unfinished[l]
    /\ clusters' \in [Ids -> Cluster]
    /\ Sound(clusters'[big])
    /\ Range(clusters'[big].hits) = (UNION {HitsOf(c) : c \in Taken}) \cup {hit}
    /\ clusters'[big].last = hit.toa
    /\ clusters'[big].first = IF Taken = {} THEN hit.toa ELSE clusters[big].first
    /\ \A c \in Open \ Taken : clusters'[c] = clusters[c]
    /\ \A c \in Ids : c \notin Open' => clusters'[c] = NoCluster
    /\ owner' \in [Ids -> 0..MaxHits]
    /\ owner'[hit.id] = big
    /\ \A c \in Open : \A h \in HitsOf(c) : owner'[h.id] = IF c \in Taken THEN big ELSE c

LEMMA NoClusterFacts ==
    /\ NoCluster \in Cluster
    /\ NoCluster.hits = <<>> /\ NoCluster.pixelIterators = <<>>
    /\ Range(NoCluster.hits) = {}
<1>1. <<>> \in Seq(Hits) /\ <<>> \in Seq(Ids) /\ Range(<<>>) = {}
  BY DEF Range
<1>2. NoCluster.hits = <<>> /\ NoCluster.pixelIterators = <<>>
  BY DEF NoCluster
<1>3. NoCluster \in Cluster
  BY <1>1 DEF NoCluster, Cluster
<1> QED BY <1>1, <1>2, <1>3

\* add_new_hit, whatever clusters and nodes are by then.
LEMMA Added ==
    ASSUME PixelInv, pc = "process", NEW big \in Ids,
           NEW known \in [Ids -> Cluster], NEW pointing \in [Ids -> 0..MaxHits],
           AddNewHit(big, known, pointing),
           known[big] = NoCluster \/ Sound(known[big]),
           Range(known[big].hits) = UNION {HitsOf(c) : c \in Taken}
    PROVE  /\ pc' = "read" /\ processed' = processed + 1 /\ read' = read \cup {hit}
           /\ UNCHANGED <<hit, output>>
           /\ nodes' = [nodes EXCEPT ![Linearize(hit)] = <<hit.id>> \o @]
           /\ clusters' \in [Ids -> Cluster]
           /\ Sound(clusters'[big])
           /\ Range(clusters'[big].hits) = (UNION {HitsOf(c) : c \in Taken}) \cup {hit}
           /\ clusters'[big].last = hit.toa
           /\ clusters'[big].first = IF known[big].hits = <<>> THEN hit.toa ELSE known[big].first
           /\ \A c \in Ids : c # big => clusters'[c] = known[c]
           /\ owner' \in [Ids -> 0..MaxHits]
           /\ owner'[hit.id] = big
           /\ \A n \in Ids : n # hit.id => owner'[n] = pointing[n]
<1>1. hit \in Hits /\ hit.id = processed + 1 /\ processed \in Nat /\ Kinds /\ Past /\ Consistent
  BY Sizes DEF PixelInv, Kinds
<1>2. hit.id \in Ids
  BY <1>1, HitType
<1>3. PICK cl \in Cluster : cl = known[big]
  OBVIOUS
<1>4. \A g \in Range(cl.hits) : g.id # hit.id /\ g.toa <= hit.toa
  <2> SUFFICES ASSUME NEW g \in Range(cl.hits) PROVE g.id # hit.id /\ g.toa <= hit.toa
    OBVIOUS
  <2>1. PICK c \in Taken : g \in HitsOf(c)
    BY <1>3
  <2>2. c \in Open
    BY DEF Taken
  <2>3. g.id \in Ids /\ g.id <= processed /\ g.toa <= hit.toa
    BY <1>1, <2>1, <2>2, OpenFacts
  <2>4. g.id \in Nat
    BY <2>3 DEF Ids
  <2> QED BY <1>1, <2>3, <2>4
<1>5. \/ cl.hits = <<>> /\ cl.pixelIterators = <<>>
      \/ Parallel(cl) /\ Spans(cl)
  BY <1>3, NoClusterFacts DEF Sound
<1> DEFINE e == Extend(cl, hit)
<1>6. /\ Sound(e) /\ Range(e.hits) = Range(cl.hits) \cup {hit}
      /\ e.last = hit.toa
      /\ e.first = IF cl.hits = <<>> THEN hit.toa ELSE cl.first
  BY <1>1, <1>4, <1>5, ExtendSound
<1> HIDE DEF e
<1>7. /\ clusters' = [known EXCEPT ![big] = e]
      /\ owner' = [pointing EXCEPT ![hit.id] = big]
  BY <1>3 DEF AddNewHit, e
<1>8. /\ clusters' \in [Ids -> Cluster] /\ clusters'[big] = e
      /\ \A c \in Ids : c # big => clusters'[c] = known[c]
  BY <1>6, <1>7 DEF Sound
<1>9. big \in 0..MaxHits
  BY Sizes DEF Ids
<1>10. /\ owner' \in [Ids -> 0..MaxHits] /\ owner'[hit.id] = big
       /\ \A n \in Ids : n # hit.id => owner'[n] = pointing[n]
  BY <1>2, <1>7, <1>9
<1>11. /\ pc' = "read" /\ processed' = processed + 1 /\ read' = read \cup {hit}
       /\ UNCHANGED <<hit, output>>
       /\ nodes' = [nodes EXCEPT ![Linearize(hit)] = <<hit.id>> \o @]
  BY DEF AddNewHit
<1>12. Range(e.hits) = (UNION {HitsOf(c) : c \in Taken}) \cup {hit}
  <2>1. Range(cl.hits) = UNION {HitsOf(c) : c \in Taken}
    BY <1>3, Zenon
  <2> QED BY <1>6, <2>1, Zenon
<1>13. e.first = IF known[big].hits = <<>> THEN hit.toa ELSE known[big].first
  BY <1>3, <1>6
<1> QED BY <1>6, <1>8, <1>10, <1>11, <1>12, <1>13

\* A hit of an open cluster is not the new one.
LEMMA OldHit ==
    ASSUME PixelInv, pc = "process", NEW c \in Open, NEW h \in HitsOf(c)
    PROVE  h.id \in Ids /\ h.id # hit.id /\ owner[h.id] = c /\ c \in Ids /\ c # hit.id
<1>1. h.id \in Ids /\ h.id <= processed /\ c \in 1..processed /\ c \in Ids
  BY OpenFacts DEF PixelInv
<1>2. hit.id = processed + 1 /\ processed \in Nat
  BY Sizes DEF PixelInv, Kinds
<1>3. h.id \in Nat
  BY <1>1 DEF Ids
<1> QED BY <1>1, <1>2, <1>3 DEF PixelInv, MatrixHolds

LEMMA OpenAbsorbs ==
    ASSUME PixelInv, OpenCluster
    PROVE  \E big \in Ids : Absorbs(big)
<1>1. /\ pc = "process" /\ Neighboring(hit) = <<>>
      /\ unfinished' = <<hit.id>> \o unfinished
      /\ AddNewHit(hit.id, clusters, owner)
  BY DEF OpenCluster
<1>2. /\ hit \in Hits /\ hit.id = processed + 1 /\ processed \in Nat
      /\ Kinds /\ Past /\ Consistent /\ ListHolds
  BY <1>1, Sizes DEF PixelInv, Kinds
<1>3. hit.id \in Ids
  BY <1>2, HitType
<1>4. Taken = {}
  <2>1. Range(<<>>) = {}
    BY DEF Range
  <2> QED BY <1>1, <1>2, <2>1, SearchFacts DEF Taken
<1>5. hit.id \notin Open
  <2>1. \A c \in Open : c \in 1..processed
    BY <1>2, OpenFacts
  <2> QED BY <1>2, <2>1
<1>6. /\ unfinished \in Seq(Ids) /\ clusters \in [Ids -> Cluster] /\ owner \in [Ids -> 0..MaxHits]
      /\ IsInjective(unfinished)
  BY <1>2 DEF Kinds, ListHolds
<1>7. clusters[hit.id] = NoCluster /\ Range(clusters[hit.id].hits) = UNION {HitsOf(c) : c \in Taken}
  <2>1. clusters[hit.id] = NoCluster
    BY <1>2, <1>3, <1>5 DEF Consistent
  <2> QED BY <1>4, <2>1, NoClusterFacts
<1>8. /\ pc' = "read" /\ processed' = processed + 1 /\ read' = read \cup {hit}
      /\ UNCHANGED <<hit, output>>
      /\ nodes' = [nodes EXCEPT ![Linearize(hit)] = <<hit.id>> \o @]
      /\ clusters' \in [Ids -> Cluster]
      /\ Sound(clusters'[hit.id])
      /\ Range(clusters'[hit.id].hits) = (UNION {HitsOf(c) : c \in Taken}) \cup {hit}
      /\ clusters'[hit.id].last = hit.toa
      /\ clusters'[hit.id].first = IF clusters[hit.id].hits = <<>> THEN hit.toa ELSE clusters[hit.id].first
      /\ \A c \in Ids : c # hit.id => clusters'[c] = clusters[c]
      /\ owner' \in [Ids -> 0..MaxHits]
      /\ owner'[hit.id] = hit.id
      /\ \A n \in Ids : n # hit.id => owner'[n] = owner[n]
  BY <1>1, <1>3, <1>6, <1>7, Added
<1>9. /\ unfinished' \in Seq(Ids) /\ IsInjective(unfinished')
      /\ Range(unfinished') = Range(unfinished) \cup {hit.id}
  <2>1. PICK s \in Seq(Ids) : s = <<hit.id>> /\ Range(s) = {hit.id} /\ IsInjective(s)
    BY <1>3, OneElement
  <2>2. Range(s) \cap Range(unfinished) = {}
    BY <1>5, <2>1 DEF Open
  <2>3. ASSUME NEW o \in Seq(Ids), IsInjective(o), Range(o) \cap Range(unfinished) = {}
        PROVE  /\ o \o unfinished \in Seq(Ids) /\ IsInjective(o \o unfinished)
               /\ Range(o \o unfinished) = Range(o) \cup Range(unfinished)
    BY <1>6, <2>3, Concatenation, InjectiveConcatenation
  <2>4. /\ s \o unfinished \in Seq(Ids) /\ IsInjective(s \o unfinished)
        /\ Range(s \o unfinished) = Range(s) \cup Range(unfinished)
    BY <2>1, <2>2, <2>3, Zenon
  <2> QED BY <1>1, <2>1, <2>4
<1>10. Open' = (Open \ Taken) \cup {hit.id}
  BY <1>4, <1>9 DEF Open
<1>11. clusters'[hit.id].first = hit.toa
  BY <1>7, <1>8, NoClusterFacts
<1>12. \A c \in Open \ Taken : clusters'[c] = clusters[c]
  <2>1. \A c \in Open : c \in Ids /\ c # hit.id
    BY <1>2, <1>5, OpenFacts
  <2> QED BY <1>8, <2>1
<1>13. \A c \in Ids : c \notin Open' => clusters'[c] = NoCluster
  BY <1>2, <1>4, <1>8, <1>10 DEF Consistent
<1>14. \A c \in Open : \A h \in HitsOf(c) : owner'[h.id] = c /\ c \notin Taken
  BY <1>1, <1>4, <1>8, OldHit
<1>15. Absorbs(hit.id)
  BY <1>1, <1>4, <1>8, <1>9, <1>10, <1>11, <1>12, <1>13, <1>14 DEF Absorbs
<1> QED BY <1>3, <1>15

LEMMA JoinAbsorbs ==
    ASSUME PixelInv, JoinCluster
    PROVE  \E big \in Ids : Absorbs(big)
<1>1. /\ pc = "process" /\ Len(Neighboring(hit)) = 1
      /\ AddNewHit(Neighboring(hit)[1], clusters, owner) /\ unfinished' = unfinished
  BY DEF JoinCluster
<1>2. /\ hit \in Hits /\ hit.id = processed + 1 /\ processed \in Nat
      /\ Kinds /\ Past /\ Consistent /\ ListHolds
  BY <1>1, Sizes DEF PixelInv, Kinds
<1>3. PICK big : big = Neighboring(hit)[1]
  OBVIOUS
<1>4. Taken = {big} /\ big \in Ids /\ big \in Open
  <2>1. PICK s \in Seq(Ids) : s = Neighboring(hit) /\ Range(s) = Taken
    BY <1>2, SearchFacts DEF Taken
  <2>2. DOMAIN s = 1..1 /\ s[1] = big
    BY <1>1, <1>3, <2>1
  <2>3. Range(s) = {big} /\ big \in Ids
    BY <2>1, <2>2 DEF Range
  <2> QED BY <2>1, <2>3 DEF Taken
<1>5. /\ unfinished \in Seq(Ids) /\ clusters \in [Ids -> Cluster] /\ owner \in [Ids -> 0..MaxHits]
      /\ IsInjective(unfinished)
  BY <1>2 DEF Kinds, ListHolds
<1>6. Sound(clusters[big]) /\ clusters[big].hits # <<>>
      /\ Range(clusters[big].hits) = UNION {HitsOf(c) : c \in Taken}
  BY <1>2, <1>4, OpenFacts DEF HitsOf
<1>7. AddNewHit(big, clusters, owner)
  BY <1>1, <1>3
<1>8. /\ pc' = "read" /\ processed' = processed + 1 /\ read' = read \cup {hit}
      /\ UNCHANGED <<hit, output>>
      /\ nodes' = [nodes EXCEPT ![Linearize(hit)] = <<hit.id>> \o @]
      /\ clusters' \in [Ids -> Cluster]
      /\ Sound(clusters'[big])
      /\ Range(clusters'[big].hits) = (UNION {HitsOf(c) : c \in Taken}) \cup {hit}
      /\ clusters'[big].last = hit.toa
      /\ clusters'[big].first = IF clusters[big].hits = <<>> THEN hit.toa ELSE clusters[big].first
      /\ \A c \in Ids : c # big => clusters'[c] = clusters[c]
      /\ owner' \in [Ids -> 0..MaxHits]
      /\ owner'[hit.id] = big
      /\ \A n \in Ids : n # hit.id => owner'[n] = owner[n]
  <2>1. pc = "process" /\ (clusters[big] = NoCluster \/ Sound(clusters[big]))
    BY <1>1, <1>6
  <2>2. big \in Ids /\ Range(clusters[big].hits) = UNION {HitsOf(c) : c \in Taken}
    BY <1>4, <1>6
  <2> QED BY <1>5, <1>7, <2>1, <2>2, Added
<1>9. Open' = (Open \ Taken) \cup {big}
  BY <1>1, <1>4 DEF Open
<1>10. \A i, j \in DOMAIN unfinished' : i < j =>
          \E k, l \in DOMAIN unfinished :
             k < l /\ unfinished'[i] = unfinished[k] /\ unfinished'[j] = unfinished[l]
  BY <1>1
<1>11. \A c \in Open \ Taken : clusters'[c] = clusters[c]
  <2>1. \A c \in Open : c \in Ids
    BY <1>2, OpenFacts
  <2> QED BY <1>4, <1>8, <2>1
<1>12. \A c \in Ids : c \notin Open' => clusters'[c] = NoCluster
  BY <1>2, <1>4, <1>8, <1>9 DEF Consistent
<1>13. \A c \in Open : \A h \in HitsOf(c) : owner'[h.id] = IF c \in Taken THEN big ELSE c
  BY <1>1, <1>4, <1>8, OldHit
<1>14. Taken # {} /\ big \in Taken
  BY <1>4
<1>15. unfinished' \in Seq(Ids) /\ IsInjective(unfinished')
  BY <1>1, <1>5
<1>16. Absorbs(big)
  BY <1>6, <1>8, <1>9, <1>10, <1>11, <1>12, <1>13, <1>14, <1>15 DEF Absorbs
<1> QED BY <1>4, <1>16

LEMMA MergeAbsorbs ==
    ASSUME PixelInv, MergeClusters
    PROVE  \E big \in Ids : Absorbs(big)
<1>1. PICK found : found = Neighboring(hit)
  OBVIOUS
<1>2. PICK big : big = Biggest(found)
  OBVIOUS
<1> DEFINE others == Range(found) \ {big}
           redirected == UNION {Range(clusters[c].pixelIterators) : c \in others}
           known == MergedClusters(big, found, others)
           pointing == [n \in Ids |-> IF n \in redirected THEN big ELSE owner[n]]
<1>3. /\ pc = "process" /\ Len(found) > 1
      /\ unfinished' = Without(unfinished, others)
      /\ AddNewHit(big, known, pointing)
  BY <1>1, <1>2 DEF MergeClusters
<1>4. /\ hit \in Hits /\ hit.id = processed + 1 /\ processed \in Nat
      /\ Kinds /\ Past /\ Consistent /\ ListHolds /\ IdsApart
  BY <1>3, Sizes DEF PixelInv, Kinds
<1>5. found \in Seq(Ids) /\ IsInjective(found) /\ Range(found) = Taken /\ found # <<>>
  BY <1>1, <1>3, <1>4, SearchFacts DEF Taken
<1>6. /\ unfinished \in Seq(Ids) /\ clusters \in [Ids -> Cluster] /\ owner \in [Ids -> 0..MaxHits]
      /\ IsInjective(unfinished)
  BY <1>4 DEF Kinds, ListHolds
<1>7. Taken \subseteq Open /\ big \in Taken /\ \A c \in Taken : clusters[big].first <= clusters[c].first
  BY <1>2, <1>5, <1>6, BiggestFound DEF Taken
<1>8. \A c \in Open : c \in Ids /\ Sound(clusters[c])
  BY <1>4, OpenFacts
<1>9. big \in Ids /\ others = Taken \ {big} /\ others \subseteq Open
  BY <1>5, <1>7, <1>8
<1> DEFINE m == Merged(big, found)
<1>10. Sound(m) /\ Range(m.hits) = UNION {HitsOf(c) : c \in Taken} /\ m.first = clusters[big].first
  BY <1>4, <1>5, <1>6, <1>7, <1>8, MergedSound
<1> HIDE DEF m
<1>11. m.hits # <<>>
  <2>1. PICK h : h \in HitsOf(big)
    BY <1>4, <1>7, OpenFacts
  <2>2. h \in Range(m.hits)
    BY <1>7, <1>10, <2>1
  <2> QED BY <2>2 DEF Range
<1>12. /\ known \in [Ids -> Cluster] /\ known[big] = m
       /\ \A c \in Ids \ Taken : known[c] = clusters[c]
       /\ \A c \in others : known[c] = NoCluster
  <2>1. known = [c \in Ids |-> IF c = big THEN m ELSE IF c \in others THEN NoCluster ELSE clusters[c]]
    BY DEF MergedClusters, m
  <2> HIDE DEF known
  <2> QED BY <1>6, <1>7, <1>8, <1>9, <1>10, <2>1, NoClusterFacts DEF Sound
<1>13. pointing \in [Ids -> 0..MaxHits] /\ \A n \in Ids : pointing[n] = IF n \in redirected THEN big ELSE owner[n]
  <2>1. big \in 0..MaxHits
    BY <1>9, Sizes DEF Ids
  <2> HIDE DEF redirected
  <2> QED BY <1>6, <2>1
<1> HIDE DEF known, pointing
<1>14. /\ pc' = "read" /\ processed' = processed + 1 /\ read' = read \cup {hit}
       /\ UNCHANGED <<hit, output>>
       /\ nodes' = [nodes EXCEPT ![Linearize(hit)] = <<hit.id>> \o @]
       /\ clusters' \in [Ids -> Cluster]
       /\ Sound(clusters'[big])
       /\ Range(clusters'[big].hits) = (UNION {HitsOf(c) : c \in Taken}) \cup {hit}
       /\ clusters'[big].last = hit.toa
       /\ clusters'[big].first = IF known[big].hits = <<>> THEN hit.toa ELSE known[big].first
       /\ \A c \in Ids : c # big => clusters'[c] = known[c]
       /\ owner' \in [Ids -> 0..MaxHits]
       /\ owner'[hit.id] = big
       /\ \A n \in Ids : n # hit.id => owner'[n] = pointing[n]
  BY <1>3, <1>9, <1>10, <1>12, <1>13, Added
<1>15. /\ unfinished' \in Seq(Ids) /\ IsInjective(unfinished')
       /\ Range(unfinished') = Range(unfinished) \ others
       /\ \A i, j \in DOMAIN unfinished' : i < j =>
             \E k, l \in DOMAIN unfinished :
                k < l /\ unfinished'[i] = unfinished[k] /\ unfinished'[j] = unfinished[l]
  <2> HIDE DEF others
  <2> QED BY <1>3, <1>6, WithoutFacts
<1>16. Open' = (Open \ Taken) \cup {big}
  BY <1>7, <1>9, <1>15 DEF Open
<1>17. \A c \in Open \ Taken : clusters'[c] = clusters[c]
  BY <1>7, <1>8, <1>12, <1>14
<1>18. \A c \in Ids : c \notin Open' => clusters'[c] = NoCluster
  <2> SUFFICES ASSUME NEW c \in Ids, c \notin Open' PROVE clusters'[c] = NoCluster
    OBVIOUS
  <2>1. c # big /\ clusters'[c] = known[c] /\ (c \notin Open \/ c \in others)
    BY <1>9, <1>14, <1>16
  <2>2. CASE c \in others
    BY <1>12, <2>1, <2>2
  <2>3. CASE c \notin Open
    BY <1>4, <1>7, <1>12, <2>1, <2>3 DEF Consistent
  <2> QED BY <2>1, <2>2, <2>3
<1>19. ASSUME NEW c \in Open, NEW h \in HitsOf(c)
       PROVE  owner'[h.id] = IF c \in Taken THEN big ELSE c
  <2>1. h.id \in Ids /\ h.id # hit.id /\ owner[h.id] = c
    BY <1>3, OldHit
  <2>2. owner'[h.id] = IF h.id \in redirected THEN big ELSE c
    BY <1>13, <1>14, <2>1
  <2>3. \A d \in Open : Range(clusters[d].pixelIterators) = IdsOf(HitsOf(d))
    BY <1>8, IteratorsOf DEF Sound, HitsOf
  <2>4. CASE c \in others
    <3>1. h.id \in IdsOf(HitsOf(c))
      BY DEF IdsOf
    <3>2. h.id \in redirected
      BY <2>3, <2>4, <3>1
    <3> QED BY <1>9, <2>2, <2>4, <3>2
  <2>5. CASE c \notin others
    <3>1. h.id \notin redirected
      <4> SUFFICES ASSUME NEW d \in others, h.id \in Range(clusters[d].pixelIterators) PROVE FALSE
        OBVIOUS
      <4>1. PICK g \in HitsOf(d) : g.id = h.id
        BY <1>9, <2>3 DEF IdsOf
      <4>2. d = c
        BY <1>4, <1>9, <4>1 DEF IdsApart
      <4> QED BY <2>5, <4>2
    <3>2. owner'[h.id] = c
      BY <2>2, <3>1
    <3>3. c \in Taken => c = big
      BY <1>9, <2>5
    <3> QED BY <3>2, <3>3
  <2> QED BY <2>4, <2>5
<1>20. Taken # {} /\ big \in Taken
  BY <1>7
<1>21. clusters'[big].first = clusters[big].first
  BY <1>10, <1>11, <1>12, <1>14
<1> HIDE DEF others, redirected
<1>22. Absorbs(big)
  BY <1>14, <1>15, <1>16, <1>17, <1>18, <1>19, <1>20, <1>21 DEF Absorbs
<1> QED BY <1>9, <1>22

\* Where the hits are afterwards.
LEMMA Origins ==
    ASSUME PixelInv, pc = "process", NEW big \in Ids, Absorbs(big)
    PROVE  /\ big \in Open' /\ big \notin Open \ Taken
           /\ \A c \in Open \ Taken : c \in Open' /\ c # big /\ clusters'[c] = clusters[c]
           /\ \A c \in Open' : c = big \/ (c \in Open \ Taken /\ clusters'[c] = clusters[c])
           /\ \A c \in Open' : \A h \in Range(clusters'[c].hits) :
                 \/ h = hit /\ c = big
                 \/ \E d \in Open : h \in HitsOf(d) /\ c = IF d \in Taken THEN big ELSE d
           /\ \A d \in Open : \A h \in HitsOf(d) :
                 h \in Range(clusters'[IF d \in Taken THEN big ELSE d].hits)
           /\ hit \in Range(clusters'[big].hits)
           /\ \A c \in Open' : c \in Ids /\ Sound(clusters'[c])
           /\ \A c \in Open' : c \in Open => clusters'[c].first = clusters[c].first
<1>0. Kinds /\ Past /\ Consistent
  BY DEF PixelInv
<1>1. /\ Open' = (Open \ Taken) \cup {big} /\ Taken \subseteq Open
      /\ Range(clusters'[big].hits) = (UNION {HitsOf(c) : c \in Taken}) \cup {hit}
      /\ \A c \in Open \ Taken : clusters'[c] = clusters[c]
      /\ IF Taken = {} THEN big = hit.id ELSE big \in Taken
      /\ Sound(clusters'[big])
  BY DEF Absorbs, Taken
<1>2. \A c \in Open : c \in Ids /\ Sound(clusters[c]) /\ c # hit.id
  <2>1. \A c \in Open : HitsOf(c) # {}
    BY <1>0, OpenFacts
  <2> QED BY <1>0, <2>1, OpenFacts, OldHit
<1>3. big \notin Open \ Taken
  BY <1>1, <1>2
<1>4. \A d \in Open : HitsOf(d) = Range(clusters[d].hits)
  BY DEF HitsOf
<1>5. ASSUME NEW c \in Open', NEW h \in Range(clusters'[c].hits)
      PROVE  \/ h = hit /\ c = big
             \/ \E d \in Open : h \in HitsOf(d) /\ c = IF d \in Taken THEN big ELSE d
  <2>1. CASE c = big
    <3>1. h = hit \/ \E d \in Taken : h \in HitsOf(d)
      BY <1>1, <1>5, <2>1
    <3> QED BY <1>1, <2>1, <3>1
  <2>2. CASE c # big
    <3>1. c \in Open \ Taken /\ clusters'[c] = clusters[c]
      BY <1>1, <2>2
    <3>2. h \in HitsOf(c)
      BY <1>4, <1>5, <3>1
    <3> QED BY <3>1, <3>2
  <2> QED BY <2>1, <2>2
<1>6. ASSUME NEW d \in Open, NEW h \in HitsOf(d)
      PROVE  h \in Range(clusters'[IF d \in Taken THEN big ELSE d].hits)
  <2>1. CASE d \in Taken
    <3>1. h \in Range(clusters'[big].hits)
      BY <1>1, <2>1
    <3> QED BY <2>1, <3>1
  <2>2. CASE d \notin Taken
    <3>1. clusters'[d] = clusters[d]
      BY <1>1, <2>2
    <3> QED BY <1>4, <2>2, <3>1
  <2> QED BY <2>1, <2>2
<1>7. \A c \in Open' : c \in Ids /\ Sound(clusters'[c])
  BY <1>1, <1>2
<1>8. \A c \in Open' : c \in Open => clusters'[c].first = clusters[c].first
  <2> SUFFICES ASSUME NEW c \in Open', c \in Open PROVE clusters'[c].first = clusters[c].first
    OBVIOUS
  <2>1. CASE c = big
    <3>1. Taken # {}
      BY <1>1, <1>2, <2>1
    <3> QED BY <2>1, <3>1 DEF Absorbs
  <2>2. CASE c # big
    BY <1>1, <2>2
  <2> QED BY <2>1, <2>2
<1> QED BY <1>1, <1>3, <1>5, <1>6, <1>7, <1>8

LEMMA AbsorbedKinds ==
    ASSUME PixelInv, pc = "process", NEW big \in Ids, Absorbs(big)
    PROVE  Kinds' /\ Past' /\ Consistent' /\ IdsApart'
<1>0. /\ Kinds /\ Past /\ Consistent /\ IdsApart
      /\ hit \in Hits /\ hit.id = processed + 1 /\ processed \in Nat /\ hit.toa \in Nat
  BY Sizes DEF PixelInv, Kinds
<1>1. /\ big \in Open'
      /\ \A c \in Open' : c = big \/ (c \in Open \ Taken /\ clusters'[c] = clusters[c])
      /\ \A c \in Open' : \A h \in Range(clusters'[c].hits) :
            \/ h = hit /\ c = big
            \/ \E d \in Open : h \in HitsOf(d) /\ c = IF d \in Taken THEN big ELSE d
      /\ \A c \in Open' : c \in Ids /\ Sound(clusters'[c])
  BY Origins
<1>2. /\ pc' = "read" /\ processed' = processed + 1 /\ read' = read \cup {hit}
      /\ hit' = hit /\ output' = output
      /\ nodes' = [nodes EXCEPT ![Linearize(hit)] = <<hit.id>> \o @]
      /\ unfinished' \in Seq(Ids) /\ clusters' \in [Ids -> Cluster]
      /\ owner' \in [Ids -> 0..MaxHits]
      /\ \A c \in Ids : c \notin Open' => clusters'[c] = NoCluster
      /\ IF Taken = {} THEN big = hit.id ELSE big \in Taken
  BY DEF Absorbs
<1>3. Kinds'
  <2>1. processed' \in 0..MaxHits
    <3>1. processed + 1 \in Ids
      BY <1>0, HitType
    <3> QED BY <1>2, <3>1, Sizes DEF Ids
  <2>2. nodes' \in [TileIds -> Seq(Ids)]
    <3>1. \A s \in Seq(Ids) : <<hit.id>> \o s \in Seq(Ids)
      BY <1>0, HitType
    <3>2. nodes \in [TileIds -> Seq(Ids)]
      BY <1>0 DEF Kinds
    <3> QED BY <1>2, <3>1, <3>2
  <2>3. read' \subseteq Hits /\ output' \in Seq(Seq(Hits)) /\ hit'.id \in 0..MaxHits /\ hit'.toa \in Nat
    BY <1>0, <1>2 DEF Kinds
  <2> QED BY <1>2, <2>1, <2>2, <2>3 DEF Kinds
<1>4. Past'
  <2>1. \A h \in read' : h.id <= processed' /\ h.toa <= hit'.toa
    <3>1. \A h \in read : h.id <= processed /\ h.toa <= hit.toa /\ h.id \in Nat
      BY <1>0, HitType DEF Past, Kinds
    <3> QED BY <1>0, <1>2, <3>1
  <2>2. \A c \in Open' : c <= processed'
    <3>1. \A c \in Open : c \in 1..processed
      BY <1>0, OpenFacts
    <3>2. Taken \subseteq Open
      BY DEF Taken
    <3>3. big <= processed'
      <4>1. big = hit.id \/ big \in Open
        BY <1>2, <3>2
      <4> QED BY <1>0, <1>2, <3>1, <4>1
    <3> QED BY <1>0, <1>1, <1>2, <3>1, <3>3
  <2>3. \A c \in Open' : Range(clusters'[c].hits) \subseteq read'
    <3>1. \A d \in Open : HitsOf(d) \subseteq read
      BY <1>0 DEF Past
    <3> QED BY <1>1, <1>2, <3>1
  <2> QED BY <2>1, <2>2, <2>3 DEF Past, HitsOf
<1>5. Consistent'
  BY <1>1, <1>2 DEF Consistent, Sound
<1>6. IdsApart'
  <2> SUFFICES ASSUME NEW c \in Open', NEW d \in Open', NEW g \in Range(clusters'[c].hits),
                      NEW h \in Range(clusters'[d].hits), g.id = h.id
               PROVE  c = d
    BY DEF IdsApart, HitsOf
  <2>1. \A e \in Open : \A k \in HitsOf(e) : k.id # hit.id
    BY OldHit
  <2>2. CASE g = hit
    BY <1>1, <2>1, <2>2
  <2>3. CASE h = hit
    BY <1>1, <2>1, <2>3
  <2>4. CASE g # hit /\ h # hit
    <3>1. PICK u \in Open : g \in HitsOf(u) /\ c = IF u \in Taken THEN big ELSE u
      BY <1>1, <2>4
    <3>2. PICK v \in Open : h \in HitsOf(v) /\ d = IF v \in Taken THEN big ELSE v
      BY <1>1, <2>4
    <3>3. u = v
      BY <1>0, <3>1, <3>2 DEF IdsApart
    <3> QED BY <3>1, <3>2, <3>3
  <2> QED BY <2>2, <2>3, <2>4
<1> QED BY <1>3, <1>4, <1>5, <1>6

\* What the hit did not join, and touches what it joined, is apart from it in time.
LEMMA AbsorbedTimes ==
    ASSUME PixelInv, pc = "process", NEW big \in Ids, Absorbs(big)
    PROVE  TimesApart'
<1>0. /\ Kinds /\ Past /\ Consistent /\ TimesApart
      /\ hit \in Hits /\ hit.toa \in Nat
  BY DEF PixelInv, Kinds
<1>1. /\ \A c \in Open' : c = big \/ (c \in Open \ Taken /\ clusters'[c] = clusters[c])
      /\ \A c \in Open' : \A h \in Range(clusters'[c].hits) :
            \/ h = hit /\ c = big
            \/ \E d \in Open : h \in HitsOf(d) /\ c = IF d \in Taken THEN big ELSE d
      /\ big \notin Open \ Taken
  BY Origins
<1>2. clusters'[big].last = hit.toa
  BY DEF Absorbs
<1>3. \A d \in Open \ Taken : clusters[d].last \in Nat /\ \A h \in HitsOf(d) : h \in Hits
  BY <1>0, OpenFacts
<1>4. ASSUME NEW g \in Range(clusters'[big].hits), NEW d \in Open \ Taken, NEW h \in HitsOf(d),
             Adjacent(g, h), big \in Open'
      PROVE  MaxDt <= Abs(hit.toa - clusters[d].last)
  <2>1. ~Near(d)
    <3> SUFFICES ASSUME Near(d) PROVE FALSE
      OBVIOUS
    <3>1. ~\E k \in HitsOf(d) : Adjacent(k, hit)
      BY <1>0, JoinsNear DEF Taken
    <3>2. CASE g = hit
      <4>1. Adjacent(h, hit)
        BY <1>0, <1>3, <1>4, <3>2, TileFacts
      <4> QED BY <3>1, <4>1
    <3>3. CASE g # hit
      <4>1. PICK e \in Open : g \in HitsOf(e) /\ big = IF e \in Taken THEN big ELSE e
        BY <1>1, <1>4, <3>3
      <4>2. e \in Taken
        BY <1>1, <4>1
      <4>3. Near(e)
        BY <1>0, <4>1, <4>2, JoinsNear DEF Taken
      <4>4. e = d
        BY <1>0, <1>4, <4>1, <4>3, NearUnique
      <4> QED BY <4>2, <4>4
    <3> QED BY <3>2, <3>3
  <2>2. Abs(hit.toa - clusters[d].last) \in Int /\ MaxDt \in Int
    BY <1>0, <1>3, Sizes DEF Abs
  <2> QED BY <2>1, <2>2 DEF Near
<1> SUFFICES ASSUME NEW c \in Open', NEW d \in Open', c # d,
                    NEW g \in Range(clusters'[c].hits), NEW h \in Range(clusters'[d].hits),
                    Adjacent(g, h)
             PROVE  MaxDt <= Abs(clusters'[c].last - clusters'[d].last)
  BY DEF TimesApart, HitsOf
<1>5. CASE c = big
  <2>1. d \in Open \ Taken /\ clusters'[d] = clusters[d]
    BY <1>1, <1>5
  <2>2. h \in HitsOf(d)
    BY <2>1 DEF HitsOf
  <2> QED BY <1>2, <1>4, <1>5, <2>1, <2>2
<1>6. CASE d = big
  <2>1. c \in Open \ Taken /\ clusters'[c] = clusters[c]
    BY <1>1, <1>6
  <2>2. g \in HitsOf(c) /\ g \in Hits
    BY <1>3, <2>1 DEF HitsOf
  <2>3. h \in Hits
    <3>1. CASE h = hit
      BY <1>0, <3>1
    <3>2. CASE h # hit
      <4>1. PICK e \in Open : h \in HitsOf(e)
        BY <1>1, <3>2
      <4> QED BY <1>0, <4>1, OpenFacts
    <3> QED BY <3>1, <3>2
  <2>4. Adjacent(h, g)
    BY <2>2, <2>3, TileFacts
  <2>5. MaxDt <= Abs(hit.toa - clusters[c].last)
    BY <1>4, <1>6, <2>1, <2>2, <2>4
  <2>6. Abs(hit.toa - clusters[c].last) = Abs(clusters[c].last - hit.toa)
    BY <1>0, <1>3, <2>1 DEF Abs
  <2> QED BY <1>2, <1>6, <2>1, <2>5, <2>6
<1>7. CASE c # big /\ d # big
  <2>1. c \in Open /\ d \in Open /\ clusters'[c] = clusters[c] /\ clusters'[d] = clusters[d]
    BY <1>1, <1>7
  <2>2. g \in HitsOf(c) /\ h \in HitsOf(d)
    BY <2>1 DEF HitsOf
  <2> QED BY <1>0, <2>1, <2>2 DEF TimesApart
<1> QED BY <1>5, <1>6, <1>7

LEMMA AbsorbedMatrix ==
    ASSUME PixelInv, pc = "process", NEW big \in Ids, Absorbs(big)
    PROVE  MatrixHolds'
<1>0. /\ Kinds /\ Past /\ Consistent /\ MatrixHolds
      /\ hit \in Hits /\ hit.id \in Ids
  BY HitType DEF PixelInv, Kinds
<1>1. /\ \A c \in Open' : \A h \in Range(clusters'[c].hits) :
            \/ h = hit /\ c = big
            \/ \E d \in Open : h \in HitsOf(d) /\ c = IF d \in Taken THEN big ELSE d
      /\ \A d \in Open : \A h \in HitsOf(d) :
            h \in Range(clusters'[IF d \in Taken THEN big ELSE d].hits)
      /\ hit \in Range(clusters'[big].hits)
      /\ big \in Open' /\ \A c \in Open \ Taken : c \in Open'
  BY Origins
<1>2. /\ nodes' = [nodes EXCEPT ![Linearize(hit)] = <<hit.id>> \o @]
      /\ owner'[hit.id] = big
      /\ \A c \in Open : \A h \in HitsOf(c) : owner'[h.id] = IF c \in Taken THEN big ELSE c
  BY DEF Absorbs
<1> DEFINE tile == Linearize(hit)
<1>3. tile \in TileIds /\ nodes \in [TileIds -> Seq(Ids)]
  BY <1>0, TileFacts DEF Kinds
<1> HIDE DEF tile
<1>4. \A t \in TileIds : hit.id \notin Range(nodes[t])
  <2> SUFFICES ASSUME NEW t \in TileIds, hit.id \in Range(nodes[t]) PROVE FALSE
    OBVIOUS
  <2>1. PICK c \in Open : \E h \in HitsOf(c) : h.id = hit.id
    BY <1>0 DEF MatrixHolds
  <2> QED BY <2>1, OldHit
<1>5. ASSUME NEW t \in TileIds
      PROVE  /\ Range(nodes'[t]) = Range(nodes[t]) \cup {n \in {hit.id} : t = tile}
             /\ IsInjective(nodes'[t])
  <2>1. nodes[t] \in Seq(Ids) /\ IsInjective(nodes[t])
    BY <1>0, <1>3 DEF MatrixHolds
  <2>2. CASE t = tile
    <3>1. PICK o \in Seq(Ids) : o = <<hit.id>> /\ Range(o) = {hit.id} /\ IsInjective(o)
      BY <1>0, OneElement
    <3>2. nodes'[t] = <<hit.id>> \o nodes[t]
      BY <1>2, <1>3, <2>2 DEF tile
    <3>3. PICK s \in Seq(Ids) : s = nodes[t] /\ IsInjective(s) /\ hit.id \notin Range(s)
      BY <1>4, <2>1
    <3>4. Range(o) \cap Range(s) = {}
      BY <3>1, <3>3
    <3>5. Range(o \o s) = Range(o) \cup Range(s) /\ IsInjective(o \o s)
      <4>1. IsInjective(o) /\ IsInjective(s)
        BY <3>1, <3>3
      <4>2. IsInjective(o \o s)
        BY <3>4, <4>1, InjectiveConcatenation
      <4>3. Range(o \o s) = Range(o) \cup Range(s)
        BY Concatenation
      <4> QED BY <4>2, <4>3
    <3>6. nodes'[t] = o \o s
      BY <3>1, <3>2, <3>3
    <3> QED BY <2>2, <3>1, <3>3, <3>5, <3>6
  <2>3. CASE t # tile
    <3>1. nodes'[t] = nodes[t]
      BY <1>2, <1>3, <2>3 DEF tile
    <3> QED BY <2>1, <2>3, <3>1
  <2> QED BY <2>2, <2>3
<1>6. ASSUME NEW t \in TileIds, NEW n \in Ids
      PROVE  n \in Range(nodes'[t]) <=>
                \E c \in Open' : \E h \in Range(clusters'[c].hits) : h.id = n /\ Linearize(h) = t
  <2>1. ASSUME n \in Range(nodes'[t])
        PROVE  \E c \in Open' : \E h \in Range(clusters'[c].hits) : h.id = n /\ Linearize(h) = t
    <3>1. CASE t = tile /\ n = hit.id
      BY <1>1, <3>1 DEF tile
    <3>2. CASE n \in Range(nodes[t])
      <4>1. PICK d \in Open : \E h \in HitsOf(d) : h.id = n /\ Linearize(h) = t
        BY <1>0, <3>2 DEF MatrixHolds
      <4>2. PICK h \in HitsOf(d) : h.id = n /\ Linearize(h) = t
        BY <4>1
      <4> QED BY <1>1, <4>2
    <3> QED BY <1>5, <2>1, <3>1, <3>2
  <2>2. ASSUME NEW c \in Open', NEW h \in Range(clusters'[c].hits), h.id = n, Linearize(h) = t
        PROVE  n \in Range(nodes'[t])
    <3>1. CASE h = hit
      BY <1>5, <2>2, <3>1 DEF tile
    <3>2. CASE h # hit
      <4>1. PICK d \in Open : h \in HitsOf(d)
        BY <1>1, <3>2
      <4>2. n \in Range(nodes[t])
        BY <1>0, <2>2, <4>1 DEF MatrixHolds
      <4> QED BY <1>5, <4>2
    <3> QED BY <3>1, <3>2
  <2> QED BY <2>1, <2>2
<1>7. ASSUME NEW c \in Open', NEW h \in Range(clusters'[c].hits) PROVE owner'[h.id] = c
  BY <1>1, <1>2
<1> QED BY <1>5, <1>6, <1>7 DEF MatrixHolds, HitsOf

LEMMA AbsorbedList ==
    ASSUME PixelInv, pc = "process", NEW big \in Ids, Absorbs(big)
    PROVE  ListHolds' /\ WrittenHolds'
<1>0. /\ Kinds /\ Past /\ Consistent /\ ListHolds /\ WrittenHolds /\ hit.toa \in Nat
      /\ unfinished \in Seq(Ids)
  BY DEF PixelInv, Kinds
<1>1. \A c \in Open' : c \in Open => clusters'[c].first = clusters[c].first
  BY Origins
<1>2. /\ unfinished' \in Seq(Ids) /\ IsInjective(unfinished')
      /\ Taken = {} => unfinished' = <<hit.id>> \o unfinished /\ big = hit.id
      /\ Taken # {} =>
            \A i, j \in DOMAIN unfinished' : i < j =>
               \E k, l \in DOMAIN unfinished :
                  k < l /\ unfinished'[i] = unfinished[k] /\ unfinished'[j] = unfinished[l]
      /\ Open' = (Open \ Taken) \cup {big}
      /\ clusters'[big].first = IF Taken = {} THEN hit.toa ELSE clusters[big].first
      /\ pc' = "read" /\ hit' = hit /\ output' = output
      /\ clusters' \in [Ids -> Cluster]
  BY DEF Absorbs
<1>3. \A i \in DOMAIN unfinished : unfinished[i] \in Open
  BY DEF Open, Range
<1>4. \A i \in DOMAIN unfinished' : unfinished'[i] \in Open' /\ unfinished'[i] \in Ids
  BY <1>2 DEF Open, Range
<1>5. OldestLast'
  <2> SUFFICES ASSUME NEW i \in DOMAIN unfinished', NEW j \in DOMAIN unfinished', i <= j
               PROVE  clusters'[unfinished'[j]].first <= clusters'[unfinished'[i]].first
    BY DEF OldestLast
  <2>0. i \in Nat /\ j \in Nat /\ DOMAIN unfinished = 1..Len(unfinished) /\ Len(unfinished) \in Nat
    BY <1>0, <1>2
  <2>1. CASE i = j
    <3>1. clusters'[unfinished'[i]] \in Cluster
      BY <1>2, <1>4
    <3>2. clusters'[unfinished'[i]].first \in Nat
      BY <3>1 DEF Cluster
    <3> QED BY <2>1, <3>2
  <2>2. CASE i < j /\ Taken # {}
    <3>1. PICK k \in DOMAIN unfinished, l \in DOMAIN unfinished :
             k < l /\ unfinished'[i] = unfinished[k] /\ unfinished'[j] = unfinished[l]
      BY <1>2, <2>2
    <3>2. k <= l
      BY <2>0, <3>1
    <3>3. clusters[unfinished[l]].first <= clusters[unfinished[k]].first
      BY <1>0, <3>1, <3>2 DEF ListHolds, OldestLast
    <3>4. /\ clusters'[unfinished'[i]].first = clusters[unfinished[k]].first
          /\ clusters'[unfinished'[j]].first = clusters[unfinished[l]].first
      BY <1>1, <1>3, <1>4, <3>1
    <3> QED BY <3>3, <3>4
  <2>3. CASE i < j /\ Taken = {}
    <3>1. unfinished' = <<hit.id>> \o unfinished
      BY <1>2, <2>3
    <3>2. PICK o \in Seq(Ids) : o = <<hit.id>> /\ Len(o) = 1 /\ o[1] = hit.id
      <4>1. hit.id \in Ids
        BY HitType DEF PixelInv, Kinds
      <4> QED BY <4>1, OneElement
    <3>3. /\ DOMAIN unfinished' = 1..(1 + Len(unfinished))
          /\ unfinished'[1] = hit.id
          /\ \A k \in DOMAIN unfinished : unfinished'[1 + k] = unfinished[k]
      <4>1. unfinished' = o \o unfinished
        BY <3>1, <3>2
      <4>2. /\ DOMAIN (o \o unfinished) = 1..(Len(o) + Len(unfinished))
            /\ \A k \in 1..Len(o) : (o \o unfinished)[k] = o[k]
            /\ \A k \in 1..Len(unfinished) : (o \o unfinished)[Len(o) + k] = unfinished[k]
        BY <1>0, Concatenation
      <4>3. 1 \in 1..1
        OBVIOUS
      <4> QED BY <2>0, <3>2, <4>1, <4>2, <4>3
    <3>4. PICK l \in DOMAIN unfinished : j = 1 + l
      <4>1. j - 1 \in DOMAIN unfinished /\ j = 1 + (j - 1)
        BY <2>0, <2>3, <3>3
      <4> QED BY <4>1
    <3>5. unfinished'[j] = unfinished[l] /\ unfinished[l] \in Open
      BY <1>3, <3>3, <3>4
    <3>6. clusters'[unfinished'[j]].first = clusters[unfinished[l]].first
      BY <1>1, <1>4, <3>5
    <3>7. CASE i = 1
      <4>1. clusters'[unfinished'[i]].first = hit.toa
        BY <1>2, <2>3, <3>3, <3>7
      <4>2. clusters[unfinished[l]].first <= hit.toa
        BY <1>0, <3>5, OpenFacts
      <4> QED BY <3>6, <4>1, <4>2
    <3>8. CASE i # 1
      <4>1. PICK k \in DOMAIN unfinished : i = 1 + k
        <5>1. i - 1 \in DOMAIN unfinished /\ i = 1 + (i - 1)
          BY <2>0, <3>3, <3>8
        <5> QED BY <5>1
      <4>2. unfinished'[i] = unfinished[k] /\ unfinished[k] \in Open /\ k <= l
        <5>1. k \in Nat /\ l \in Nat
          BY <2>0
        <5> QED BY <1>3, <2>3, <3>3, <3>4, <4>1, <5>1
      <4>3. clusters'[unfinished'[i]].first = clusters[unfinished[k]].first
        BY <1>1, <1>4, <4>2
      <4>4. clusters[unfinished[l]].first <= clusters[unfinished[k]].first
        BY <1>0, <4>2 DEF ListHolds, OldestLast
      <4> QED BY <3>6, <4>3, <4>4
    <3> QED BY <3>7, <3>8
  <2> QED BY <2>0, <2>1, <2>2, <2>3
<1>6. WrittenHolds'
  BY <1>0, <1>2 DEF WrittenHolds
<1> QED BY <1>2, <1>5, <1>6 DEF ListHolds

LEMMA AbsorbedInv ==
    ASSUME PixelInv, pc = "process", NEW big \in Ids, Absorbs(big)
    PROVE  PixelInv'
  BY AbsorbedKinds, AbsorbedTimes, AbsorbedMatrix, AbsorbedList DEF PixelInv


-----------------------------------------------------------------------------
(* The oldest cluster is written. *)

Writes(c) ==
    /\ c \in Open /\ \A d \in Open : clusters[c].first <= clusters[d].first
    /\ unfinished' \in Seq(Ids) /\ IsInjective(unfinished') /\ Open' = Open \ {c}
    /\ \A i \in DOMAIN unfinished' : i \in DOMAIN unfinished /\ unfinished'[i] = unfinished[i]
    /\ clusters' = [clusters EXCEPT ![c] = NoCluster]
    /\ output' = Append(output, clusters[c].hits)
    /\ nodes' \in [TileIds -> Seq(Ids)]
    /\ \A t \in TileIds : /\ IsInjective(nodes'[t])
                          /\ Range(nodes'[t]) =
                                Range(nodes[t]) \ {h.id : h \in {g \in HitsOf(c) : Linearize(g) = t}}
    /\ UNCHANGED <<pc, processed, hit, owner, read>>

\* The list without its last element.
LEMMA FrontFacts ==
    ASSUME NEW S, NEW s \in Seq(S), s # <<>>, IsInjective(s)
    PROVE  /\ Len(s) \in DOMAIN s /\ Last(s) = s[Len(s)] /\ Last(s) \in Range(s)
           /\ \A i \in DOMAIN s : i <= Len(s)
           /\ Front(s) \in Seq(S) /\ IsInjective(Front(s))
           /\ Range(Front(s)) = Range(s) \ {Last(s)}
           /\ \A i \in DOMAIN Front(s) : i \in DOMAIN s /\ Front(s)[i] = s[i]
<1> DEFINE n == Len(s)
           f == Front(s)
<1>1. /\ DOMAIN s = 1..n /\ n \in Nat /\ n # 0 /\ Last(s) = s[n]
      /\ f \in Seq(S) /\ DOMAIN f = 1..(n - 1) /\ \A i \in 1..(n - 1) : f[i] = s[i]
  BY DEF Front, Last
<1> HIDE DEF n, f
<1>2. /\ n \in 1..n /\ \A i \in 1..n : i <= n /\ (i \in 1..(n - 1) \/ i = n)
      /\ \A i \in 1..(n - 1) : i \in 1..n /\ i # n
  BY <1>1
<1>3. IsInjective(f)
  BY <1>1, <1>2 DEF IsInjective
<1>4. Range(f) = Range(s) \ {s[n]}
  <2>1. \A i \in 1..(n - 1) : s[i] # s[n]
    BY <1>1, <1>2 DEF IsInjective
  <2>2. Range(f) = {s[i] : i \in 1..(n - 1)}
    BY <1>1 DEF Range
  <2>3. Range(s) = {s[i] : i \in 1..n}
    BY <1>1 DEF Range
  <2> QED BY <1>2, <2>1, <2>2, <2>3
<1>5. s[n] \in Range(s)
  BY <1>1, <1>2 DEF Range
<1> QED BY <1>1, <1>2, <1>3, <1>4, <1>5 DEF n, f

\* write_old_clusters erases, from the list of a tile, the nodes of the hits there.
LEMMA Erased ==
    ASSUME NEW cl \in Cluster, Parallel(cl), NEW t
    PROVE  {cl.pixelIterators[i] : i \in {j \in DOMAIN cl.pixelIterators : Linearize(cl.hits[j]) = t}}
              = {h.id : h \in {g \in Range(cl.hits) : Linearize(g) = t}}
<1>1. DOMAIN cl.pixelIterators = DOMAIN cl.hits
  BY IteratorsOf
<1>2. \A i \in DOMAIN cl.hits : cl.pixelIterators[i] = cl.hits[i].id /\ cl.hits[i] \in Range(cl.hits)
  BY DEF Parallel, Range
<1>3. \A h \in Range(cl.hits) : \E i \in DOMAIN cl.hits : h = cl.hits[i]
  BY DEF Range
<1> DEFINE A == {cl.pixelIterators[i] : i \in {j \in DOMAIN cl.pixelIterators : Linearize(cl.hits[j]) = t}}
           B == {h.id : h \in {g \in Range(cl.hits) : Linearize(g) = t}}
<1>4. ASSUME NEW x \in A PROVE x \in B
  <2>1. PICK i \in DOMAIN cl.hits : x = cl.pixelIterators[i] /\ Linearize(cl.hits[i]) = t
    BY <1>1, <1>4
  <2> QED BY <1>2, <2>1
<1>5. ASSUME NEW x \in B PROVE x \in A
  <2>1. PICK h \in Range(cl.hits) : x = h.id /\ Linearize(h) = t
    BY <1>5
  <2>2. PICK i \in DOMAIN cl.hits : h = cl.hits[i]
    BY <1>3
  <2> QED BY <1>1, <1>2, <2>1, <2>2
<1> HIDE DEF A, B
<1>6. A = B
  BY <1>4, <1>5
<1> QED BY <1>6 DEF A, B

LEMMA OldestWritten ==
    ASSUME PixelInv, unfinished # <<>>, WriteOldest, pc' = pc
    PROVE  Writes(Last(unfinished))
<1>0. /\ Kinds /\ Past /\ Consistent /\ MatrixHolds /\ ListHolds
      /\ unfinished \in Seq(Ids) /\ IsInjective(unfinished)
      /\ nodes \in [TileIds -> Seq(Ids)]
  BY DEF PixelInv, Kinds, ListHolds
<1>1. PICK c : c = Last(unfinished)
  OBVIOUS
<1>2. /\ Len(unfinished) \in DOMAIN unfinished /\ c = unfinished[Len(unfinished)] /\ c \in Open
      /\ \A i \in DOMAIN unfinished : i <= Len(unfinished)
      /\ Front(unfinished) \in Seq(Ids) /\ IsInjective(Front(unfinished))
      /\ Range(Front(unfinished)) = Open \ {c}
      /\ \A i \in DOMAIN Front(unfinished) :
            i \in DOMAIN unfinished /\ Front(unfinished)[i] = unfinished[i]
  BY <1>0, <1>1, FrontFacts DEF Open
<1>3. unfinished' = Front(unfinished)
  BY DEF WriteOldest
<1>4. /\ unfinished' \in Seq(Ids) /\ IsInjective(unfinished') /\ Open' = Open \ {c}
      /\ \A i \in DOMAIN unfinished' : i \in DOMAIN unfinished /\ unfinished'[i] = unfinished[i]
  BY <1>2, <1>3 DEF Open
<1>5. \A d \in Open : clusters[c].first <= clusters[d].first
  <2> SUFFICES ASSUME NEW d \in Open PROVE clusters[c].first <= clusters[d].first
    OBVIOUS
  <2>1. PICK i \in DOMAIN unfinished : d = unfinished[i]
    BY DEF Open, Range
  <2> QED BY <1>0, <1>2, <2>1 DEF ListHolds, OldestLast
<1>6. PICK cl \in Cluster : cl = clusters[c] /\ Parallel(cl)
  BY <1>0, <1>2, OpenFacts DEF Sound
<1> DEFINE gone(t) == {h.id : h \in {g \in HitsOf(c) : Linearize(g) = t}}
<1>7. /\ clusters' = [clusters EXCEPT ![c] = NoCluster]
      /\ output' = Append(output, clusters[c].hits)
      /\ UNCHANGED <<pc, processed, hit, owner, read>>
  BY <1>1 DEF WriteOldest
<1>8. nodes' = [t \in TileIds |-> Without(nodes[t], gone(t))]
  <2>1. \A t : {cl.pixelIterators[i] :
                  i \in {j \in DOMAIN cl.pixelIterators : Linearize(cl.hits[j]) = t}} = gone(t)
    BY <1>6, Erased DEF HitsOf
  <2>2. nodes' = [t \in TileIds |->
                    Without(nodes[t], {cl.pixelIterators[i] :
                       i \in {j \in DOMAIN cl.pixelIterators : Linearize(cl.hits[j]) = t}})]
    <3>1. DOMAIN nodes = TileIds
      BY <1>0
    <3> QED BY <1>1, <1>6, <3>1 DEF WriteOldest
  <2> HIDE DEF gone
  <2> QED BY <2>1, <2>2
<1> HIDE DEF gone
<1>9. ASSUME NEW t \in TileIds
      PROVE  /\ nodes'[t] \in Seq(Ids) /\ IsInjective(nodes'[t])
             /\ Range(nodes'[t]) = Range(nodes[t]) \ gone(t)
  <2>1. nodes[t] \in Seq(Ids) /\ IsInjective(nodes[t])
    BY <1>0 DEF MatrixHolds
  <2>2. nodes'[t] = Without(nodes[t], gone(t))
    BY <1>8
  <2> QED BY <2>1, <2>2, WithoutFacts
<1>10. nodes' \in [TileIds -> Seq(Ids)]
  BY <1>8, <1>9
<1>11. Writes(c)
  BY <1>2, <1>4, <1>5, <1>7, <1>9, <1>10 DEF Writes, gone
<1> QED BY <1>1, <1>11

LEMMA WrittenInv ==
    ASSUME PixelInv, NEW c, Writes(c), pc \in {"write", "flush"},
           pc = "write" => IsOld(hit.toa, c)
    PROVE  PixelInv'
<1>0. /\ Kinds /\ Past /\ Consistent /\ IdsApart /\ TimesApart /\ MatrixHolds /\ ListHolds
      /\ WrittenHolds /\ hit.toa \in Nat /\ clusters \in [Ids -> Cluster]
      /\ output \in Seq(Seq(Hits)) /\ owner \in [Ids -> 0..MaxHits]
  BY DEF PixelInv, Kinds
<1>1. /\ c \in Open /\ unfinished' \in Seq(Ids) /\ IsInjective(unfinished')
      /\ Open' = Open \ {c}
      /\ \A i \in DOMAIN unfinished' : i \in DOMAIN unfinished /\ unfinished'[i] = unfinished[i]
      /\ clusters' = [clusters EXCEPT ![c] = NoCluster]
      /\ output' = Append(output, clusters[c].hits)
      /\ nodes' \in [TileIds -> Seq(Ids)]
      /\ UNCHANGED <<pc, processed, hit, owner, read>>
  BY DEF Writes
<1>2. c \in Ids /\ clusters[c] \in Cluster /\ Sound(clusters[c])
  BY <1>0, <1>1, OpenFacts
<1>3. /\ clusters' \in [Ids -> Cluster] /\ clusters'[c] = NoCluster
      /\ \A d \in Ids : d # c => clusters'[d] = clusters[d]
  BY <1>0, <1>1, <1>2, NoClusterFacts
<1>4. \A d \in Open' : d \in Open /\ d # c /\ clusters'[d] = clusters[d]
  BY <1>0, <1>1, <1>3, OpenFacts
<1>5. clusters[c].hits \in Seq(Hits)
  BY <1>2 DEF Cluster
<1>6. /\ output' \in Seq(Seq(Hits))
      /\ \A i \in DOMAIN output' : output'[i] = clusters[c].hits
                                   \/ (i \in DOMAIN output /\ output'[i] = output[i])
  <2>1. PICK s \in Seq(Hits) : s = clusters[c].hits
    BY <1>5
  <2>2. /\ Append(output, s) \in Seq(Seq(Hits)) /\ Len(output) \in Nat
        /\ DOMAIN output = 1..Len(output) /\ DOMAIN Append(output, s) = 1..(Len(output) + 1)
        /\ Append(output, s)[Len(output) + 1] = s
        /\ \A i \in DOMAIN output : Append(output, s)[i] = output[i]
    BY <1>0, OneAppended
  <2>3. \A i \in 1..(Len(output) + 1) : i \in 1..Len(output) \/ i = Len(output) + 1
    BY <2>2
  <2> QED BY <1>1, <2>1, <2>2, <2>3
<1>7. Kinds'
  BY <1>0, <1>1, <1>3, <1>6 DEF Kinds
<1>8. Past'
  BY <1>0, <1>1, <1>4 DEF Past, HitsOf
<1>9. Consistent'
  <2>1. \A d \in Open' : Parallel(clusters'[d]) /\ Spans(clusters'[d])
    BY <1>0, <1>4 DEF Consistent
  <2>2. \A d \in Ids : d \notin Open' => clusters'[d] = NoCluster
    BY <1>0, <1>1, <1>3 DEF Consistent
  <2> QED BY <2>1, <2>2 DEF Consistent
<1>10. IdsApart'
  BY <1>0, <1>4 DEF IdsApart, HitsOf
<1>11. TimesApart'
  BY <1>0, <1>4 DEF TimesApart, HitsOf
<1>12. MatrixHolds'
  <2>1. ASSUME NEW t \in TileIds, NEW n \in Ids
        PROVE  n \in Range(nodes'[t]) <=>
                  \E d \in Open' : \E h \in Range(clusters'[d].hits) : h.id = n /\ Linearize(h) = t
    <3>1. n \in Range(nodes'[t]) <=>
             n \in Range(nodes[t]) /\ ~\E g \in HitsOf(c) : Linearize(g) = t /\ g.id = n
      BY DEF Writes
    <3>2. n \in Range(nodes[t]) <=> \E d \in Open : \E h \in HitsOf(d) : h.id = n /\ Linearize(h) = t
      BY <1>0 DEF MatrixHolds
    <3>3. ASSUME n \in Range(nodes'[t])
          PROVE  \E d \in Open' : \E h \in Range(clusters'[d].hits) : h.id = n /\ Linearize(h) = t
      <4>1. PICK d \in Open : \E h \in HitsOf(d) : h.id = n /\ Linearize(h) = t
        BY <3>1, <3>2, <3>3
      <4>2. d # c
        BY <3>1, <3>3, <4>1
      <4>3. d \in Open' /\ clusters'[d] = clusters[d]
        BY <1>1, <1>4, <4>2
      <4> QED BY <4>1, <4>3 DEF HitsOf
    <3>4. ASSUME NEW d \in Open', NEW h \in Range(clusters'[d].hits), h.id = n, Linearize(h) = t
          PROVE  n \in Range(nodes'[t])
      <4>1. d \in Open /\ d # c /\ h \in HitsOf(d)
        BY <1>4 DEF HitsOf
      <4>2. n \in Range(nodes[t])
        BY <3>2, <3>4, <4>1
      <4>3. \A g \in HitsOf(c) : g.id # n
        BY <1>0, <1>1, <3>4, <4>1 DEF IdsApart
      <4> QED BY <3>1, <4>2, <4>3
    <3> QED BY <3>3, <3>4
  <2>2. \A d \in Open' : \A h \in Range(clusters'[d].hits) : owner'[h.id] = d
    BY <1>0, <1>1, <1>4 DEF MatrixHolds, HitsOf
  <2>3. \A t \in TileIds : IsInjective(nodes'[t])
    BY DEF Writes
  <2> QED BY <2>1, <2>2, <2>3 DEF MatrixHolds, HitsOf
<1>13. ListHolds'
  <2>1. \A i \in DOMAIN unfinished' : unfinished'[i] \in Open'
    BY DEF Open, Range
  <2>2. \A i, j \in DOMAIN unfinished' :
           i <= j => clusters'[unfinished'[j]].first <= clusters'[unfinished'[i]].first
    BY <1>0, <1>1, <1>4, <2>1 DEF ListHolds, OldestLast
  <2> QED BY <1>1, <2>2 DEF ListHolds, OldestLast
<1>14. WrittenHolds'
  <2>1. \A i \in DOMAIN output' :
           \E g \in Range(output'[i]) : \A h \in Range(output'[i]) : h.toa <= g.toa
    <3>1. \E g \in HitsOf(c) : \A h \in HitsOf(c) : h.toa <= g.toa
      BY <1>2 DEF Sound, Spans, HitsOf
    <3> QED BY <1>0, <1>6, <3>1 DEF WrittenHolds, HitsOf
  <2>2. ASSUME pc' = "write", NEW i \in DOMAIN output', NEW h \in Range(output'[i])
        PROVE  h.toa + ClosingDt < hit'.toa
    <3>1. pc = "write"
      BY <1>1, <2>2
    <3>2. \A g \in HitsOf(c) : g.toa + ClosingDt < hit.toa
      <4> SUFFICES ASSUME NEW g \in HitsOf(c) PROVE g.toa + ClosingDt < hit.toa
        OBVIOUS
      <4>1. clusters[c].last < hit.toa - ClosingDt
        BY <3>1 DEF IsOld
      <4>2. g.toa <= clusters[c].last
        BY <1>2 DEF Sound, Spans, HitsOf
      <4>3. g.toa \in Nat /\ clusters[c].last \in Nat /\ ClosingDt \in Nat
        BY <1>0, <1>1, OpenFacts, Sizes
      <4> QED BY <1>0, <4>1, <4>2, <4>3
    <3>3. CASE output'[i] = clusters[c].hits
      BY <1>1, <2>2, <3>2, <3>3 DEF HitsOf
    <3>4. CASE i \in DOMAIN output /\ output'[i] = output[i]
      BY <1>0, <1>1, <2>2, <3>1, <3>4 DEF WrittenHolds
    <3> QED BY <1>6, <3>3, <3>4
  <2>3. pc' \notin {"read", "process", "closed"}
    BY <1>1
  <2> QED BY <2>1, <2>2, <2>3 DEF WrittenHolds
<1> QED BY <1>7, <1>8, <1>9, <1>10, <1>11, <1>12, <1>13, <1>14 DEF PixelInv

-----------------------------------------------------------------------------
(* The invariant. *)

LEMMA InitInv == Init => PixelInv
<1> SUFFICES ASSUME Init PROVE PixelInv
  OBVIOUS
<1>1. /\ pc = "read" /\ processed = 0 /\ hit = [id |-> 0, x |-> 0, y |-> 0, toa |-> 0]
      /\ unfinished = <<>> /\ clusters = [c \in Ids |-> NoCluster]
      /\ nodes = [t \in TileIds |-> <<>>] /\ owner = [n \in Ids |-> 0]
      /\ output = <<>> /\ read = {}
  BY DEF Init, TileIds
<1>2. /\ Open = {} /\ Range(<<>>) = {} /\ IsInjective(<<>>) /\ DOMAIN <<>> = {}
  BY <1>1 DEF Open, Range, IsInjective
<1>3. Kinds
  <2>1. /\ clusters \in [Ids -> Cluster] /\ owner \in [Ids -> 0..MaxHits]
        /\ nodes \in [TileIds -> Seq(Ids)]
    BY <1>1, NoClusterFacts, Sizes
  <2>2. unfinished \in Seq(Ids) /\ output \in Seq(Seq(Hits)) /\ processed \in 0..MaxHits
    BY <1>1, Sizes
  <2>3. hit.id = 0 /\ hit.toa = 0
    BY <1>1
  <2> QED BY <1>1, <2>1, <2>2, <2>3, Sizes DEF Kinds
<1>4. Past
  BY <1>1, <1>2 DEF Past
<1>5. Consistent
  BY <1>1, <1>2 DEF Consistent
<1>6. IdsApart /\ TimesApart
  BY <1>2 DEF IdsApart, TimesApart
<1>7. MatrixHolds
  BY <1>1, <1>2 DEF MatrixHolds
<1>8. ListHolds
  BY <1>1, <1>2 DEF ListHolds, OldestLast
<1>9. WrittenHolds
  BY <1>1, <1>2 DEF WrittenHolds
<1> QED BY <1>3, <1>4, <1>5, <1>6, <1>7, <1>8, <1>9 DEF PixelInv

\* The steps that leave the clusters alone.
LEMMA KeptInv ==
    ASSUME PixelInv, Kinds', UNCHANGED <<processed, unfinished, clusters, nodes, owner, output, read>>,
           hit.toa <= hit'.toa,
           pc' \in {"read", "write", "process"} => pc \in {"read", "write", "process"},
           pc' = "closed" => unfinished = <<>>
    PROVE  PixelInv'
<1>0. /\ Kinds /\ Past /\ Consistent /\ IdsApart /\ TimesApart /\ MatrixHolds /\ ListHolds
      /\ WrittenHolds
  BY DEF PixelInv
<1>1. Open' = Open /\ \A c : (Range(clusters[c].hits))' = HitsOf(c)
  BY DEF Open, HitsOf
<1>2. hit.toa \in Nat /\ hit'.toa \in Nat /\ ClosingDt \in Nat
  BY <1>0, Sizes DEF Kinds
<1>3. Past'
  <2>1. \A h \in read' : h.id <= processed' /\ h.toa <= hit'.toa
    <3>1. \A h \in read : h.toa \in Nat
      BY <1>0, HitType DEF Kinds
    <3> QED BY <1>0, <1>2, <3>1 DEF Past
  <2>2. \A c \in Open' : c <= processed' /\ Range(clusters'[c].hits) \subseteq read'
    BY <1>0, <1>1 DEF Past, HitsOf
  <2> QED BY <2>1, <2>2 DEF Past, HitsOf
<1>4. Consistent'
  BY <1>0, <1>1 DEF Consistent
<1>5. IdsApart'
  BY <1>0, <1>1 DEF IdsApart, HitsOf
<1>6. TimesApart'
  BY <1>0, <1>1 DEF TimesApart, HitsOf
<1>7. MatrixHolds'
  BY <1>0, <1>1 DEF MatrixHolds, HitsOf
<1>8. ListHolds'
  BY <1>0, <1>1 DEF ListHolds, OldestLast
<1>9. WrittenHolds'
  <2>1. ASSUME pc' \in {"read", "write", "process"},
               NEW i \in DOMAIN output, NEW h \in Range(output[i])
        PROVE  h.toa + ClosingDt < hit'.toa
    <3>1. h.toa + ClosingDt < hit.toa
      BY <1>0, <2>1 DEF WrittenHolds
    <3>2. h.toa \in Nat
      <4>1. output[i] \in Seq(Hits)
        BY <1>0 DEF Kinds
      <4>2. h \in Hits
        BY <4>1 DEF Range
      <4> QED BY <4>2, HitType
    <3> QED BY <1>2, <3>1, <3>2
  <2> QED BY <1>0, <2>1 DEF WrittenHolds
<1> QED BY <1>3, <1>4, <1>5, <1>6, <1>7, <1>8, <1>9 DEF PixelInv

LEMMA StepInv == PixelInv /\ [Next]_vars => PixelInv'
<1> SUFFICES ASSUME PixelInv, [Next]_vars PROVE PixelInv'
  OBVIOUS
<1>0. Kinds /\ hit.toa \in Nat /\ processed \in Nat
  BY Sizes DEF PixelInv, Kinds
<1>1. ASSUME NEW p \in HitPixels, NEW toa \in 0..MaxToa, ReadHit(p, toa) PROVE PixelInv'
  <2>1. /\ pc = "read" /\ processed < MaxHits /\ toa >= hit.toa
        /\ hit' = [id |-> processed + 1, x |-> p[1], y |-> p[2], toa |-> toa]
        /\ pc' \in {"write", "process"}
        /\ UNCHANGED <<processed, unfinished, clusters, nodes, owner, output, read>>
    BY <1>1 DEF ReadHit
  <2>2. processed + 1 \in Ids /\ toa \in Nat
    BY <1>0, <2>1, Sizes DEF Ids
  <2>3. hit' \in Hits
    BY <2>1, <2>2, NewHitType
  <2>4. hit'.id = processed + 1 /\ hit'.toa = toa
    BY <2>1
  <2>5. Kinds'
    <3>1. hit'.id \in 0..MaxHits
      BY <2>2, <2>4, Sizes DEF Ids
    <3> QED BY <1>0, <2>1, <2>2, <2>3, <2>4, <3>1 DEF Kinds
  <2>6. hit.toa <= hit'.toa
    BY <1>0, <2>1, <2>2, <2>4
  <2> QED BY <2>1, <2>5, <2>6, KeptInv
<1>2. CASE WriteOld
  <2>1. pc = "write" /\ unfinished # <<>> /\ WriteOldest /\ pc' = pc
        /\ IsOld(hit.toa, Last(unfinished))
    BY <1>2 DEF WriteOld
  <2>2. Writes(Last(unfinished))
    BY <2>1, OldestWritten
  <2> QED BY <2>1, <2>2, WrittenInv
<1>3. CASE WriteStop
  <2>1. /\ pc = "write" /\ pc' = "process" /\ hit' = hit
        /\ UNCHANGED <<processed, unfinished, clusters, nodes, owner, output, read>>
    BY <1>3 DEF WriteStop
  <2>2. Kinds'
    BY <1>0, <2>1 DEF Kinds
  <2> QED BY <1>0, <2>1, <2>2, KeptInv
<1>4. ASSUME OpenCluster \/ JoinCluster \/ MergeClusters PROVE PixelInv'
  <2>1. pc = "process"
    BY <1>4 DEF OpenCluster, JoinCluster, MergeClusters
  <2>2. PICK big \in Ids : Absorbs(big)
    BY <1>4, OpenAbsorbs, JoinAbsorbs, MergeAbsorbs
  <2> QED BY <2>1, <2>2, AbsorbedInv
<1>5. CASE ReadEnd
  <2>1. /\ pc = "read" /\ pc' = "flush" /\ hit' = hit
        /\ UNCHANGED <<processed, unfinished, clusters, nodes, owner, output, read>>
    BY <1>5 DEF ReadEnd
  <2>2. Kinds'
    BY <1>0, <2>1 DEF Kinds
  <2> QED BY <1>0, <2>1, <2>2, KeptInv
<1>6. CASE FlushCluster
  <2>1. pc = "flush" /\ unfinished # <<>> /\ WriteOldest /\ pc' = pc
    BY <1>6 DEF FlushCluster
  <2>2. Writes(Last(unfinished))
    BY <2>1, OldestWritten
  <2> QED BY <2>1, <2>2, WrittenInv
<1>7. CASE Close
  <2>1. /\ pc = "flush" /\ pc' = "closed" /\ hit' = hit /\ unfinished = <<>>
        /\ UNCHANGED <<processed, unfinished, clusters, nodes, owner, output, read>>
    BY <1>7 DEF Close
  <2>2. Kinds'
    BY <1>0, <2>1 DEF Kinds
  <2> QED BY <1>0, <2>1, <2>2, KeptInv
<1>8. CASE Finished \/ UNCHANGED vars
  <2>1. /\ pc' = pc /\ hit' = hit
        /\ UNCHANGED <<processed, unfinished, clusters, nodes, owner, output, read>>
    BY <1>8 DEF Finished, vars
  <2>2. Kinds'
    BY <1>0, <2>1 DEF Kinds
  <2>3. pc' = "closed" => unfinished = <<>>
    BY <2>1 DEF PixelInv, WrittenHolds
  <2> QED BY <1>0, <2>1, <2>2, <2>3, KeptInv
<1> QED BY <1>1, <1>2, <1>3, <1>4, <1>5, <1>6, <1>7, <1>8 DEF Next

\* The inductive invariant holds in every behaviour: the list, the matrix, the
\* iterators and the clusters agree at every step of pixel_list_clusterer.
THEOREM PixelInvariant == Spec => []PixelInv
<1>1. Init => PixelInv
  BY InitInv
<1>2. PixelInv /\ [Next]_vars => PixelInv'
  BY StepInv
<1> QED BY <1>1, <1>2, PTL DEF Spec

-----------------------------------------------------------------------------
(* What follows from the invariant. *)

\* Type correctness, for any sensor and any number of hits; among it, that no
\* cluster without hits, which the nodes behind take for the end token, is
\* ever written by write_old_clusters or write_remaining_clusters.
THEOREM PixelTypeOK == Spec => []TypeOK
<1>1. ASSUME PixelInv PROVE TypeOK
  <2>1. Kinds /\ WrittenHolds
    BY <1>1 DEF PixelInv
  <2>2. \A c \in Ids : clusters[c].hits \in Seq(Hits) /\ clusters[c].pixelIterators \in Seq(Ids)
    BY <2>1 DEF Kinds, Cluster
  <2>3. \A t \in 0..(Tiles * Tiles - 1) : nodes[t] \in Seq(Ids)
    BY <2>1 DEF Kinds, TileIds
  <2>4. \A i \in DOMAIN output : output[i] \in Seq(Hits) \ {<<>>}
    <3>1. \A i \in DOMAIN output : output[i] \in Seq(Hits)
      BY <2>1 DEF Kinds
    <3>2. \A i \in DOMAIN output : output[i] # <<>>
      BY <2>1 DEF WrittenHolds, Range
    <3> QED BY <3>1, <3>2
  <2> QED BY <2>1, <2>2, <2>3, <2>4 DEF TypeOK, Kinds
<1> QED BY <1>1, PixelInvariant, PTL

\* The i-th iterator of every open cluster is that of its i-th hit, through all
\* merges of merge_clusters, and none is there twice.
THEOREM PixelIteratorsMatchHits == Spec => []IteratorsMatchHits
<1>1. ASSUME PixelInv PROVE IteratorsMatchHits
  BY <1>1 DEF PixelInv, Consistent, Open, Parallel, IteratorsMatchHits
<1> QED BY <1>1, PixelInvariant, PTL

\* The list is ordered by first toa, the oldest cluster last, although merging
\* changes clusters in the middle of it.
THEOREM PixelOldestLast == Spec => []OldestLast
<1>1. PixelInv => OldestLast
  BY DEF PixelInv, ListHolds
<1> QED BY <1>1, PixelInvariant, PTL

\* The matrix holds the hits of the open clusters, each in its tile, once, and
\* pointing to its cluster: no node points to a list element that was erased.
THEOREM PixelMatrixMatchesClusters == Spec => []MatrixMatchesClusters
<1>1. ASSUME PixelInv PROVE MatrixMatchesClusters
  <2> DEFINE entries == {<<t, n, owner[n]>> : t \in DOMAIN nodes, n \in Ids}
             stored == {e \in entries : e[2] \in Range(nodes[e[1]])}
             of(c) == {<<Linearize(h), h.id, c>> : h \in Range(clusters[c].hits)}
             all == UNION {of(c) : c \in Range(unfinished)}
  <2>0. Kinds /\ Past /\ Consistent /\ MatrixHolds
    BY <1>1 DEF PixelInv
  <2>1. DOMAIN nodes = TileIds
    BY <2>0 DEF Kinds
  <2>2. ASSUME NEW e \in stored PROVE e \in all
    <3>1. PICK t \in TileIds, n \in Ids : e = <<t, n, owner[n]>> /\ n \in Range(nodes[t])
      BY <2>1, <2>2
    <3>2. PICK c \in Open : \E h \in HitsOf(c) : h.id = n /\ Linearize(h) = t
      BY <2>0, <3>1 DEF MatrixHolds
    <3>3. PICK h \in HitsOf(c) : h.id = n /\ Linearize(h) = t
      BY <3>2
    <3>4. owner[n] = c
      BY <2>0, <3>3 DEF MatrixHolds
    <3>5. e \in of(c)
      BY <3>1, <3>3, <3>4 DEF HitsOf
    <3> HIDE DEF of
    <3> QED BY <3>2, <3>5 DEF Open
  <2>3. ASSUME NEW e \in all PROVE e \in stored
    <3>1. PICK c \in Open : e \in of(c)
      <4> HIDE DEF of
      <4> QED BY <2>3 DEF Open
    <3>2. PICK h \in HitsOf(c) : e = <<Linearize(h), h.id, c>>
      BY <3>1 DEF HitsOf
    <3>3. h \in Hits /\ h.id \in Ids
      BY <2>0, <3>2, OpenFacts
    <3>4. Linearize(h) \in TileIds
      BY <3>3, TileFacts
    <3>5. owner[h.id] = c /\ h.id \in Range(nodes[Linearize(h)])
      BY <2>0, <3>2, <3>3, <3>4 DEF MatrixHolds
    <3>6. e = <<Linearize(h), h.id, owner[h.id]>> /\ e \in entries
      BY <2>1, <3>2, <3>3, <3>4, <3>5
    <3>7. e[1] = Linearize(h) /\ e[2] = h.id
      BY <3>6
    <3> HIDE DEF entries
    <3> QED BY <3>5, <3>6, <3>7
  <2>4. \A t \in DOMAIN nodes : IsInjective(nodes[t])
    BY <2>0, <2>1 DEF MatrixHolds
  <2>5. stored = all
    <3> HIDE DEF stored, all
    <3> QED BY <2>2, <2>3
  <2> QED BY <2>4, <2>5 DEF MatrixMatchesClusters
<1> QED BY <1>1, PixelInvariant, PTL

\* In the list of a tile, the clusters near to the hit in time are one at most:
\* the search of find_neighboring_clusters may stop at the first match.
THEOREM PixelOneMergeablePerTile == Spec => []OneMergeablePerTile
<1>1. ASSUME PixelInv PROVE OneMergeablePerTile
  <2>0. Kinds /\ Past /\ Consistent /\ TimesApart /\ MatrixHolds
    BY <1>1 DEF PixelInv
  <2> SUFFICES ASSUME NEW t \in DOMAIN nodes
               PROVE  Cardinality({c \in {owner[n] : n \in Range(nodes[t])} :
                                      Abs(hit.toa - clusters[c].last) < MaxDt}) <= 1
    BY DEF OneMergeablePerTile
  <2> DEFINE S == {c \in {owner[n] : n \in Range(nodes[t])} :
                      Abs(hit.toa - clusters[c].last) < MaxDt}
  <2>1. t \in TileIds
    BY <2>0 DEF Kinds
  <2>2. ASSUME NEW c \in S
        PROVE  c \in Open /\ Near(c) /\ \E h \in HitsOf(c) : Linearize(h) = t
    <3>1. PICK n \in Range(nodes[t]) : c = owner[n]
      OBVIOUS
    <3>2. PICK i \in DOMAIN nodes[t] : n = nodes[t][i]
      BY DEF Range
    <3>3. Near(c)
      BY DEF Near
    <3> QED BY <2>0, <2>1, <3>1, <3>2, <3>3, NodeFacts
  <2> HIDE DEF S
  <2>3. ASSUME NEW c \in S, NEW d \in S PROVE c = d
    <3>1. PICK g \in HitsOf(c) : Linearize(g) = t
      BY <2>2
    <3>2. PICK h \in HitsOf(d) : Linearize(h) = t
      BY <2>2
    <3>3. g \in Hits /\ h \in Hits
      BY <2>0, <2>2, OpenFacts
    <3>4. Adjacent(g, h)
      BY <3>1, <3>2, <3>3, TileFacts
    <3> QED BY <2>0, <2>2, <3>4, NearUnique
  <2>4. CASE S = {}
    BY <2>4, FS_EmptySet DEF S
  <2>5. CASE S # {}
    <3>1. PICK c : c \in S
      BY <2>5
    <3>2. S = {c}
      BY <2>3, <3>1
    <3>3. Cardinality(S) = 1
      BY <3>2, FS_Singleton
    <3> QED BY <3>3 DEF S
  <2> QED BY <2>4, <2>5
<1> QED BY <1>1, PixelInvariant, PTL

-----------------------------------------------------------------------------
(* The clustering rule. *)

OpenSets == {HitsOf(c) : c \in Open}
WrittenSets == [i \in DOMAIN output |-> Range(output[i])]

\* The rule's operators are those of Clustering, and its state is the following.
LEMMA RuleFacts ==
    /\ \A h, c : Rule!Joins(h, c) <=> Joins(h, c)
    /\ \A c : Rule!FirstToa(c) = FirstToa(c)
  BY DEF Rule!Joins, Rule!FirstToa, Rule!LastToa, Rule!Abs, Rule!Adjacent,
         Joins, FirstToa, LastToa, Abs, Adjacent

LEMMA AddHitSteps ==
    ASSUME ~(pc = "closed"), NEW h \in Hits, h \notin read,
           \A i \in DOMAIN WrittenSets : ~Joins(h, WrittenSets[i]),
           read' = read \cup {h},
           NEW joined, joined = {c \in OpenSets : Joins(h, c)},
           OpenSets' = (OpenSets \ joined) \cup {(UNION joined) \cup {h}},
           output' = output, ~(pc' = "closed")
    PROVE  Rule!Next
<1>1. Rule!Joined(h) = joined
  BY RuleFacts DEF Rule!Joined, OpenSets, HitsOf, Open
<1>2. \A i \in DOMAIN WrittenSets : ~Rule!Joins(h, WrittenSets[i])
  BY RuleFacts
<1>3. WrittenSets' = WrittenSets
  BY DEF WrittenSets
<1>4. Rule!AddHit(h)
  BY <1>1, <1>2, <1>3 DEF Rule!AddHit, OpenSets, WrittenSets, HitsOf, Open
<1> QED BY <1>4 DEF Rule!Next

\* A hit of a cluster that was written was too long ago to be joined.
LEMMA WrittenNotJoined ==
    ASSUME PixelInv, pc = "process", NEW i \in DOMAIN output
    PROVE  ~Joins(hit, Range(output[i]))
<1>0. Kinds /\ WrittenHolds /\ hit.toa \in Nat /\ MaxDt \in Nat /\ ClosingDt \in Nat /\ MaxDt <= ClosingDt
  BY Sizes DEF PixelInv, Kinds
<1> DEFINE R == Range(output[i])
           T == {h.toa : h \in R}
<1>1. \A h \in R : h.toa \in Nat
  <2>1. output[i] \in Seq(Hits)
    BY <1>0 DEF Kinds
  <2>2. \A h \in R : h \in Hits
    BY <2>1 DEF Range
  <2> QED BY <2>2, HitType
<1>2. PICK g \in R : \A h \in R : h.toa <= g.toa
  BY <1>0 DEF WrittenHolds
<1>3. \A h \in R : h.toa + ClosingDt < hit.toa
  BY <1>0 DEF WrittenHolds
<1> HIDE DEF R
<1>4. g.toa \in T /\ \A h \in R : h.toa <= g.toa
  BY <1>2
<1>5. \A t \in T : \E h \in R : h.toa = t
  OBVIOUS
<1>6. LastToa(R) = CHOOSE t \in T : \A h \in R : h.toa <= t
  BY DEF LastToa
<1> HIDE DEF T
<1>7. LastToa(R) \in T
  BY <1>4, <1>6
<1>8. PICK h \in R : h.toa = LastToa(R)
  BY <1>5, <1>7
<1>9. h.toa \in Nat /\ h.toa + ClosingDt < hit.toa
  BY <1>1, <1>3
<1>10. ~(Abs(hit.toa - LastToa(R)) < MaxDt)
  BY <1>0, <1>8, <1>9 DEF Abs
<1> QED BY <1>10 DEF Joins, R

LEMMA AbsorbedRule ==
    ASSUME PixelInv, pc = "process", NEW big \in Ids, Absorbs(big)
    PROVE  Rule!Next
<1>0. /\ Kinds /\ Past /\ hit \in Hits /\ hit.id = processed + 1 /\ processed \in Nat
  BY Sizes DEF PixelInv, Kinds
<1>1. /\ pc' = "read" /\ read' = read \cup {hit} /\ output' = output
      /\ Open' = (Open \ Taken) \cup {big}
      /\ Range(clusters'[big].hits) = (UNION {HitsOf(c) : c \in Taken}) \cup {hit}
      /\ \A c \in Open \ Taken : clusters'[c] = clusters[c]
  BY DEF Absorbs
<1>2. /\ big \in Open' /\ big \notin Open \ Taken
  BY Origins
<1>3. hit \notin read
  <2>1. \A h \in read : h.id <= processed
    BY <1>0 DEF Past
  <2> QED BY <1>0, <2>1
<1>4. \A i \in DOMAIN WrittenSets : ~Joins(hit, WrittenSets[i])
  BY WrittenNotJoined DEF WrittenSets
<1> DEFINE joined == {c \in OpenSets : Joins(hit, c)}
           after == {Range(clusters'[c].hits) : c \in Open'}
<1>5. joined = {HitsOf(c) : c \in Taken}
  BY DEF OpenSets, Taken
<1>6. OpenSets \ joined = {HitsOf(c) : c \in Open \ Taken}
  BY DEF OpenSets, Taken
<1>7. OpenSets' = after
  BY DEF OpenSets, HitsOf
<1>8. after = {Range(clusters'[c].hits) : c \in Open \ Taken} \cup {Range(clusters'[big].hits)}
  BY <1>1, <1>2
<1>9. {Range(clusters'[c].hits) : c \in Open \ Taken} = {HitsOf(c) : c \in Open \ Taken}
  BY <1>1 DEF HitsOf
<1>10. Range(clusters'[big].hits) = (UNION joined) \cup {hit}
  BY <1>1, <1>5
<1> HIDE DEF joined, after
<1>11. OpenSets' = (OpenSets \ joined) \cup {(UNION joined) \cup {hit}}
  BY <1>6, <1>7, <1>8, <1>9, <1>10
<1>12. joined = {c \in OpenSets : Joins(hit, c)}
  BY DEF joined
<1> QED BY <1>0, <1>1, <1>3, <1>4, <1>11, <1>12, AddHitSteps

\* A sequence mapped element by element, when one more is appended.
LEMMA MappedAppend ==
    ASSUME NEW o \in Seq(Seq(Hits)), NEW s \in Seq(Hits)
    PROVE  [i \in DOMAIN Append(o, s) |-> Range(Append(o, s)[i])]
              = Append([i \in DOMAIN o |-> Range(o[i])], Range(s))
<1> DEFINE n == Len(o)
           a == Append(o, s)
           m == [i \in DOMAIN o |-> Range(o[i])]
           S == SUBSET Hits
<1>1. /\ n \in Nat /\ DOMAIN o = 1..n /\ DOMAIN a = 1..(n + 1)
      /\ a[n + 1] = s /\ \A i \in 1..n : a[i] = o[i]
  BY OneAppended
<1>2. \A r \in Seq(Hits) : Range(r) \in S
  BY DEF Range
<1>3. m \in Seq(S) /\ Len(m) = n /\ \A i \in 1..n : m[i] = Range(o[i])
  <2>1. \A i \in 1..n : Range(o[i]) \in S
    BY <1>1, <1>2
  <2>2. m = [i \in 1..n |-> Range(o[i])]
    BY <1>1
  <2> HIDE DEF S, n, m
  <2>3. m \in [1..n -> S]
    BY <2>1, <2>2
  <2> QED BY <1>1, <2>2, <2>3
<1> HIDE DEF a, m, n, S
<1> DEFINE p == Append(m, Range(s))
           q == [i \in DOMAIN a |-> Range(a[i])]
<1>4. Range(s) \in S
  BY <1>2
<1>5. p \in Seq(S) /\ Len(p) = n + 1 /\ p[n + 1] = Range(s) /\ \A i \in 1..n : p[i] = m[i]
  BY <1>1, <1>3, <1>4
<1>6. p = [i \in 1..(n + 1) |-> p[i]]
  <2> HIDE DEF p
  <2> QED BY <1>1, <1>5
<1> HIDE DEF p
<1>7. \A i \in 1..(n + 1) : i \in 1..n \/ i = n + 1
  BY <1>1
<1>8. \A i \in 1..(n + 1) : Range(a[i]) = p[i]
  BY <1>1, <1>3, <1>5, <1>7
<1>9. q = p
  BY <1>1, <1>6, <1>8
<1> QED BY <1>9 DEF p, q, a, m

LEMMA WriteSteps ==
    ASSUME ~(pc = "closed"), NEW c \in OpenSets,
           \A d \in OpenSets : FirstToa(c) <= FirstToa(d),
           WrittenSets' = Append(WrittenSets, c), OpenSets' = OpenSets \ {c},
           read' = read, pc' = pc
    PROVE  Rule!Next
<1>1. \A d \in OpenSets : Rule!FirstToa(c) <= Rule!FirstToa(d)
  BY RuleFacts
<1>2. Rule!Write(c)
  BY <1>1 DEF Rule!Write, OpenSets, WrittenSets, HitsOf, Open
<1>3. c \in {Range(clusters[d].hits) : d \in Range(unfinished)}
  BY DEF OpenSets, HitsOf, Open
<1> QED BY <1>2, <1>3 DEF Rule!Next

LEMMA WrittenRule ==
    ASSUME PixelInv, NEW c, Writes(c), pc \in {"write", "flush"}
    PROVE  Rule!Next
<1>0. /\ Kinds /\ Past /\ Consistent /\ IdsApart /\ output \in Seq(Seq(Hits))
      /\ clusters \in [Ids -> Cluster]
  BY DEF PixelInv, Kinds
<1>1. /\ c \in Open /\ \A d \in Open : clusters[c].first <= clusters[d].first
      /\ Open' = Open \ {c} /\ clusters' = [clusters EXCEPT ![c] = NoCluster]
      /\ output' = Append(output, clusters[c].hits)
      /\ pc' = pc /\ read' = read
  BY DEF Writes
<1>2. HitsOf(c) \in OpenSets
  BY <1>1 DEF OpenSets
<1>3. \A s \in OpenSets : FirstToa(HitsOf(c)) <= FirstToa(s)
  <2> SUFFICES ASSUME NEW d \in Open PROVE FirstToa(HitsOf(c)) <= FirstToa(HitsOf(d))
    BY DEF OpenSets
  <2> QED BY <1>0, <1>1, OpenFacts
<1>4. clusters[c].hits \in Seq(Hits)
  <2>1. clusters[c] \in Cluster
    BY <1>0, <1>1, OpenFacts
  <2> QED BY <2>1 DEF Cluster
<1>5. WrittenSets' = Append(WrittenSets, HitsOf(c))
  <2>1. PICK s \in Seq(Hits) : s = clusters[c].hits
    BY <1>4
  <2>2. [i \in DOMAIN Append(output, s) |-> Range(Append(output, s)[i])]
           = Append([i \in DOMAIN output |-> Range(output[i])], Range(s))
    BY <1>0, MappedAppend
  <2>3. WrittenSets' = [i \in DOMAIN output' |-> Range(output'[i])]
    BY DEF WrittenSets
  <2> QED BY <1>1, <2>1, <2>2, <2>3 DEF WrittenSets, HitsOf
<1>6. OpenSets' = OpenSets \ {HitsOf(c)}
  <2>1. \A d \in Open : d # c => HitsOf(d) # HitsOf(c)
    <3> SUFFICES ASSUME NEW d \in Open, HitsOf(d) = HitsOf(c) PROVE d = c
      OBVIOUS
    <3>1. PICK h : h \in HitsOf(d)
      BY <1>0, OpenFacts
    <3> QED BY <1>0, <1>1, <3>1 DEF IdsApart
  <2>2. OpenSets' = {Range(clusters'[d].hits) : d \in Open'}
    BY DEF OpenSets, HitsOf
  <2>3. \A d \in Open' : d \in Open /\ d # c /\ clusters'[d] = clusters[d]
    <3>1. \A d \in Open : d \in Ids
      BY <1>0, OpenFacts
    <3> QED BY <1>0, <1>1, <3>1
  <2>4. OpenSets' = {HitsOf(d) : d \in Open \ {c}}
    BY <1>1, <2>2, <2>3 DEF HitsOf
  <2> QED BY <2>1, <2>4 DEF OpenSets
<1> QED BY <1>1, <1>2, <1>3, <1>5, <1>6, WriteSteps

LEMMA InitRule == Init => Rule!Init
<1> SUFFICES ASSUME Init PROVE Rule!Init
  OBVIOUS
<1>1. pc = "read" /\ unfinished = <<>> /\ output = <<>> /\ read = {}
  BY DEF Init
<1>2. Range(unfinished) = {} /\ DOMAIN output = {}
  BY <1>1 DEF Range
<1>3. [i \in DOMAIN output |-> Range(output[i])] = <<>>
  BY <1>2
<1> QED BY <1>1, <1>2, <1>3 DEF Rule!Init

LEMMA StepRule == PixelInv /\ [Next]_vars => [Rule!Next]_Rule!vars
<1> SUFFICES ASSUME PixelInv, [Next]_vars PROVE [Rule!Next]_Rule!vars
  OBVIOUS
<1>1. ASSUME UNCHANGED <<unfinished, clusters, output, read>>, (pc' = "closed") <=> (pc = "closed")
      PROVE  UNCHANGED Rule!vars
  BY <1>1 DEF Rule!vars
<1>2. ASSUME NEW p \in HitPixels, NEW toa \in 0..MaxToa, ReadHit(p, toa) PROVE UNCHANGED Rule!vars
  BY <1>1, <1>2 DEF ReadHit
<1>3. CASE WriteOld
  <2>1. pc = "write" /\ unfinished # <<>> /\ WriteOldest /\ pc' = pc
    BY <1>3 DEF WriteOld
  <2> QED BY <2>1, OldestWritten, WrittenRule
<1>4. CASE WriteStop
  BY <1>1, <1>4 DEF WriteStop
<1>5. ASSUME OpenCluster \/ JoinCluster \/ MergeClusters PROVE Rule!Next
  <2>1. pc = "process"
    BY <1>5 DEF OpenCluster, JoinCluster, MergeClusters
  <2>2. PICK big \in Ids : Absorbs(big)
    BY <1>5, OpenAbsorbs, JoinAbsorbs, MergeAbsorbs
  <2> QED BY <2>1, <2>2, AbsorbedRule
<1>6. CASE ReadEnd
  BY <1>1, <1>6 DEF ReadEnd
<1>7. CASE FlushCluster
  <2>1. pc = "flush" /\ unfinished # <<>> /\ WriteOldest /\ pc' = pc
    BY <1>7 DEF FlushCluster
  <2> QED BY <2>1, OldestWritten, WrittenRule
<1>8. CASE Close
  <2>1. /\ pc = "flush" /\ pc' = "closed" /\ unfinished = <<>>
        /\ UNCHANGED <<unfinished, clusters, output, read>>
    BY <1>8 DEF Close
  <2>2. Range(unfinished) = {}
    BY <2>1 DEF Range
  <2>3. Rule!End
    BY <2>1, <2>2 DEF Rule!End
  <2> QED BY <2>3 DEF Rule!Next
<1>9. CASE Finished \/ UNCHANGED vars
  BY <1>1, <1>9 DEF Finished, vars
<1> QED BY <1>2, <1>3, <1>4, <1>5, <1>6, <1>7, <1>8, <1>9 DEF Next

\* pixel_list_clusterer implements the clustering rule, for any sensor, tile
\* size, tolerance and stream of hits in time order: a hit joins exactly the
\* open clusters it belongs to, no cluster is closed before a hit that would
\* join it, and clusters leave in the order of their first toa.
THEOREM PixelImplementsOnlineClustering == Spec => ImplementsOnlineClustering
<1>1. Init => Rule!Init
  BY InitRule
<1>2. PixelInv /\ [Next]_vars => [Rule!Next]_Rule!vars
  BY StepRule
<1> QED BY PixelInvariant, <1>1, <1>2, PTL DEF Spec, ImplementsOnlineClustering, Rule!Spec
=============================================================================
