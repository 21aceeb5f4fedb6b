------------------------- MODULE WindowTriggerProofs --------------------------
(***************************************************************************)
(* What the runs check of both window nodes, proved for every length of    *)
(* the windows and every stream of hits in time order:                     *)
(*   - only the window at time 0 can be closed with clusters that were not *)
(*     counted, and then divide by zero (OpenWindow);                      *)
(*   - hits are counted in the window of their time (WindowsHold);         *)
(*   - the trigger node's buffer and output settle each hit (BufferHolds); *)
(*   - the hits before an interesting window are written (HistoryHolds).   *)
(* Each part has an inductive invariant that uses the one before it.       *)
(***************************************************************************)
EXTENDS WindowTrigger, FiniteSetTheorems, WellFoundedInduction, TLAPS

\* The inductive invariant.  The property speaks of the open window's first hit;
\* that it is late enough to be counted follows from where the window is: at
\* time 0, or at least a window's length after it and not after the last hit.
OpenTyped ==
    /\ toa \in Seq(Nat)
    /\ open \in [start : Nat, hits : Seq(Nat), bound : Nat, last : Nat]
    /\ open.hits # <<>> => Head(open.hits) \in 1..Len(toa)

OpenPlaced ==
    /\ open.start = 0 \/ open.start >= WindowTime
    /\ toa = <<>> => open.start = 0
    /\ phase = "read" /\ toa # <<>> => open.start <= toa[Len(toa)]

\* A vector without hits remembers no time of the window before.
EmptyIsNew == open.hits = <<>> => open.last = 0

OpenWindow == OpenTyped /\ OpenPlaced /\ EmptyIsNew /\ DividesByZeroOnlyAtStart

-----------------------------------------------------------------------------
\* get_empty_count finds the window of the hit: it begins at least a length later
\* than the open one, and not after the hit.
LEMMA NewWindowHoldsHit ==
    ASSUME NEW t \in Nat, open.start \in Nat, ~CanAdd(t)
    PROVE  LET k == EmptyCount(t) IN
           /\ k \in Nat
           /\ open.start + (k + 1) * WindowTime \in Nat
           /\ open.start + (k + 1) * WindowTime >= WindowTime
           /\ open.start + (k + 1) * WindowTime <= t
           /\ t <= open.start + (k + 1) * WindowTime + WindowTime
<1> DEFINE d == t - (open.start + WindowTime)
           k == d \div WindowTime
<1>1. WindowTime \in Nat /\ WindowTime > 0
  BY WindowAssumption
<1>2. d \in Nat
  BY <1>1 DEF CanAdd
<1>3. k \in Nat /\ WindowTime * k <= d /\ d < WindowTime * k + WindowTime
  <2> HIDE DEF d
  <2>1. k \in Nat /\ WindowTime * k <= d
    BY <1>1, <1>2
  <2>2. d < WindowTime * k + WindowTime
    BY <1>1, <1>2
  <2> QED BY <2>1, <2>2
<1>4. (k + 1) * WindowTime = WindowTime * k + WindowTime /\ WindowTime * k \in Nat
  <2> HIDE DEF k
  <2> QED BY <1>1, <1>3
<1> HIDE DEF k
<1>5. open.start + (k + 1) * WindowTime <= t
  BY <1>1, <1>3, <1>4
<1>6. open.start + (k + 1) * WindowTime \in Nat /\ open.start + (k + 1) * WindowTime >= WindowTime
  BY <1>1, <1>3, <1>4
<1>7. t <= open.start + (k + 1) * WindowTime + WindowTime
  BY <1>1, <1>3, <1>4
<1> QED BY <1>3, <1>5, <1>6, <1>7 DEF EmptyCount, k

\* A hit appended to the stream.
LEMMA HitArrives ==
    ASSUME NEW t \in 0..MaxToa, OpenTyped, Arrives(t)
    PROVE  /\ t \in Nat
           /\ toa' \in Seq(Nat)
           /\ Len(toa') = Hit
           /\ Hit \in Nat \ {0}
           /\ toa'[Hit] = t
           /\ \A i \in 1..Len(toa) : toa'[i] = toa[i]
           /\ toa # <<>> => toa[Len(toa)] <= t
           /\ phase = "read"
BY DEF OpenTyped, Arrives, Hit, Last

-----------------------------------------------------------------------------
LEMMA OpenWindowInit == Init => OpenWindow
<1> SUFFICES ASSUME Init PROVE OpenWindow
  OBVIOUS
<1>1. open = [start |-> 0, hits |-> <<>>, bound |-> 0, last |-> 0] /\ toa = <<>>
  BY DEF Init
<1> QED BY <1>1, WindowAssumption
        DEF OpenWindow, OpenTyped, OpenPlaced, EmptyIsNew, DividesByZeroOnlyAtStart, CanClose

\* The first hit of a window makes a bound of 1, unless it is at the start of time.
LEMMA FirstHit ==
    ASSUME NEW v, NEW t \in 0..MaxToa, OpenTyped, Arrives(t),
           v \in [start : Nat, hits : Seq(Nat), bound : Nat, last : Nat],
           v.hits = <<>>, v.last = 0,
           v.start = 0 \/ v.start >= WindowTime,
           v.start <= t,
           open' = Updated(v, Hit, t),
           phase' = "read"
    PROVE  OpenWindow'
<1>0. {WindowTime, ClusteringDt} \subseteq Nat
  BY WindowAssumption
<1>1. /\ open'.start = v.start
      /\ open'.hits = <<Hit>>
      /\ open'.bound = v.bound + (IF t > ClusteringDt THEN 1 ELSE 0)
      /\ open'.last = t
  BY HitArrives, <1>0 DEF Updated
<1>2. open' \in [start : Nat, hits : Seq(Nat), bound : Nat, last : Nat]
  <2>1. PICK b \in {0, 1} :
          open' = [v EXCEPT !.hits = Append(@, Hit), !.bound = @ + b, !.last = t]
    BY DEF Updated
  <2>2. Append(v.hits, Hit) \in Seq(Nat)
    BY HitArrives
  <2>3. v.bound + b \in Nat /\ t \in Nat
    BY HitArrives
  <2> HIDE DEF Hit
  <2> QED BY <2>1, <2>2, <2>3
<1>3. Head(open'.hits) = Hit /\ open'.hits # <<>>
  BY <1>1
<1>4. OpenTyped'
  <2>1. toa' \in Seq(Nat)
    BY HitArrives
  <2>2. Head(open'.hits) \in 1..Len(toa')
    BY <1>3, HitArrives
  <2> QED BY <1>2, <2>1, <2>2 DEF OpenTyped
<1>5. OpenPlaced'
  BY <1>1, HitArrives DEF OpenPlaced
<1>6. EmptyIsNew'
  BY <1>3 DEF EmptyIsNew
<1>7. DividesByZeroOnlyAtStart'
  <2> SUFFICES ASSUME WindowTime > ClusteringDt, ~(open'.bound > 0)
               PROVE  open'.start = 0 /\ toa'[Head(open'.hits)] <= ClusteringDt
    BY DEF DividesByZeroOnlyAtStart, CanClose
  <2>1. t <= ClusteringDt
    BY <1>0, <1>1, HitArrives
  <2> QED BY <2>1, <1>0, <1>1, <1>3, HitArrives
<1> QED BY <1>4, <1>5, <1>6, <1>7 DEF OpenWindow

\* The first hit stays the first when another is appended.
LEMMA HeadOfAppend ==
    ASSUME NEW s \in Seq(Nat), s # <<>>, NEW x \in Nat
    PROVE  Head(Append(s, x)) = Head(s) /\ Append(s, x) # <<>>
<1>1. Len(s) \in Nat /\ Len(s) > 0
  OBVIOUS
<1>2. Append(s, x)[1] = s[1] /\ Len(Append(s, x)) > 0
  BY <1>1
<1>3. Append(s, x) \in Seq(Nat) /\ Append(s, x) # <<>>
  BY <1>2
<1> QED BY <1>2, <1>3

\* A further hit changes nothing of the first, and the bound does not shrink.
LEMMA FurtherHit ==
    ASSUME NEW t \in 0..MaxToa, OpenWindow, AddHit(t), open.hits # <<>>
    PROVE  OpenWindow'
<1>0. OpenTyped /\ Arrives(t) /\ phase' = "read" /\ open' = Updated(open, Hit, t)
  BY DEF OpenWindow, AddHit, Arrives
<1>1. PICK b \in {0, 1} :
        open' = [open EXCEPT !.hits = Append(@, Hit), !.bound = @ + b, !.last = t]
  BY <1>0 DEF Updated
<1>2. /\ open'.start = open.start
      /\ open'.hits = Append(open.hits, Hit)
      /\ open'.bound = open.bound + b
      /\ open'.last = t
  BY <1>0, <1>1 DEF OpenTyped
<1>3. open' \in [start : Nat, hits : Seq(Nat), bound : Nat, last : Nat]
  <2>1. Append(open.hits, Hit) \in Seq(Nat)
    BY <1>0, HitArrives DEF OpenTyped
  <2>2. open.bound + b \in Nat
    BY <1>0 DEF OpenTyped
  <2>3. t \in Nat
    BY <1>0, HitArrives
  <2> QED BY <1>0, <1>1, <2>1, <2>2, <2>3 DEF OpenTyped
<1>4. Head(open'.hits) = Head(open.hits) /\ open'.hits # <<>>
  BY <1>0, <1>2, HeadOfAppend, HitArrives DEF OpenTyped
<1>5. Head(open.hits) \in 1..Len(toa) /\ toa # <<>>
  BY <1>0 DEF OpenTyped
<1>6. OpenTyped'
  <2>1. toa' \in Seq(Nat)
    BY <1>0, HitArrives
  <2>2. Head(open'.hits) \in 1..Len(toa')
    BY <1>0, <1>4, <1>5, HitArrives DEF OpenTyped, Hit
  <2> QED BY <1>3, <2>1, <2>2 DEF OpenTyped
<1>7. OpenPlaced'
  <2>1. open.start <= toa[Len(toa)] /\ toa[Len(toa)] <= t
        /\ toa[Len(toa)] \in Nat /\ open.start \in Nat
    BY <1>0, <1>5, HitArrives DEF OpenWindow, OpenPlaced, OpenTyped
  <2>2. open.start = 0 \/ open.start >= WindowTime
    BY DEF OpenWindow, OpenPlaced
  <2>3. open.start <= t
    BY <2>1, <1>0, HitArrives
  <2> QED BY <1>0, <1>2, <2>2, <2>3, HitArrives DEF OpenPlaced
<1>8. EmptyIsNew'
  BY <1>4 DEF EmptyIsNew
<1>9. DividesByZeroOnlyAtStart'
  <2> SUFFICES ASSUME WindowTime > ClusteringDt, ~(open'.bound > 0)
               PROVE  open'.start = 0 /\ toa'[Head(open'.hits)] <= ClusteringDt
    BY DEF DividesByZeroOnlyAtStart, CanClose
  <2>1. ~(open.bound > 0)
    BY <1>0, <1>2 DEF OpenTyped
  <2>2. open.start = 0 /\ toa[Head(open.hits)] <= ClusteringDt
    BY <2>1 DEF OpenWindow, DividesByZeroOnlyAtStart, CanClose
  <2> QED BY <2>2, <1>0, <1>2, <1>4, <1>5, HitArrives
<1> QED BY <1>6, <1>7, <1>8, <1>9 DEF OpenWindow

\* Each step of either node keeps the invariant: one step per action.
LEMMA OpenWindowStep == OpenWindow /\ [Next]_vars => OpenWindow'
<1> SUFFICES ASSUME OpenWindow, [Next]_vars
             PROVE  OpenWindow'
  OBVIOUS
<1>0. OpenTyped /\ open.start \in Nat
  BY DEF OpenWindow, OpenTyped
<1>1. ASSUME NEW t \in 0..MaxToa, AddHit(t)
      PROVE  OpenWindow'
  <2>0. Arrives(t) /\ phase' = "read" /\ open' = Updated(open, Hit, t)
    BY <1>1 DEF AddHit, Arrives
  <2>1. CASE open.hits = <<>>
    <3>1. open.start = 0 \/ (toa # <<>> /\ open.start <= toa[Len(toa)] /\ toa[Len(toa)] \in Nat)
      BY <1>0, <2>0, HitArrives DEF OpenWindow, OpenPlaced, OpenTyped
    <3>2. open.start <= t
      BY <1>0, <2>0, <3>1, HitArrives
    <3> QED BY <1>0, <2>0, <2>1, <3>2, FirstHit
            DEF OpenWindow, OpenPlaced, OpenTyped, EmptyIsNew
  <2>2. CASE open.hits # <<>>
    BY <1>1, <2>2, FurtherHit
  <2> QED BY <2>1, <2>2
<1>2. ASSUME NEW t \in 0..MaxToa, WriteWindow(t)
      PROVE  OpenWindow'
  <2> DEFINE v == Moved(EmptyCount(t) + 1)
  <2>0. Arrives(t) /\ phase' = "read" /\ ~CanAdd(t) /\ open' = Updated(v, Hit, t)
    BY <1>2 DEF WriteWindow, Arrives
  <2>1. v.start = open.start + (EmptyCount(t) + 1) * WindowTime
        /\ v.hits = <<>> /\ v.last = 0 /\ v.bound = 0
    BY DEF Moved, EmptyVector
  <2>2. v.start \in Nat /\ v.start >= WindowTime /\ v.start <= t
    BY <1>0, <2>0, <2>1, NewWindowHoldsHit, HitArrives
  <2>3. v \in [start : Nat, hits : Seq(Nat), bound : Nat, last : Nat]
    <3> DEFINE s == open.start + (EmptyCount(t) + 1) * WindowTime
    <3>1. v = [start |-> s, hits |-> <<>>, bound |-> 0, last |-> 0]
      BY DEF Moved, EmptyVector
    <3>2. s \in Nat
      BY <2>1, <2>2
    <3> HIDE DEF s, v
    <3>3. <<>> \in Seq(Nat) /\ 0 \in Nat
      OBVIOUS
    <3> QED BY <3>1, <3>2, <3>3
  <2> HIDE DEF v
  <2> QED BY <1>0, <2>0, <2>1, <2>2, <2>3, FirstHit
<1>3. ASSUME NEW t \in 0..MaxToa, NEW interesting \in BOOLEAN, DecideOnWindow(t, interesting)
      PROVE  OpenWindow'
  <2> DEFINE s == open.start + (EmptyCount(t) + 1) * WindowTime
  <2>0. Arrives(t) /\ ~CanAdd(t)
        /\ open' = [start |-> s, hits |-> <<>>, bound |-> 0, last |-> 0]
    BY <1>3 DEF DecideOnWindow, Moved, EmptyVector
  <2>1. s \in Nat /\ s >= WindowTime /\ s <= t
    BY <1>0, <2>0, NewWindowHoldsHit, HitArrives
  <2> HIDE DEF s
  <2>2. OpenTyped'
    BY <1>0, <2>0, <2>1, HitArrives DEF OpenTyped
  <2>3. OpenPlaced'
    BY <1>0, <2>0, <2>1, HitArrives DEF OpenPlaced
  <2> QED BY <2>0, <2>2, <2>3 DEF OpenWindow, EmptyIsNew, DividesByZeroOnlyAtStart, CanClose
<1>4. ASSUME NEW t \in 0..MaxToa, DivideByZero(t)
      PROVE  OpenWindow'
  <2>0. Arrives(t) /\ phase' = "crashed" /\ open' = open
    BY <1>4 DEF DivideByZero
  <2>1. OpenTyped'
    BY <1>0, <2>0, HitArrives DEF OpenTyped, Hit
  <2>2. OpenPlaced'
    BY <1>0, <2>0, HitArrives DEF OpenWindow, OpenPlaced
  <2>3. EmptyIsNew'
    BY <2>0 DEF OpenWindow, EmptyIsNew
  <2>4. DividesByZeroOnlyAtStart'
    BY <1>0, <2>0, HitArrives DEF OpenWindow, OpenTyped, DividesByZeroOnlyAtStart, CanClose
  <2> QED BY <2>1, <2>2, <2>3, <2>4 DEF OpenWindow
<1>5. CASE Close \/ Finished \/ UNCHANGED vars
  <2>1. UNCHANGED <<toa, open>> /\ (phase' = "read" => phase = "read")
    BY <1>5 DEF Close, Finished, vars
  <2> QED BY <2>1 DEF OpenWindow, OpenTyped, OpenPlaced, EmptyIsNew,
                      DividesByZeroOnlyAtStart, CanClose
<1> QED BY <1>1, <1>2, <1>3, <1>4, <1>5 DEF Next

-----------------------------------------------------------------------------
\* The open window of both nodes is where the hits are, and only the one at time 0
\* can hold hits and count no cluster.
THEOREM WindowInvariant == Spec => []OpenWindow
<1> QED BY OpenWindowInit, OpenWindowStep, PTL DEF Spec

\* default_window_feature_vector::close() divides by zero at the start of time only.
THEOREM WindowDividesByZeroOnlyAtStart == Spec => []DividesByZeroOnlyAtStart
<1>1. OpenWindow => DividesByZeroOnlyAtStart
  BY DEF OpenWindow
<1> QED BY <1>1, WindowInvariant, PTL

-----------------------------------------------------------------------------
\* What the windows hold: hits in the time of their window and in order.
Windows == [start : Nat, hits : Seq(Nat), bound : Nat, last : Nat]

InOrder(ws) ==
    \A i, j \in DOMAIN ws : \A k \in DOMAIN ws[i].hits, l \in DOMAIN ws[j].hits :
        i < j \/ (i = j /\ k < l) => ws[i].hits[k] < ws[j].hits[l]

InTime(ws, times) ==
    \A i \in DOMAIN ws : \A k \in DOMAIN ws[i].hits :
        LET h == ws[i].hits[k]
        IN  h \in DOMAIN times /\ ws[i].start <= times[h] /\ times[h] <= ws[i].start + WindowTime

Counts(ws, hits) ==
    \A h \in hits : \E i \in DOMAIN ws : \E k \in DOMAIN ws[i].hits : ws[i].hits[k] = h

\* Windows without hits change nothing of that.
LEMMA EmptyWindows ==
    ASSUME NEW ws \in Seq(Windows), NEW es \in Seq(Windows),
           \A i \in DOMAIN es : es[i].hits = <<>>
    PROVE  /\ InOrder(ws) => InOrder(ws \o es)
           /\ \A times : InTime(ws, times) => InTime(ws \o es, times)
           /\ \A hits : Counts(ws, hits) => Counts(ws \o es, hits)
<1> DEFINE r == ws \o es
<1>1. /\ r \in Seq(Windows) /\ DOMAIN r = 1..(Len(ws) + Len(es))
      /\ DOMAIN ws = 1..Len(ws) /\ DOMAIN es = 1..Len(es)
      /\ Len(ws) \in Nat /\ Len(es) \in Nat
      /\ \A i \in DOMAIN ws : r[i] = ws[i] /\ i \in DOMAIN r
      /\ \A i \in DOMAIN r : i \notin DOMAIN ws =>
            i - Len(ws) \in DOMAIN es /\ r[i] = es[i - Len(ws)]
  OBVIOUS
<1>2. \A i \in DOMAIN r : i \notin DOMAIN ws => DOMAIN r[i].hits = {}
  BY <1>1
<1> HIDE DEF r
<1>3. InOrder(ws) => InOrder(r)
  BY <1>1, <1>2 DEF InOrder
<1>4. \A times : InTime(ws, times) => InTime(r, times)
  BY <1>1, <1>2 DEF InTime
<1>5. \A hits : Counts(ws, hits) => Counts(r, hits)
  BY <1>1 DEF Counts
<1> QED BY <1>3, <1>4, <1>5 DEF r

\* Appending a vector as EmptyWindows appends a sequence of them.
LEMMA EmptyWindow ==
    ASSUME NEW ws \in Seq(Windows), NEW v \in Windows, v.hits = <<>>
    PROVE  /\ InOrder(ws) => InOrder(Append(ws, v))
           /\ \A times : InTime(ws, times) => InTime(Append(ws, v), times)
           /\ \A hits : Counts(ws, hits) => Counts(Append(ws, v), hits)
<1>1. <<v>> \in Seq(Windows) /\ \A i \in DOMAIN <<v>> : <<v>>[i].hits = <<>>
  OBVIOUS
<1>2. Append(ws, v) = ws \o <<v>>
  OBVIOUS
<1> QED BY <1>1, <1>2, EmptyWindows

\* The hit that arrives is the next one of the last window, if that is its time.
LEMMA HitCounted ==
    ASSUME NEW t \in 0..MaxToa, OpenTyped, Arrives(t),
           NEW ws \in Seq(Windows), NEW v \in Windows,
           v.start <= t, t <= v.start + WindowTime,
           InOrder(Append(ws, v)), InTime(Append(ws, v), toa)
    PROVE  /\ Updated(v, Hit, t) \in Windows
           /\ InOrder(Append(ws, Updated(v, Hit, t)))
           /\ InTime(Append(ws, Updated(v, Hit, t)), toa')
           /\ Counts(Append(ws, v), DOMAIN toa) =>
                    Counts(Append(ws, Updated(v, Hit, t)), DOMAIN toa')
<1> DEFINE u == Updated(v, Hit, t)
           a == Append(ws, v)
           b == Append(ws, u)
           n == Len(ws) + 1
           m == Len(v.hits) + 1
<1>1. /\ u.start = v.start
      /\ u.hits = Append(v.hits, Hit)
      /\ u \in Windows
  <2>1. PICK c \in {0, 1} : u = [v EXCEPT !.hits = Append(@, Hit), !.bound = @ + c, !.last = t]
    BY DEF Updated
  <2>2. Append(v.hits, Hit) \in Seq(Nat) /\ v.bound + c \in Nat /\ t \in Nat
    BY HitArrives DEF Windows
  <2> HIDE DEF u, Hit
  <2> QED BY <2>1, <2>2 DEF Windows
<1> HIDE DEF u
<1>2. /\ a \in Seq(Windows) /\ b \in Seq(Windows)
      /\ n \in Nat /\ DOMAIN a = 1..n /\ DOMAIN b = 1..n
      /\ a[n] = v /\ b[n] = u
      /\ \A i \in 1..n : i # n => b[i] = a[i]
  BY <1>1
<1>3. /\ m \in Nat /\ DOMAIN u.hits = 1..m /\ DOMAIN v.hits = 1..(m - 1)
      /\ u.hits[m] = Hit
      /\ \A k \in 1..(m - 1) : u.hits[k] = v.hits[k]
  BY <1>1, HitArrives DEF Windows
<1> HIDE DEF a, b, n, m
<1>4. /\ DOMAIN toa = 1..Len(toa) /\ DOMAIN toa' = 1..Hit /\ Hit = Len(toa) + 1 /\ Len(toa) \in Nat
      /\ \A h \in DOMAIN toa : toa'[h] = toa[h]
      /\ toa'[Hit] = t
  <2>1. toa \in Seq(Nat) /\ toa' \in Seq(Nat) /\ Len(toa') = Hit
    BY HitArrives DEF OpenTyped
  <2>2. DOMAIN toa = 1..Len(toa) /\ DOMAIN toa' = 1..Len(toa') /\ Len(toa) \in Nat
    BY <2>1
  <2>3. (\A i \in 1..Len(toa) : toa'[i] = toa[i]) /\ toa'[Hit] = t
    BY HitArrives
  <2> QED BY <2>1, <2>2, <2>3 DEF Hit
<1> HIDE DEF Hit
<1>5. \A i \in 1..n : \A k \in DOMAIN b[i].hits :
            \/ k \in DOMAIN a[i].hits /\ b[i].hits[k] = a[i].hits[k]
            \/ i = n /\ k = m /\ b[i].hits[k] = Hit
  BY <1>2, <1>3
<1>6. \A i \in 1..n : \A k \in DOMAIN a[i].hits : a[i].hits[k] < Hit /\ a[i].hits[k] \in DOMAIN toa
  BY <1>2, <1>4 DEF InTime, a
<1>7. InOrder(b)
  <2> SUFFICES ASSUME NEW i \in 1..n, NEW j \in 1..n,
                      NEW k \in DOMAIN b[i].hits, NEW l \in DOMAIN b[j].hits,
                      i < j \/ (i = j /\ k < l)
               PROVE  b[i].hits[k] < b[j].hits[l]
    BY <1>2 DEF InOrder
  <2>1. k \in DOMAIN a[i].hits /\ b[i].hits[k] = a[i].hits[k]
    <3>1. CASE i = n /\ k = m
      <4>1. i = j /\ k < l /\ l \in DOMAIN u.hits
        BY <1>2, <3>1
      <4> QED BY <1>3, <3>1, <4>1
    <3> QED BY <1>5, <3>1
  <2>2. CASE j = n /\ l = m /\ b[j].hits[l] = Hit
    BY <2>1, <2>2, <1>6
  <2>3. CASE l \in DOMAIN a[j].hits /\ b[j].hits[l] = a[j].hits[l]
    BY <2>1, <2>3, <1>2 DEF InOrder, a
  <2> QED BY <2>2, <2>3, <1>5
<1>8. InTime(b, toa')
  <2> SUFFICES ASSUME NEW i \in 1..n, NEW k \in DOMAIN b[i].hits
               PROVE  LET h == b[i].hits[k]
                      IN  h \in DOMAIN toa' /\ b[i].start <= toa'[h]
                                            /\ toa'[h] <= b[i].start + WindowTime
    BY <1>2 DEF InTime
  <2>1. b[i].start = a[i].start
    BY <1>1, <1>2
  <2>2. CASE i = n /\ k = m /\ b[i].hits[k] = Hit
    BY <1>1, <1>2, <1>4, <2>2
  <2>3. CASE k \in DOMAIN a[i].hits /\ b[i].hits[k] = a[i].hits[k]
    <3> DEFINE h == b[i].hits[k]
    <3>1. h \in DOMAIN toa /\ a[i].start <= toa[h] /\ toa[h] <= a[i].start + WindowTime
      BY <1>2, <2>3 DEF InTime, a
    <3> QED BY <1>4, <2>1, <3>1
  <2> QED BY <2>2, <2>3, <1>5
<1>9. ASSUME Counts(a, DOMAIN toa) PROVE Counts(b, DOMAIN toa')
  <2>1. \A i \in 1..n : \A k \in DOMAIN a[i].hits : k \in DOMAIN b[i].hits /\ b[i].hits[k] = a[i].hits[k]
    <3> SUFFICES ASSUME NEW i \in 1..n, NEW k \in DOMAIN a[i].hits
                 PROVE  k \in DOMAIN b[i].hits /\ b[i].hits[k] = a[i].hits[k]
      OBVIOUS
    <3>1. CASE i = n
      BY <1>2, <1>3, <3>1
    <3>2. CASE i # n
      BY <1>2, <3>2
    <3> QED BY <3>1, <3>2
  <2>2. n \in DOMAIN b /\ m \in DOMAIN b[n].hits /\ b[n].hits[m] = Hit
    BY <1>2, <1>3 DEF n, m
  <2>3. \A h \in DOMAIN toa' : h \in DOMAIN toa \/ h = Hit
    BY <1>4
  <2> QED BY <1>2, <1>9, <2>1, <2>2, <2>3 DEF Counts
<1>10. Counts(a, DOMAIN toa) => Counts(b, DOMAIN toa')
  BY <1>9
<1> USE DEF u, a, b
<1> QED BY <1>1, <1>7, <1>8, <1>10

\* The inductive invariant of the windows, written and open.
Held == Append(windows, open)

WindowsHold ==
    /\ windows \in Seq(Windows)
    /\ InOrder(Held)
    /\ InTime(Held, toa)
    /\ node = "computer" =>
        /\ open.start = Len(windows) * WindowTime
        /\ \A i \in DOMAIN windows : windows[i].start = (i - 1) * WindowTime
        /\ phase # "crashed" => Counts(Held, DOMAIN toa)

\* A hit that arrives keeps the times of those before.
LEMMA InTimeOfMore ==
    ASSUME NEW t \in 0..MaxToa, OpenTyped, Arrives(t), NEW ws, InTime(ws, toa)
    PROVE  InTime(ws, toa')
<1>1. toa \in Seq(Nat) /\ toa' \in Seq(Nat) /\ Len(toa') = Len(toa) + 1
  BY HitArrives DEF OpenTyped, Hit
<1>2. \A h \in DOMAIN toa : h \in DOMAIN toa' /\ toa'[h] = toa[h]
  BY <1>1, HitArrives, SMTT(30)
<1> QED BY <1>2 DEF InTime

LEMMA WindowsHoldInit == Init => WindowsHold
<1> SUFFICES ASSUME Init PROVE WindowsHold
  OBVIOUS
<1>1. windows = <<>> /\ toa = <<>> /\ open = [start |-> 0, hits |-> <<>>, bound |-> 0, last |-> 0]
  BY DEF Init
<1>2. open \in Windows /\ windows \in Seq(Windows) /\ open.hits = <<>> /\ open.start = 0
  BY <1>1 DEF Windows
<1>3. InOrder(windows) /\ InTime(windows, toa) /\ Counts(windows, DOMAIN toa)
  BY <1>1 DEF InOrder, InTime, Counts
<1>4. InOrder(Held) /\ InTime(Held, toa) /\ Counts(Held, DOMAIN toa)
  BY <1>2, <1>3, EmptyWindow DEF Held
<1>5. Len(windows) * WindowTime = 0
  BY <1>1, WindowAssumption
<1> QED BY <1>1, <1>2, <1>4, <1>5 DEF WindowsHold

LEMMA AddHitHolds ==
    ASSUME NEW t \in 0..MaxToa, OpenWindow, WindowsHold, AddHit(t)
    PROVE  WindowsHold'
<1>1. /\ OpenTyped /\ Arrives(t) /\ phase = "read" /\ phase' = "read"
      /\ open' = Updated(open, Hit, t) /\ windows' = windows /\ node' = node
      /\ t <= open.start + WindowTime
  BY DEF OpenWindow, AddHit, Arrives, CanAdd
<1>2. open \in Windows /\ windows \in Seq(Windows)
  BY <1>1 DEF OpenTyped, Windows, WindowsHold
<1>3. open.start <= t
  <2>1. open.start = 0 \/ (toa # <<>> /\ open.start <= toa[Len(toa)] /\ toa[Len(toa)] \in Nat)
    BY <1>1 DEF OpenWindow, OpenPlaced, OpenTyped
  <2> QED BY <1>1, <1>2, <2>1, HitArrives DEF Windows
<1>4. /\ open' \in Windows
      /\ InOrder(Append(windows, open')) /\ InTime(Append(windows, open'), toa')
      /\ Counts(Held, DOMAIN toa) => Counts(Append(windows, open'), DOMAIN toa')
  BY <1>1, <1>2, <1>3, HitCounted DEF WindowsHold, Held
<1>5. open'.start = open.start
  BY <1>1, <1>2 DEF Updated, Windows
<1> QED BY <1>1, <1>2, <1>4, <1>5 DEF WindowsHold, Held

\* The window of a later hit, and its place among the windows of the computer.
LEMMA NewWindowTyped ==
    ASSUME NEW t \in 0..MaxToa, OpenWindow, Arrives(t), ~CanAdd(t)
    PROVE  LET v == Moved(EmptyCount(t) + 1) IN
           /\ EmptyCount(t) \in Nat
           /\ v \in Windows /\ v.hits = <<>>
           /\ v.start = open.start + (EmptyCount(t) + 1) * WindowTime
           /\ v.start <= t /\ t <= v.start + WindowTime
<1> DEFINE start == open.start + (EmptyCount(t) + 1) * WindowTime
           v == Moved(EmptyCount(t) + 1)
<1>1. t \in Nat /\ open.start \in Nat
  BY HitArrives DEF OpenWindow, OpenTyped
<1>2. EmptyCount(t) \in Nat /\ start \in Nat /\ start <= t /\ t <= start + WindowTime
  BY <1>1, NewWindowHoldsHit
<1>3. v = [start |-> start, hits |-> <<>>, bound |-> 0, last |-> 0]
  BY DEF Moved, EmptyVector
<1> HIDE DEF start, v
<1>4. v \in Windows /\ v.hits = <<>> /\ v.start = start
  BY <1>2, <1>3 DEF Windows
<1> QED BY <1>2, <1>4 DEF start, v

LEMMA WriteWindowHolds ==
    ASSUME NEW t \in 0..MaxToa, OpenWindow, WindowsHold, WriteWindow(t)
    PROVE  WindowsHold'
<1> DEFINE k == EmptyCount(t)
           v == Moved(k + 1)
           es == [i \in 1..k |-> Moved(i)]
           ws == Held \o es
           n == Len(windows)
<1>1. /\ OpenTyped /\ Arrives(t) /\ phase = "read" /\ phase' = "read" /\ ~CanAdd(t)
      /\ open' = Updated(v, Hit, t) /\ windows' = ws /\ node' = node /\ node = "computer"
  BY DEF OpenWindow, WriteWindow, Arrives, Held
<1>2. open \in Windows /\ windows \in Seq(Windows) /\ Held \in Seq(Windows)
  BY <1>1 DEF OpenTyped, Windows, WindowsHold, Held
<1>3. /\ k \in Nat /\ v \in Windows /\ v.hits = <<>>
      /\ v.start = open.start + (k + 1) * WindowTime
      /\ v.start <= t /\ t <= v.start + WindowTime
  BY <1>1, NewWindowTyped
<1>4. WindowTime \in Nat /\ open.start \in Nat /\ n \in Nat /\ open.start = n * WindowTime
  BY <1>1, <1>2, WindowAssumption DEF WindowsHold, Windows
<1> HIDE DEF k, v
<1>5. \A i \in 1..k : /\ Moved(i) \in Windows /\ Moved(i).hits = <<>>
                      /\ Moved(i).start = open.start + i * WindowTime
  <2> SUFFICES ASSUME NEW i \in 1..k
               PROVE  /\ Moved(i) \in Windows /\ Moved(i).hits = <<>>
                      /\ Moved(i).start = open.start + i * WindowTime
    OBVIOUS
  <2> DEFINE start == open.start + i * WindowTime
  <2>1. start \in Nat
    BY <1>3, <1>4
  <2>2. Moved(i) = [start |-> start, hits |-> <<>>, bound |-> 0, last |-> 0]
    BY DEF Moved, EmptyVector
  <2> HIDE DEF start
  <2>3. Moved(i) \in Windows /\ Moved(i).hits = <<>> /\ Moved(i).start = start
    BY <2>1, <2>2 DEF Windows
  <2> QED BY <2>3 DEF start
<1>6. /\ es \in Seq(Windows) /\ Len(es) = k /\ DOMAIN es = 1..k
      /\ \A i \in DOMAIN es : es[i].hits = <<>> /\ es[i].start = open.start + i * WindowTime
  BY <1>3, <1>5
<1> HIDE DEF es
<1>7. /\ ws \in Seq(Windows)
      /\ InOrder(ws) /\ InTime(ws, toa)
      /\ Counts(ws, DOMAIN toa)
  <2>1. InOrder(Held) /\ InTime(Held, toa) /\ Counts(Held, DOMAIN toa)
    BY <1>1 DEF WindowsHold
  <2>2. ws \in Seq(Windows)
    BY <1>2, <1>6
  <2> QED BY <1>2, <1>6, <2>1, <2>2, EmptyWindows
<1> HIDE DEF ws
<1>8. InOrder(Append(ws, v)) /\ InTime(Append(ws, v), toa) /\ Counts(Append(ws, v), DOMAIN toa)
  BY <1>3, <1>7, EmptyWindow
<1>9. /\ open' \in Windows
      /\ InOrder(Append(ws, open')) /\ InTime(Append(ws, open'), toa')
      /\ Counts(Append(ws, open'), DOMAIN toa')
  BY <1>1, <1>3, <1>7, <1>8, HitCounted
<1>10. open'.start = v.start
  BY <1>1, <1>3 DEF Updated, Windows
<1>11. Len(ws) = n + 1 + k
  BY <1>2, <1>3, <1>6, SMTT(30) DEF ws, Held
<1>12. open'.start = Len(ws) * WindowTime
  <2>1. (n + (k + 1)) * WindowTime = n * WindowTime + (k + 1) * WindowTime
    BY <1>3, <1>4
  <2>2. n + (k + 1) = n + 1 + k
    BY <1>3, <1>4
  <2> QED BY <1>3, <1>4, <1>10, <1>11, <2>1, <2>2
<1>13. \A i \in DOMAIN ws : ws[i].start = (i - 1) * WindowTime
  <2> SUFFICES ASSUME NEW i \in 1..(n + 1 + k) PROVE ws[i].start = (i - 1) * WindowTime
    BY <1>7, <1>11
  <2>0. Len(Held) = n + 1 /\ (\A j \in 1..n : Held[j] = windows[j]) /\ Held[n + 1] = open
    BY <1>2 DEF Held
  <2>1. CASE i \in 1..n
    <3>1. ws[i] = windows[i]
      BY <1>2, <1>6, <2>0, <2>1 DEF ws
    <3> QED BY <1>1, <1>2, <2>1, <3>1 DEF WindowsHold
  <2>2. CASE i = n + 1
    <3>1. ws[i] = open
      BY <1>2, <1>6, <2>0, <2>2 DEF ws
    <3> QED BY <1>4, <2>2, <3>1
  <2>3. CASE i \in (n + 2)..(n + 1 + k)
    <3> DEFINE j == i - (n + 1)
    <3>1. j \in DOMAIN es /\ j \in Int
      BY <1>3, <1>4, <1>6, <2>3
    <3>2. ws[i] = es[j]
      <4>1. i \in 1..(Len(Held) + Len(es)) /\ ~(i <= Len(Held)) /\ j = i - Len(Held)
        BY <1>3, <1>4, <1>6, <2>0, <2>3
      <4> HIDE DEF j
      <4> QED BY <1>2, <1>6, <4>1 DEF ws
    <3>3. ws[i].start = n * WindowTime + j * WindowTime
      BY <1>4, <1>6, <3>1, <3>2
    <3>4. n + j = i - 1
      BY <1>4
    <3> HIDE DEF j
    <3>5. (n + j) * WindowTime = n * WindowTime + j * WindowTime
      BY <1>4, <3>1
    <3> QED BY <3>3, <3>4, <3>5
  <2> QED BY <1>4, <2>1, <2>2, <2>3
<1> QED BY <1>1, <1>7, <1>9, <1>12, <1>13 DEF WindowsHold, Held

LEMMA WindowsHoldStep == OpenWindow /\ WindowsHold /\ [Next]_vars => WindowsHold'
<1> SUFFICES ASSUME OpenWindow, WindowsHold, [Next]_vars PROVE WindowsHold'
  OBVIOUS
<1>1. ASSUME NEW t \in 0..MaxToa, AddHit(t) PROVE WindowsHold'
  BY <1>1, AddHitHolds
<1>2. ASSUME NEW t \in 0..MaxToa, WriteWindow(t) PROVE WindowsHold'
  BY <1>2, WriteWindowHolds
<1>3. ASSUME NEW t \in 0..MaxToa, NEW interesting \in BOOLEAN, DecideOnWindow(t, interesting)
      PROVE  WindowsHold'
  <2>1. /\ OpenTyped /\ Arrives(t) /\ ~CanAdd(t) /\ node' = "trigger"
        /\ windows' = Held /\ open' = Moved(EmptyCount(t) + 1)
    BY <1>3 DEF DecideOnWindow, OpenWindow, Held
  <2>2. Held \in Seq(Windows) /\ InOrder(Held) /\ InTime(Held, toa)
    BY <2>1 DEF WindowsHold, Held, OpenTyped, Windows
  <2>3. open' \in Windows /\ open'.hits = <<>>
    BY <2>1, NewWindowTyped
  <2>4. InTime(Held, toa')
    BY <2>1, <2>2, InTimeOfMore
  <2>5. InOrder(Append(Held, open')) /\ InTime(Append(Held, open'), toa')
    BY <2>2, <2>3, <2>4, EmptyWindow
  <2>6. Held' = Append(windows', open') /\ node' # "computer"
    BY <2>1 DEF Held
  <2> QED BY <2>1, <2>2, <2>5, <2>6 DEF WindowsHold
<1>4. ASSUME NEW t \in 0..MaxToa, DivideByZero(t) PROVE WindowsHold'
  <2>1. /\ OpenTyped /\ Arrives(t) /\ phase' = "crashed" /\ node' = node
        /\ windows' = windows /\ open' = open
    BY <1>4 DEF DivideByZero, OpenWindow
  <2>2. InTime(Held, toa')
    BY <2>1, InTimeOfMore DEF WindowsHold
  <2> QED BY <2>1, <2>2 DEF WindowsHold, Held
<1>5. CASE Close \/ Finished \/ UNCHANGED vars
  <2>1. UNCHANGED <<node, toa, open, windows>> /\ (phase' # "crashed" => phase # "crashed")
    BY <1>5 DEF Close, Finished, vars
  <2> QED BY <2>1 DEF WindowsHold, Held
<1> QED BY <1>1, <1>2, <1>3, <1>4, <1>5 DEF Next

\* What the property says of the windows that were closed follows from what is
\* known of all of them.
LEMMA WindowsHoldImplies == OpenWindow /\ WindowsHold => HitsInTheirWindow
<1> SUFFICES ASSUME OpenWindow, WindowsHold PROVE HitsInTheirWindow
  OBVIOUS
<1>1. /\ windows \in Seq(Windows) /\ Held \in Seq(Windows)
      /\ DOMAIN windows = 1..Len(windows) /\ DOMAIN Held = 1..(Len(windows) + 1)
      /\ Len(windows) \in Nat
      /\ \A i \in DOMAIN windows : i \in DOMAIN Held /\ Held[i] = windows[i]
      /\ Held[Len(windows) + 1] = open
  <2>1. windows \in Seq(Windows) /\ open \in Windows
    BY DEF OpenWindow, OpenTyped, WindowsHold, Windows
  <2> QED BY <2>1 DEF Held
<1>2. /\ DOMAIN AllWindows \subseteq DOMAIN Held
      /\ \A i \in DOMAIN AllWindows : AllWindows[i] = Held[i]
      /\ phase # "crashed" => AllWindows = Held
  BY <1>1 DEF AllWindows, Held
<1>3. \A i \in DOMAIN AllWindows : \A h \in Range(AllWindows[i].hits) :
            AllWindows[i].start <= toa[h] /\ toa[h] <= AllWindows[i].start + WindowTime
  BY <1>2 DEF WindowsHold, InTime, Range
<1>4. CountedInOrder
  BY <1>2 DEF WindowsHold, InOrder, CountedInOrder
<1>5. ASSUME node = "computer"
      PROVE  \A i \in DOMAIN AllWindows : AllWindows[i].start = (i - 1) * WindowTime
  <2>1. \A i \in DOMAIN Held : Held[i].start = (i - 1) * WindowTime
    <3>1. (Len(windows) + 1) - 1 = Len(windows)
      BY <1>1
    <3>2. \A i \in DOMAIN Held : i \in DOMAIN windows \/ i = Len(windows) + 1
      BY <1>1
    <3> QED BY <1>1, <1>5, <3>1, <3>2 DEF WindowsHold
  <2> QED BY <1>2, <2>1
<1>6. ASSUME node = "computer", phase # "crashed"
      PROVE  \A h \in DOMAIN toa : \E i \in DOMAIN AllWindows : h \in Range(AllWindows[i].hits)
  BY <1>2, <1>6 DEF WindowsHold, Counts, Range
<1> QED BY <1>3, <1>4, <1>5, <1>6 DEF HitsInTheirWindow

\* A hit is counted in the window of its time only, in the order of arrival; the
\* computer's windows cover the time without a gap and count every hit.
THEOREM WindowHitsInTheirWindow == Spec => []HitsInTheirWindow
<1>1. OpenWindow /\ OpenWindow' /\ WindowsHold /\ [Next]_vars => WindowsHold'
  BY WindowsHoldStep
<1>2. Spec => []WindowsHold
  BY WindowInvariant, WindowsHoldInit, <1>1, PTL DEF Spec
<1> QED BY WindowInvariant, <1>2, WindowsHoldImplies, PTL

-----------------------------------------------------------------------------
\* A set of natural numbers has a least element: sets of the numbers up to each are
\* well founded.
LEMMA LeastElement ==
    ASSUME NEW S \in SUBSET Nat, S # {}
    PROVE  Min(S) \in S /\ \A k \in S : Min(S) <= k
<1> DEFINE F == {0..m : m \in S}
<1>1. F \subseteq FiniteSubsetsOf(Nat) /\ F # {}
  <2>1. \A m \in S : 0..m \subseteq Nat /\ IsFiniteSet(0..m)
    BY FS_Interval
  <2> QED BY <2>1 DEF FiniteSubsetsOf
<1>2. PICK x \in F : \A y \in F : <<y, x>> \notin StrictSubsetOrdering(Nat)
  <2> HIDE DEF F
  <2> QED BY <1>1, FS_StrictSubsetOrderingWellFounded, WFMin
<1>3. PICK m \in S : x = 0..m
  BY <1>2
<1>4. ASSUME NEW k \in S, ~(m <= k) PROVE FALSE
  <2>1. k \in Nat /\ m \in Nat /\ k < m
    BY <1>4
  <2>2. 0..k \subseteq 0..m /\ m \notin 0..k /\ m \in 0..m /\ 0..k \subseteq Nat /\ 0..m \subseteq Nat
    BY <2>1
  <2>3. <<0..k, 0..m>> \in StrictSubsetOrdering(Nat) /\ 0..k \in F
    BY <2>2 DEF StrictSubsetOrdering
  <2> QED BY <2>3, <1>2, <1>3
<1>5. \E y \in S : \A k \in S : y <= k
  BY <1>4
<1> QED BY <1>5 DEF Min

\* The hits up to the n-th were written (out), are held (buf), or gone: each is
\* exactly one of these, in order, and what is held comes after what was written.
Increasing(s) == \A i, j \in DOMAIN s : i < j => s[i] < s[j]

Settled(out, buf, gone, n) ==
    /\ out \in Seq(Nat) /\ buf \in Seq(Nat)
    /\ Increasing(out) /\ Increasing(buf)
    /\ \A i \in DOMAIN out, j \in DOMAIN buf : out[i] < buf[j]
    /\ Range(out) \cup Range(buf) \cup gone = 1..n
    /\ Range(out) \cap gone = {} /\ Range(buf) \cap gone = {}

\* Hits are forgotten from the front of the buffer, and only old ones.
LEMMA RememberedIsEnd ==
    ASSUME toa \in Seq(Nat), open.start \in Nat, buffer \in Seq(Nat), Range(buffer) \subseteq DOMAIN toa
    PROVE  \E n \in 0..Len(buffer) :
            /\ Remembered = SubSeq(buffer, n + 1, Len(buffer))
            /\ \A i \in 1..n : toa[buffer[i]] + WindowTime < open.start
<1> DEFINE recent == {i \in DOMAIN buffer : toa[buffer[i]] + WindowTime >= open.start}
           S == recent \cup {Len(buffer) + 1}
<1>1. DOMAIN buffer = 1..Len(buffer) /\ Len(buffer) \in Nat
  OBVIOUS
<1>2. S \subseteq 1..(Len(buffer) + 1) /\ S # {} /\ Len(buffer) + 1 \in S
  BY <1>1
<1>3. S \in SUBSET Nat
  BY <1>1, <1>2
<1>4. Min(S) \in S /\ \A k \in S : Min(S) <= k
  <2> HIDE DEF S
  <2> QED BY <1>2, <1>3, LeastElement
<1> DEFINE m == Min(S)
<1>5. Remembered = SubSeq(buffer, m, Len(buffer))
  BY DEF Remembered
<1>6. \A i \in DOMAIN buffer : i \notin S => toa[buffer[i]] + WindowTime < open.start
  <2> SUFFICES ASSUME NEW i \in DOMAIN buffer, i \notin S
               PROVE  toa[buffer[i]] + WindowTime < open.start
    OBVIOUS
  <2>1. ~(toa[buffer[i]] + WindowTime >= open.start)
    OBVIOUS
  <2>2. toa[buffer[i]] \in Nat
    BY DEF Range
  <2> QED BY <2>1, <2>2, WindowAssumption, SMTT(30)
<1> HIDE DEF S
<1>7. m \in S /\ \A k \in S : m <= k
  BY <1>4
<1> HIDE DEF m
<1>8. m \in 1..(Len(buffer) + 1) /\ \A i \in 1..(m - 1) : i \notin S /\ i \in DOMAIN buffer
  <2>1. m \in 1..(Len(buffer) + 1)
    BY <1>2, <1>7
  <2>2. ASSUME NEW i \in 1..(m - 1) PROVE i \notin S /\ i \in DOMAIN buffer
    <3>1. i \in Nat /\ i < m /\ i >= 1
      BY <1>1, <2>1
    <3> QED BY <1>1, <1>7, <2>1, <3>1
  <2> QED BY <2>1, <2>2
<1>9. (m - 1) + 1 = m /\ m - 1 \in 0..Len(buffer)
  BY <1>1, <1>8
<1> QED BY <1>5, <1>6, <1>8, <1>9

LEMMA EndOfBuffer ==
    ASSUME NEW out, NEW buf, NEW gone, NEW k \in Nat, Settled(out, buf, gone, k), NEW n \in 0..Len(buf)
    PROVE  LET end == SubSeq(buf, n + 1, Len(buf)) IN
           /\ Settled(out, end, gone \cup (Range(buf) \ Range(end)), k)
           /\ \A h \in Range(buf) \ Range(end) : \E i \in 1..n : h = buf[i]
           /\ buf = <<>> => end = <<>>
<1> DEFINE end == SubSeq(buf, n + 1, Len(buf))
<1>1. /\ buf \in Seq(Nat) /\ DOMAIN buf = 1..Len(buf) /\ Len(buf) \in Nat
      /\ end \in Seq(Nat) /\ Len(end) = Len(buf) - n /\ DOMAIN end = 1..(Len(buf) - n)
      /\ \A i \in 1..(Len(buf) - n) : end[i] = buf[n + i]
  BY DEF Settled
<1> HIDE DEF end
<1>2. buf = <<>> => end = <<>>
  <2> SUFFICES ASSUME buf = <<>> PROVE end = <<>>
    OBVIOUS
  <2>1. Len(buf) = 0 /\ n = 0
    BY <1>1
  <2> QED BY <1>1, <2>1
<1>3. \A i \in DOMAIN end : n + i \in DOMAIN buf /\ end[i] = buf[n + i]
  <2> SUFFICES ASSUME NEW i \in 1..(Len(buf) - n) PROVE n + i \in 1..Len(buf) /\ end[i] = buf[n + i]
    BY <1>1
  <2>1. n \in Nat /\ n <= Len(buf)
    BY <1>1
  <2> QED BY <1>1, <2>1
<1>4. Range(end) \subseteq Range(buf)
  BY <1>3 DEF Range
<1>5. Increasing(end)
  BY <1>1, <1>3 DEF Settled, Increasing
<1>6. \A i \in DOMAIN out, j \in DOMAIN end : out[i] < end[j]
  BY <1>3 DEF Settled
<1>7. \A h \in Range(buf) \ Range(end) : \E i \in 1..n : h = buf[i]
  <2> SUFFICES ASSUME NEW i \in DOMAIN buf, buf[i] \notin Range(end)
               PROVE  i \in 1..n
    BY DEF Range
  <2>1. ~(i - n \in DOMAIN end)
    <3>1. i - n \in DOMAIN end => end[i - n] = buf[i]
      BY <1>1
    <3> QED BY <3>1 DEF Range
  <2> QED BY <1>1, <2>1
<1>8. Range(out) \cap Range(buf) = {}
  <2> SUFFICES ASSUME NEW i \in DOMAIN out, NEW j \in DOMAIN buf, out[i] = buf[j] PROVE FALSE
    BY DEF Range
  <2>1. out[i] \in Nat /\ buf[j] \in Nat /\ out[i] < buf[j]
    BY DEF Settled
  <2> QED BY <2>1
<1>9. Settled(out, end, gone \cup (Range(buf) \ Range(end)), k)
  BY <1>1, <1>4, <1>5, <1>6, <1>8 DEF Settled
<1> QED BY <1>2, <1>7, <1>9 DEF end

\* process_all_buffered moves the buffer behind what was written.
LEMMA BufferWritten ==
    ASSUME NEW out, NEW buf, NEW gone, NEW k \in Nat, Settled(out, buf, gone, k)
    PROVE  Settled(out \o buf, <<>>, gone, k)
<1> DEFINE all == out \o buf
<1>1. /\ out \in Seq(Nat) /\ buf \in Seq(Nat) /\ all \in Seq(Nat)
      /\ Len(out) \in Nat /\ Len(buf) \in Nat
      /\ DOMAIN out = 1..Len(out) /\ DOMAIN buf = 1..Len(buf)
      /\ DOMAIN all = 1..(Len(out) + Len(buf))
      /\ \A i \in 1..Len(out) : all[i] = out[i]
      /\ \A i \in 1..(Len(out) + Len(buf)) : i > Len(out) => all[i] = buf[i - Len(out)]
      /\ \A j \in 1..Len(buf) : all[Len(out) + j] = buf[j]
  BY DEF Settled
<1> HIDE DEF all
<1>2. \A i \in DOMAIN all : (i \in DOMAIN out /\ all[i] = out[i])
                         \/ (i > Len(out) /\ i - Len(out) \in DOMAIN buf /\ all[i] = buf[i - Len(out)])
  BY <1>1
<1>3. Range(all) = Range(out) \cup Range(buf)
  <2>1. \A i \in DOMAIN out : i \in DOMAIN all /\ all[i] = out[i]
    BY <1>1
  <2>2. \A j \in DOMAIN buf : Len(out) + j \in DOMAIN all /\ all[Len(out) + j] = buf[j]
    BY <1>1
  <2> QED BY <1>2, <2>1, <2>2 DEF Range
<1>4. Increasing(all)
  <2> SUFFICES ASSUME NEW i \in DOMAIN all, NEW j \in DOMAIN all, i < j PROVE all[i] < all[j]
    BY DEF Increasing
  <2>1. CASE j \in DOMAIN out
    <3>1. i \in DOMAIN out
      BY <1>1, <2>1
    <3> QED BY <1>1, <2>1, <3>1 DEF Settled, Increasing
  <2>2. CASE j > Len(out) /\ i \in DOMAIN out
    <3>1. j - Len(out) \in DOMAIN buf /\ all[j] = buf[j - Len(out)]
      BY <1>1, <2>2
    <3>2. all[i] = out[i]
      BY <1>1, <2>2
    <3> QED BY <2>2, <3>1, <3>2 DEF Settled
  <2>3. CASE i > Len(out)
    <3>1. i - Len(out) \in DOMAIN buf /\ all[i] = buf[i - Len(out)]
      BY <1>1, <2>3
    <3>2. j - Len(out) \in DOMAIN buf /\ all[j] = buf[j - Len(out)] /\ i - Len(out) < j - Len(out)
      BY <1>1, <2>3
    <3> QED BY <3>1, <3>2 DEF Settled, Increasing
  <2> QED BY <1>1, <2>1, <2>2, <2>3
<1>5. <<>> \in Seq(Nat) /\ DOMAIN <<>> = {} /\ Range(<<>>) = {}
  BY DEF Range
<1> QED BY <1>1, <1>3, <1>4, <1>5 DEF Settled, Increasing, all

\* The hit that is read is later than all before, be it written or held.
LEMMA NextHitLast ==
    ASSUME NEW s \in Seq(Nat), Increasing(s), NEW n \in Nat, Range(s) \subseteq 1..n
    PROVE  /\ Append(s, n + 1) \in Seq(Nat)
           /\ Increasing(Append(s, n + 1))
           /\ Range(Append(s, n + 1)) = Range(s) \cup {n + 1}
<1> DEFINE r == Append(s, n + 1)
<1>1. /\ r \in Seq(Nat) /\ Len(s) \in Nat /\ DOMAIN s = 1..Len(s) /\ DOMAIN r = 1..(Len(s) + 1)
      /\ r[Len(s) + 1] = n + 1
      /\ \A i \in DOMAIN s : r[i] = s[i] /\ i \in DOMAIN r
  OBVIOUS
<1> HIDE DEF r
<1>2. \A i \in DOMAIN s : s[i] < n + 1
  BY SMTT(30) DEF Range
<1>3. \A i \in DOMAIN r : i \in DOMAIN s \/ i = Len(s) + 1
  BY <1>1
<1>4. Range(r) = Range(s) \cup {n + 1}
  BY <1>1, <1>3 DEF Range
<1>5. Increasing(r)
  <2> SUFFICES ASSUME NEW i \in DOMAIN r, NEW j \in DOMAIN r, i < j PROVE r[i] < r[j]
    BY DEF Increasing
  <2>1. i \in DOMAIN s
    BY <1>1
  <2> QED BY <1>1, <1>2, <1>3, <2>1 DEF Increasing
<1> QED BY <1>1, <1>4, <1>5 DEF r

LEMMA HitWritten ==
    ASSUME NEW out, NEW gone, NEW n \in Nat, Settled(out, <<>>, gone, n)
    PROVE  Settled(Append(out, n + 1), <<>>, gone, n + 1)
<1>1. /\ out \in Seq(Nat) /\ Increasing(out) /\ Range(out) \subseteq 1..n /\ gone \subseteq 1..n
      /\ Range(out) \cup gone = 1..n /\ Range(out) \cap gone = {}
  <2>1. Range(<<>>) = {}
    BY DEF Range
  <2> QED BY <2>1 DEF Settled
<1>2. /\ Append(out, n + 1) \in Seq(Nat) /\ Increasing(Append(out, n + 1))
      /\ Range(Append(out, n + 1)) = Range(out) \cup {n + 1}
  BY <1>1, NextHitLast
<1>3. 1..(n + 1) = 1..n \cup {n + 1} /\ n + 1 \notin 1..n
  OBVIOUS
<1>4. <<>> \in Seq(Nat) /\ DOMAIN <<>> = {} /\ Range(<<>>) = {} /\ Increasing(<<>>)
  BY DEF Range, Increasing
<1> QED BY <1>1, <1>2, <1>3, <1>4 DEF Settled

LEMMA HitStored ==
    ASSUME NEW out, NEW buf, NEW gone, NEW n \in Nat, Settled(out, buf, gone, n)
    PROVE  Settled(out, Append(buf, n + 1), gone, n + 1)
<1>1. /\ buf \in Seq(Nat) /\ Increasing(buf) /\ Range(buf) \subseteq 1..n
      /\ out \in Seq(Nat) /\ Range(out) \subseteq 1..n
  BY DEF Settled
<1>2. /\ Append(buf, n + 1) \in Seq(Nat) /\ Increasing(Append(buf, n + 1))
      /\ Range(Append(buf, n + 1)) = Range(buf) \cup {n + 1}
  BY <1>1, NextHitLast
<1>3. 1..(n + 1) = 1..n \cup {n + 1} /\ n + 1 \notin 1..n
  OBVIOUS
<1>4. \A i \in DOMAIN out, j \in DOMAIN Append(buf, n + 1) : out[i] < Append(buf, n + 1)[j]
  <2> SUFFICES ASSUME NEW i \in DOMAIN out, NEW j \in DOMAIN Append(buf, n + 1)
               PROVE  out[i] < Append(buf, n + 1)[j]
    OBVIOUS
  <2>1. out[i] < n + 1
    <3>1. out[i] \in 1..n
      BY <1>1 DEF Range
    <3> QED BY <3>1
  <2>2. /\ Len(buf) \in Nat /\ DOMAIN buf = 1..Len(buf)
        /\ DOMAIN Append(buf, n + 1) = 1..(Len(buf) + 1)
        /\ \A k \in DOMAIN buf : Append(buf, n + 1)[k] = buf[k]
        /\ Append(buf, n + 1)[Len(buf) + 1] = n + 1
    BY <1>1
  <2>3. j \in DOMAIN buf \/ j = Len(buf) + 1
    BY <2>2
  <2> QED BY <2>1, <2>2, <2>3 DEF Settled
<1> QED BY <1>1, <1>2, <1>3, <1>4 DEF Settled

\* The inductive invariant of the trigger node's buffer.  Of a process that was
\* ended by the division the last hit is neither written nor held.
HitsTaken == IF phase = "crashed" THEN Len(toa) - 1 ELSE Len(toa)

BufferHolds ==
    /\ node = "trigger" =>
        /\ HitsTaken \in Nat
        /\ Settled(output, buffer, discarded, HitsTaken)
        /\ triggered => buffer = <<>>
    /\ node # "trigger" => output = <<>> /\ discarded = {}

\* process_window and the acceptance of the hit behind it.
LEMMA DecideSettles ==
    ASSUME NEW interesting \in BOOLEAN, OpenTyped, node = "trigger", phase = "read",
           BufferHolds, Decide(interesting)
    PROVE  /\ Settled(output', buffer', discarded \cup (Range(buffer) \ Range(Remembered)), Hit)
           /\ triggered' => buffer' = <<>>
           /\ \A h \in Range(buffer) \ Range(Remembered) : toa[h] + WindowTime < open.start
           /\ Range(output) \subseteq Range(output')
           /\ interesting => \A h \in 1..Len(toa) :
                h \in Range(output') \/ h \in discarded \/ toa[h] + WindowTime < open.start
<1> DEFINE n == Len(toa)
           begins == interesting /\ ~triggered
           out == IF begins THEN output \o Remembered ELSE output
           kept == IF begins THEN <<>> ELSE Remembered
           gone == discarded \cup (Range(buffer) \ Range(Remembered))
<1>1. /\ n \in Nat /\ Hit = n + 1 /\ toa \in Seq(Nat) /\ open.start \in Nat /\ DOMAIN toa = 1..n
      /\ Settled(output, buffer, discarded, n)
      /\ triggered => buffer = <<>>
  BY DEF OpenTyped, BufferHolds, HitsTaken, Hit
<1>2. /\ output' = IF triggered' THEN Append(out, Hit) ELSE out
      /\ buffer' = IF triggered' THEN kept ELSE Append(kept, Hit)
      /\ triggered' => triggered \/ interesting
  BY DEF Decide, Accept
<1>3. PICK k \in 0..Len(buffer) :
            /\ Remembered = SubSeq(buffer, k + 1, Len(buffer))
            /\ \A i \in 1..k : toa[buffer[i]] + WindowTime < open.start
  BY <1>1, RememberedIsEnd DEF Settled
<1>4. /\ Settled(output, Remembered, gone, n)
      /\ \A h \in Range(buffer) \ Range(Remembered) : toa[h] + WindowTime < open.start
      /\ buffer = <<>> => Remembered = <<>>
  <2> HIDE DEF n
  <2>1. /\ Settled(output, Remembered, gone, n)
        /\ \A h \in Range(buffer) \ Range(Remembered) : \E i \in 1..k : h = buffer[i]
        /\ buffer = <<>> => Remembered = <<>>
    BY <1>1, <1>3, EndOfBuffer
  <2> QED BY <1>3, <2>1
<1>5. Settled(out, kept, gone, n)
  <2>1. CASE begins
    BY <1>1, <1>4, <2>1, BufferWritten
  <2>2. CASE ~begins
    BY <1>4, <2>2
  <2> QED BY <2>1, <2>2
<1>6. triggered' => kept = <<>>
  BY <1>1, <1>2, <1>4
<1>7. Range(output) \subseteq Range(out)
  <2>1. CASE begins
    <3>1. output \in Seq(Nat) /\ Remembered \in Seq(Nat)
      BY <1>4 DEF Settled
    <3>2. \A i \in DOMAIN output : i \in DOMAIN (output \o Remembered) /\ (output \o Remembered)[i] = output[i]
      BY <3>1
    <3> QED BY <2>1, <3>2 DEF Range
  <2>2. CASE ~begins
    BY <2>2
  <2> QED BY <2>1, <2>2
<1>8. interesting => kept = <<>>
  BY <1>1, <1>4
<1> HIDE DEF out, kept, gone, n, begins
<1>9. \/ triggered' /\ output' = Append(out, n + 1) /\ buffer' = <<>> /\ kept = <<>>
      \/ ~triggered' /\ output' = out /\ buffer' = Append(kept, n + 1)
  BY <1>1, <1>2, <1>6
<1>10. Settled(output', buffer', gone, Hit)
  BY <1>1, <1>5, <1>9, HitWritten, HitStored
<1>11. Range(out) \subseteq Range(output')
  <2>1. out \in Seq(Nat)
    BY <1>5 DEF Settled
  <2>2. CASE output' = Append(out, n + 1)
    <3>1. \A i \in DOMAIN out : i \in DOMAIN output' /\ output'[i] = out[i]
      BY <2>1, <2>2
    <3> QED BY <3>1 DEF Range
  <2> QED BY <1>9, <2>2
<1>12. ASSUME interesting, NEW h \in 1..n
       PROVE  h \in Range(output') \/ h \in discarded \/ toa[h] + WindowTime < open.start
  <2>1. h \in Range(out) \/ h \in gone
    <3>1. Range(<<>>) = {}
      BY DEF Range
    <3> QED BY <1>5, <1>8, <1>12, <3>1 DEF Settled
  <2> QED BY <1>4, <1>11, <2>1 DEF gone
<1> QED BY <1>4, <1>7, <1>9, <1>10, <1>11, <1>12 DEF gone, n

LEMMA BufferHoldsInit == Init => BufferHolds
<1> SUFFICES ASSUME Init PROVE BufferHolds
  OBVIOUS
<1>1. phase = "read" /\ toa = <<>> /\ output = <<>> /\ buffer = <<>> /\ discarded = {}
  BY DEF Init
<1>2. HitsTaken = 0
  BY <1>1 DEF HitsTaken
<1>3. <<>> \in Seq(Nat) /\ DOMAIN <<>> = {} /\ Range(<<>>) = {}
  BY DEF Range
<1> QED BY <1>1, <1>2, <1>3 DEF BufferHolds, Settled, Increasing

LEMMA BufferHoldsStep == OpenWindow /\ BufferHolds /\ [Next]_vars => BufferHolds'
<1> SUFFICES ASSUME OpenWindow, BufferHolds, [Next]_vars PROVE BufferHolds'
  OBVIOUS
<1>0. OpenTyped
  BY DEF OpenWindow
<1>a. ASSUME NEW t \in 0..MaxToa, Arrives(t), phase' = "read"
      PROVE  /\ phase = "read" /\ HitsTaken = Len(toa) /\ HitsTaken' = Hit
             /\ Hit = Len(toa) + 1 /\ Hit \in Nat /\ Len(toa) \in Nat
  BY <1>0, <1>a, HitArrives DEF HitsTaken, Hit, OpenTyped
<1>1. ASSUME NEW t \in 0..MaxToa, AddHit(t) PROVE BufferHolds'
  <2>1. /\ Arrives(t) /\ phase' = "read" /\ node' = node
        /\ discarded' = discarded /\ triggered' = triggered
    BY <1>1 DEF AddHit, Arrives
  <2>2. CASE node = "trigger"
    <3>1. Accept(output, buffer, triggered)
      BY <1>1, <2>2 DEF AddHit
    <3>2. Settled(output, buffer, discarded, Len(toa)) /\ (triggered => buffer = <<>>)
      BY <1>a, <2>1, <2>2 DEF BufferHolds
    <3>3. CASE triggered
      <4>1. output' = Append(output, Len(toa) + 1) /\ buffer' = <<>> /\ buffer = <<>>
        BY <1>a, <2>1, <3>1, <3>2, <3>3 DEF Accept
      <4>2. Settled(output', buffer', discarded', Len(toa) + 1)
        BY <1>a, <2>1, <3>2, <4>1, HitWritten
      <4> QED BY <1>a, <2>1, <2>2, <4>1, <4>2 DEF BufferHolds
    <3>4. CASE ~triggered
      <4>1. output' = output /\ buffer' = Append(buffer, Len(toa) + 1)
        BY <1>a, <2>1, <3>1, <3>4 DEF Accept
      <4>2. Settled(output', buffer', discarded', Len(toa) + 1)
        BY <1>a, <2>1, <3>2, <4>1, HitStored
      <4> QED BY <1>a, <2>1, <2>2, <3>4, <4>2 DEF BufferHolds
    <3> QED BY <3>3, <3>4
  <2>3. CASE node # "trigger"
    BY <1>1, <2>1, <2>3 DEF AddHit, BufferHolds
  <2> QED BY <2>2, <2>3
<1>2. ASSUME NEW t \in 0..MaxToa, WriteWindow(t) PROVE BufferHolds'
  BY <1>2 DEF WriteWindow, BufferHolds
<1>3. ASSUME NEW t \in 0..MaxToa, NEW interesting \in BOOLEAN, DecideOnWindow(t, interesting)
      PROVE  BufferHolds'
  <2>1. /\ Arrives(t) /\ phase' = "read" /\ node = "trigger" /\ node' = node
        /\ Decide(interesting)
        /\ discarded' = discarded \cup (Range(buffer) \ Range(Remembered))
    BY <1>3 DEF DecideOnWindow, Arrives
  <2>2. /\ Settled(output', buffer', discarded', Hit)
        /\ triggered' => buffer' = <<>>
    BY <1>0, <1>a, <2>1, DecideSettles
  <2> QED BY <1>a, <2>1, <2>2 DEF BufferHolds
<1>4. ASSUME NEW t \in 0..MaxToa, DivideByZero(t) PROVE BufferHolds'
  <2>1. /\ Arrives(t) /\ phase = "read" /\ phase' = "crashed"
        /\ UNCHANGED <<node, triggered, buffer, output, discarded>>
    BY <1>4 DEF DivideByZero, Arrives
  <2>2. HitsTaken' = HitsTaken
    BY <1>0, <2>1, HitArrives DEF HitsTaken, OpenTyped, Hit
  <2> QED BY <2>1, <2>2 DEF BufferHolds
<1>5. CASE Close \/ Finished \/ UNCHANGED vars
  <2>1. /\ UNCHANGED <<node, toa, triggered, buffer, output, discarded>>
        /\ phase' = "crashed" <=> phase = "crashed"
    BY <1>5 DEF Close, Finished, vars
  <2>2. HitsTaken' = HitsTaken
    BY <2>1 DEF HitsTaken
  <2> QED BY <2>1, <2>2 DEF BufferHolds
<1> QED BY <1>1, <1>2, <1>3, <1>4, <1>5 DEF Next

\* A sequence in order has as many elements as it has places.
LEMMA IncreasingSize ==
    ASSUME NEW s \in Seq(Nat), Increasing(s)
    PROVE  IsFiniteSet(Range(s)) /\ Cardinality(Range(s)) = Len(s)
<1>1. /\ Len(s) \in Nat /\ DOMAIN s = 1..Len(s) /\ s \in [1..Len(s) -> Range(s)]
      /\ \A i \in 1..Len(s) : s[i] \in Nat
  BY DEF Range
<1>2. \A i, j \in 1..Len(s) : s[i] = s[j] => i = j
  <2> SUFFICES ASSUME NEW i \in 1..Len(s), NEW j \in 1..Len(s), s[i] = s[j], i < j PROVE FALSE
    BY <1>1
  <2>1. s[i] < s[j]
    BY <1>1 DEF Increasing
  <2> QED BY <1>1, <2>1
<1>3. s \in Bijection(1..Len(s), Range(s))
  BY <1>1, <1>2 DEF Bijection, Injection, IsInjective, Surjection, Range
<1>4. \A n \in Nat : IsFiniteSet(1..n) /\ Cardinality(1..n) = n
  BY FS_Interval
<1>5. ExistsBijection(1..Len(s), Range(s))
  BY <1>3 DEF ExistsBijection
<1> QED BY <1>1, <1>4, <1>5, FS_Bijection

LEMMA DisjointSize ==
    ASSUME NEW S, NEW T, IsFiniteSet(S), IsFiniteSet(T), S \cap T = {}
    PROVE  IsFiniteSet(S \cup T) /\ Cardinality(S \cup T) = Cardinality(S) + Cardinality(T)
<1>1. Cardinality(S \cap T) = 0
  BY FS_EmptySet
<1>2. Cardinality(S) \in Nat /\ Cardinality(T) \in Nat
  BY FS_CardinalityType
<1>3. IsFiniteSet(S \cup T) /\ Cardinality(S \cup T) = Cardinality(S) + Cardinality(T) - Cardinality(S \cap T)
  BY FS_Union
<1> QED BY <1>1, <1>2, <1>3

LEMMA BufferHoldsImplies == OpenWindow /\ BufferHolds => HitsSettled /\ OutputInOrder
<1> SUFFICES ASSUME OpenWindow, BufferHolds PROVE HitsSettled /\ OutputInOrder
  OBVIOUS
<1>1. HitsSettled
  <2> SUFFICES ASSUME node = "trigger", phase # "crashed"
               PROVE  /\ Len(output) + Len(buffer) + Cardinality(discarded) = Len(toa)
                      /\ Range(output) \cup Range(buffer) \cup discarded = DOMAIN toa
                      /\ triggered => buffer = <<>>
    BY DEF HitsSettled
  <2> DEFINE o == Range(output)
             b == Range(buffer)
             n == Len(toa)
  <2>1. /\ n \in Nat /\ DOMAIN toa = 1..n /\ Settled(output, buffer, discarded, n)
        /\ triggered => buffer = <<>>
    BY DEF OpenWindow, OpenTyped, BufferHolds, HitsTaken
  <2> HIDE DEF n
  <2>2. /\ IsFiniteSet(o) /\ Cardinality(o) = Len(output)
        /\ IsFiniteSet(b) /\ Cardinality(b) = Len(buffer)
    BY <2>1, IncreasingSize DEF Settled
  <2>3. o \cap b = {}
    <3> SUFFICES ASSUME NEW i \in DOMAIN output, NEW j \in DOMAIN buffer, output[i] = buffer[j]
                 PROVE  FALSE
      BY DEF Range
    <3>1. output[i] < buffer[j] /\ output[i] \in Nat
      BY <2>1 DEF Settled
    <3> QED BY <3>1
  <2>4. o \cup b \cup discarded = 1..n /\ (o \cup b) \cap discarded = {}
    BY <2>1 DEF Settled
  <2> HIDE DEF o, b
  <2>5. IsFiniteSet(1..n) /\ Cardinality(1..n) = n
    BY <2>1, FS_Interval
  <2>6. IsFiniteSet(discarded)
    <3>1. discarded \in SUBSET (1..n)
      BY <2>4
    <3> QED BY <2>5, <3>1, FS_Subset
  <2>7. IsFiniteSet(o \cup b) /\ Cardinality(o \cup b) = Cardinality(o) + Cardinality(b)
    BY <2>2, <2>3, DisjointSize
  <2>8. n = Cardinality(o \cup b) + Cardinality(discarded)
    BY <2>4, <2>5, <2>6, <2>7, DisjointSize
  <2> QED BY <2>1, <2>2, <2>4, <2>7, <2>8 DEF o, b, n
<1>2. OutputInOrder
  <2>1. output \in Seq(Nat) /\ Increasing(output)
    <3>1. CASE node = "trigger"
      BY <3>1 DEF BufferHolds, Settled
    <3>2. CASE node # "trigger"
      BY <3>2 DEF BufferHolds, Increasing
    <3> QED BY <3>1, <3>2
  <2>2. \A i \in 1..(Len(output) - 1) : i \in DOMAIN output /\ i + 1 \in DOMAIN output /\ i < i + 1
    BY <2>1
  <2> QED BY <2>1, <2>2 DEF OutputInOrder, Increasing
<1> QED BY <1>1, <1>2

-----------------------------------------------------------------------------
\* The inductive invariant of the history: the hits are in time order, what was
\* forgotten lies more than a window before the open one, and every window that was
\* found interesting has passed.
HistoryHolds ==
    /\ \A i, j \in DOMAIN toa : i <= j => toa[i] <= toa[j]
    /\ \A h \in discarded : toa[h] + WindowTime < open.start
    /\ \A s \in found : s \in Nat /\ toa # <<>> /\ s + WindowTime < toa[Len(toa)]
    /\ HistoryWritten

\* A hit that arrives is not before any hit, and past every interesting window.
LEMMA ArrivesLast ==
    ASSUME OpenTyped, HistoryHolds, NEW t \in 0..MaxToa, Arrives(t)
    PROVE  /\ t \in Nat /\ DOMAIN toa = 1..Len(toa) /\ Len(toa) \in Nat
           /\ DOMAIN toa' = 1..(Len(toa) + 1) /\ Len(toa') = Len(toa) + 1
           /\ toa' # <<>> /\ toa'[Len(toa')] = t
           /\ \A h \in DOMAIN toa : toa[h] \in Nat /\ toa'[h] = toa[h]
           /\ \A i, j \in DOMAIN toa' : i <= j => toa'[i] <= toa'[j]
           /\ \A s \in found : s \in Nat /\ s + WindowTime < t
<1>1. /\ toa \in Seq(Nat) /\ toa' \in Seq(Nat) /\ DOMAIN toa = 1..Len(toa) /\ Len(toa) \in Nat
      /\ DOMAIN toa' = 1..Len(toa') /\ \A h \in DOMAIN toa : toa[h] \in Nat
  BY HitArrives DEF OpenTyped
<1>2. /\ t \in Nat /\ DOMAIN toa' = 1..(Len(toa) + 1) /\ toa'[Len(toa) + 1] = t
      /\ Len(toa') = Len(toa) + 1 /\ toa' # <<>>
      /\ \A i \in DOMAIN toa : toa'[i] = toa[i]
      /\ toa # <<>> => toa[Len(toa)] <= t
  BY <1>1, HitArrives DEF Hit
<1>3. \A h \in DOMAIN toa : toa[h] <= t
  <2> SUFFICES ASSUME NEW h \in DOMAIN toa PROVE toa[h] <= t
    OBVIOUS
  <2>1. toa # <<>> /\ Len(toa) \in DOMAIN toa /\ h <= Len(toa)
    BY <1>1
  <2>2. toa[h] <= toa[Len(toa)]
    BY <2>1 DEF HistoryHolds
  <2> QED BY <1>1, <1>2, <2>1, <2>2
<1>4. \A i, j \in DOMAIN toa' : i <= j => toa'[i] <= toa'[j]
  <2> SUFFICES ASSUME NEW i \in DOMAIN toa', NEW j \in DOMAIN toa', i <= j PROVE toa'[i] <= toa'[j]
    OBVIOUS
  <2>1. CASE j \in DOMAIN toa
    <3>1. i \in DOMAIN toa
      BY <1>1, <1>2, <2>1
    <3> QED BY <1>2, <2>1, <3>1 DEF HistoryHolds
  <2>2. CASE j = Len(toa) + 1
    <3>1. toa'[j] = t
      BY <1>2, <2>2
    <3>2. i \in DOMAIN toa \/ i = j
      BY <1>1, <1>2, <2>2
    <3> QED BY <1>2, <1>3, <3>1, <3>2
  <2> QED BY <1>1, <1>2, <2>1, <2>2
<1>5. \A s \in found : s \in Nat /\ s + WindowTime < t
  <2> SUFFICES ASSUME NEW s \in found PROVE s \in Nat /\ s + WindowTime < t
    OBVIOUS
  <2>1. s \in Nat /\ Len(toa) \in DOMAIN toa /\ s + WindowTime < toa[Len(toa)]
    BY <1>1 DEF HistoryHolds
  <2>2. toa[Len(toa)] \in Nat /\ toa[Len(toa)] <= t
    BY <1>1, <1>3, <2>1
  <2> QED BY <1>2, <2>1, <2>2, WindowAssumption
<1> QED BY <1>1, <1>2, <1>4, <1>5

\* What a step may do to keep it: a hit arrives or none, and what was written stays.
LEMMA HistoryKept ==
    ASSUME OpenTyped, OpenTyped', HistoryHolds, BufferHolds,
           (\E t \in 0..MaxToa : Arrives(t)) \/ toa' = toa,
           Range(output) \subseteq Range(output'),
           open'.start >= open.start, discarded' = discarded, found' = found
    PROVE  HistoryHolds'
<1>1. /\ toa \in Seq(Nat) /\ toa' \in Seq(Nat) /\ DOMAIN toa = 1..Len(toa) /\ Len(toa) \in Nat
      /\ open.start \in Nat /\ open'.start \in Nat
      /\ DOMAIN toa' = 1..Len(toa') /\ \A h \in DOMAIN toa : toa[h] \in Nat
  BY DEF OpenTyped
<1>2. CASE toa' = toa
  <2>1. discarded \subseteq DOMAIN toa
    BY <1>1 DEF BufferHolds, HitsTaken, Settled
  <2>2. \A h \in discarded : toa'[h] + WindowTime < open'.start
    BY <1>1, <1>2, <2>1, WindowAssumption DEF HistoryHolds
  <2> QED BY <1>2, <2>2 DEF HistoryHolds, HistoryWritten
<1>3. CASE \E t \in 0..MaxToa : Arrives(t)
  <2>1. PICK t \in 0..MaxToa : Arrives(t)
    BY <1>3
  <2>2. /\ t \in Nat /\ DOMAIN toa' = 1..(Len(toa) + 1) /\ Len(toa') = Len(toa) + 1
        /\ toa' # <<>> /\ toa'[Len(toa')] = t
        /\ \A i \in DOMAIN toa : toa'[i] = toa[i]
        /\ \A i, j \in DOMAIN toa' : i <= j => toa'[i] <= toa'[j]
        /\ \A s \in found : s \in Nat /\ s + WindowTime < t
    BY <2>1, ArrivesLast
  <2>5. discarded \subseteq DOMAIN toa
    BY <1>1 DEF BufferHolds, HitsTaken, Settled
  <2>6. \A h \in discarded : toa'[h] + WindowTime < open'.start
    BY <1>1, <2>2, <2>5, WindowAssumption, SMTT(30) DEF HistoryHolds
  <2>8. HistoryWritten'
    <3> SUFFICES ASSUME NEW s \in found, NEW h \in DOMAIN toa',
                        s - WindowTime <= toa'[h], toa'[h] <= s + WindowTime
                 PROVE  h \in Range(output')
      BY DEF HistoryWritten
    <3>1. h # Len(toa')
      BY <1>1, <2>2, WindowAssumption
    <3>2. h \in DOMAIN toa /\ toa'[h] = toa[h]
      BY <1>1, <2>2, <3>1
    <3> QED BY <3>2 DEF HistoryHolds, HistoryWritten
  <2> QED BY <2>2, <2>6, <2>8 DEF HistoryHolds
<1> QED BY <1>2, <1>3

LEMMA HistoryHoldsInit == Init => HistoryHolds
BY DEF Init, HistoryHolds, HistoryWritten

LEMMA HistoryHoldsStep ==
    OpenWindow /\ OpenWindow' /\ BufferHolds /\ HistoryHolds /\ [Next]_vars => HistoryHolds'
<1> SUFFICES ASSUME OpenWindow, OpenWindow', BufferHolds, HistoryHolds, [Next]_vars
             PROVE  HistoryHolds'
  OBVIOUS
<1>0. OpenTyped /\ OpenTyped' /\ open.start \in Nat
  BY DEF OpenWindow, OpenTyped
<1>1. ASSUME NEW t \in 0..MaxToa, AddHit(t) PROVE HistoryHolds'
  <2>1. /\ Arrives(t) /\ open' = Updated(open, Hit, t) /\ found' = found /\ discarded' = discarded
        /\ output' = output \/ output' = Append(output, Hit)
    BY <1>1 DEF AddHit, Accept
  <2>2. open'.start = open.start
    BY <1>0, <2>1 DEF Updated, OpenTyped
  <2>3. Range(output) \subseteq Range(output')
    <3>1. output \in Seq(Nat)
      <4>1. <<>> \in Seq(Nat)
        OBVIOUS
      <4> QED BY <4>1 DEF BufferHolds, Settled
    <3>2. \A i \in DOMAIN output : i \in DOMAIN output' /\ output'[i] = output[i]
      BY <2>1, <3>1
    <3> QED BY <3>2 DEF Range
  <2> QED BY <1>0, <2>1, <2>2, <2>3, HistoryKept
<1>2. ASSUME NEW t \in 0..MaxToa, WriteWindow(t) PROVE HistoryHolds'
  <2> DEFINE v == Moved(EmptyCount(t) + 1)
  <2>1. /\ Arrives(t) /\ ~CanAdd(t) /\ open' = Updated(v, Hit, t)
        /\ UNCHANGED <<output, discarded, found>>
    BY <1>2 DEF WriteWindow
  <2>2. v \in Windows /\ v.start = open.start + (EmptyCount(t) + 1) * WindowTime /\ EmptyCount(t) \in Nat
    BY <2>1, NewWindowTyped
  <2> HIDE DEF v
  <2>3. open'.start = v.start
    BY <2>1, <2>2 DEF Updated, Windows
  <2>4. open'.start >= open.start
    BY <1>0, <2>2, <2>3, WindowAssumption
  <2> QED BY <1>0, <2>1, <2>4, HistoryKept
<1>3. ASSUME NEW t \in 0..MaxToa, NEW interesting \in BOOLEAN, DecideOnWindow(t, interesting)
      PROVE  HistoryHolds'
  <2>1. /\ Arrives(t) /\ ~CanAdd(t) /\ node = "trigger" /\ phase = "read"
        /\ Decide(interesting)
        /\ open' = Moved(EmptyCount(t) + 1)
        /\ discarded' = discarded \cup (Range(buffer) \ Range(Remembered))
        /\ found' = IF interesting THEN found \cup {open.start} ELSE found
    BY <1>3 DEF DecideOnWindow, Arrives, Decide
  <2>2. /\ \A h \in Range(buffer) \ Range(Remembered) : toa[h] + WindowTime < open.start
        /\ Range(output) \subseteq Range(output')
        /\ interesting => \A h \in 1..Len(toa) :
                h \in Range(output') \/ h \in discarded \/ toa[h] + WindowTime < open.start
    BY <1>0, <2>1, DecideSettles
  <2>3. open'.start >= open.start /\ open'.start \in Nat
    <3>1. open'.start = open.start + (EmptyCount(t) + 1) * WindowTime /\ EmptyCount(t) \in Nat
      BY <2>1, NewWindowTyped
    <3> QED BY <1>0, <3>1, WindowAssumption
  <2>4. /\ t \in Nat /\ DOMAIN toa = 1..Len(toa) /\ Len(toa) \in Nat
        /\ DOMAIN toa' = 1..(Len(toa) + 1) /\ Len(toa') = Len(toa) + 1
        /\ toa' # <<>> /\ toa'[Len(toa')] = t
        /\ \A h \in DOMAIN toa : toa[h] \in Nat /\ toa'[h] = toa[h]
        /\ \A i, j \in DOMAIN toa' : i <= j => toa'[i] <= toa'[j]
        /\ \A s \in found : s \in Nat /\ s + WindowTime < t
    BY <1>0, <2>1, ArrivesLast
  <2>5. open.start + WindowTime < t
    BY <1>0, <2>1, <2>4, WindowAssumption DEF CanAdd
  <2>6. \A s \in found' : s \in Nat /\ s + WindowTime < t
    BY <1>0, <2>1, <2>4, <2>5
  <2>7. \A h \in discarded' : h \in 1..Len(toa) /\ toa[h] + WindowTime < open.start
    <3>1. discarded \cup Range(buffer) \subseteq 1..Len(toa)
      BY <2>1, <2>4 DEF BufferHolds, HitsTaken, Settled
    <3> QED BY <2>1, <2>2, <3>1 DEF HistoryHolds
  <2>8. \A h \in discarded' : toa'[h] + WindowTime < open'.start
    <3> SUFFICES ASSUME NEW h \in discarded' PROVE toa'[h] + WindowTime < open'.start
      OBVIOUS
    <3>1. toa'[h] = toa[h] /\ toa[h] \in Nat /\ toa[h] + WindowTime < open.start
      BY <2>4, <2>7
    <3> QED BY <1>0, <2>3, <3>1, WindowAssumption
  <2>9. HistoryWritten'
    <3> SUFFICES ASSUME NEW s \in found', NEW h \in DOMAIN toa',
                        s - WindowTime <= toa'[h], toa'[h] <= s + WindowTime
                 PROVE  h \in Range(output')
      BY DEF HistoryWritten
    <3>1. h # Len(toa')
      BY <2>4, <2>6, WindowAssumption
    <3>2. h \in 1..Len(toa) /\ toa'[h] = toa[h] /\ toa[h] \in Nat
      BY <2>4, <3>1
    <3>3. CASE s \in found
      BY <2>2, <2>4, <3>2, <3>3 DEF HistoryHolds, HistoryWritten
    <3>4. CASE interesting /\ s = open.start
      <4>1. ~(toa[h] + WindowTime < open.start)
        BY <1>0, <3>2, <3>4, WindowAssumption
      <4>2. h \notin discarded
        BY <4>1 DEF HistoryHolds
      <4> QED BY <2>2, <3>2, <3>4, <4>1, <4>2
    <3> QED BY <2>1, <3>3, <3>4
  <2> QED BY <2>4, <2>6, <2>8, <2>9 DEF HistoryHolds
<1>4. ASSUME NEW t \in 0..MaxToa, DivideByZero(t) PROVE HistoryHolds'
  <2>1. Arrives(t) /\ UNCHANGED <<open, output, discarded, found>>
    BY <1>4 DEF DivideByZero
  <2> QED BY <1>0, <2>1, HistoryKept
<1>5. CASE Close \/ Finished \/ UNCHANGED vars
  <2>1. UNCHANGED <<toa, open, output, discarded, found>>
    BY <1>5 DEF Close, Finished, vars
  <2> QED BY <1>0, <2>1, HistoryKept
<1> QED BY <1>1, <1>2, <1>3, <1>4, <1>5 DEF Next

\* The trigger node writes, holds or has forgotten each hit, exactly one of these,
\* and holds none while it is triggered.
THEOREM TriggerHitsSettled == Spec => []HitsSettled
<1>1. OpenWindow /\ OpenWindow' /\ BufferHolds /\ [Next]_vars => BufferHolds'
  BY BufferHoldsStep
<1>2. OpenWindow /\ BufferHolds => HitsSettled
  BY BufferHoldsImplies
<1> QED BY WindowInvariant, BufferHoldsInit, <1>1, <1>2, PTL DEF Spec

\* The trigger node writes hits in the order they came, across all changes between
\* triggered and not.
THEOREM TriggerOutputInOrder == Spec => []OutputInOrder
<1>1. OpenWindow /\ OpenWindow' /\ BufferHolds /\ [Next]_vars => BufferHolds'
  BY BufferHoldsStep
<1>2. OpenWindow /\ BufferHolds => OutputInOrder
  BY BufferHoldsImplies
<1> QED BY WindowInvariant, BufferHoldsInit, <1>1, <1>2, PTL DEF Spec

\* Every hit in an interesting window or up to a window's length before it is
\* written, also when it lies in a window that did not trigger.
THEOREM TriggerHistoryWritten == Spec => []HistoryWritten
<1>1. OpenWindow /\ OpenWindow' /\ BufferHolds /\ [Next]_vars => BufferHolds'
  BY BufferHoldsStep
<1>2. OpenWindow /\ OpenWindow' /\ BufferHolds /\ HistoryHolds /\ [Next]_vars => HistoryHolds'
  BY HistoryHoldsStep
<1>3. HistoryHolds => HistoryWritten
  BY DEF HistoryHolds
<1> QED BY WindowInvariant, BufferHoldsInit, HistoryHoldsInit, <1>1, <1>2, <1>3, PTL DEF Spec
=============================================================================
