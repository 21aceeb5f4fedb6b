---------------------------- MODULE BorderMerging ----------------------------
(***************************************************************************)
(* The computations of cluster_merging: when two clusters can be merged,   *)
(* and what becomes of the deque of waiting clusters.  An entry of the     *)
(* deque (bb_cluster) has the hits of its cluster, their first and last    *)
(* toa, their bounding box if it is on a border, and the distance to the   *)
(* border cluster before it.  A cluster is the sequence of its hits.       *)
(***************************************************************************)
EXTENDS Clustering, Sequences, SequencesExt

CONSTANT MaxTimespan        \* MAX_CLUSTER_TIMESPAN

MergeTime == MaxDt          \* merge_time is the clusterers' max_dt argument

ASSUME MergingAssumption ==
    /\ MaxTimespan \in Nat
    /\ TileSize = 1         \* the merger knows no tiles

\* The elements of a sequence at the places in P, in order.
Kept(s, P) ==
    LET kept[n \in 0..Len(s)] ==
          IF n = 0 THEN <<>>
          ELSE IF n \in P THEN Append(kept[n - 1], s[n]) ELSE kept[n - 1]
    IN  kept[Len(s)]

FirstOf(c) == FirstToa(Range(c))
LastOf(c) == LastToa(Range(c))

Least(S) == CHOOSE n \in S : \A m \in S : n <= m
Greatest(S) == CHOOSE n \in S : \A m \in S : m <= n

\* compute_bb: the bounding box, one pixel larger on each side if the sensor is.
Box(c) ==
    LET xs == {h.x : h \in Range(c)}
        ys == {h.y : h \in Range(c)}
        down(n) == IF n = 0 THEN 0 ELSE n - 1
        up(n) == IF n = Width - 1 THEN n ELSE n + 1
    IN  [left |-> down(Least(xs)), top |-> down(Least(ys)),
         right |-> up(Greatest(xs)), bottom |-> up(Greatest(ys))]

\* The box of a cluster that never had one computed overlaps with no box.
NoBox == [left |-> Width, top |-> Width, right |-> 0, bottom |-> 0]

Overlap(a, b) ==
    /\ a.left <= b.right /\ b.left <= a.right
    /\ a.top <= b.bottom /\ b.top <= a.bottom

Inside(h, b) == h.x \in b.left..b.right /\ h.y \in b.top..b.bottom

\* are_spatially_neighboring: the larger cluster's hits are entered in a matrix
\* with one toa for a pixel, the last entered; one of the smaller cluster's hits
\* has to find a toa near its own next to it.
SpatiallyNeighboring(a, b) ==
    LET inBoth(h) == Inside(h, a.box) /\ Inside(h, b.box)
        larger == IF Len(a.hits) < Len(b.hits) THEN b.hits ELSE a.hits
        smaller == IF Len(a.hits) < Len(b.hits) THEN a.hits ELSE b.hits
        samePixel(g, h) == g.x = h.x /\ g.y = h.y
        entered == {i \in DOMAIN larger :
                      /\ inBoth(larger[i])
                      /\ \A j \in DOMAIN larger : j > i => ~samePixel(larger[i], larger[j])}
    IN  \E h \in Range(smaller), i \in entered :
            /\ inBoth(h)
            /\ Touching(larger[i], h)
            /\ Abs(larger[i].toa - h.toa) < MergeTime

\* can_merge: the quick test on time, then that on the boxes, then the full one.
FarApartInTime(a, b) ==
    /\ Abs(a.first - b.last) > MergeTime
    /\ Abs(a.last - b.first) > MergeTime

\* Definitions under a comment "seeded bug" are not the code's: each is what a
\* definition below it would be with a mistake in it, which a property detects.

\* Seeded bug in CanMerge: overlapping boxes are taken for neighboring clusters.
CanMergeByBox(a, b) == ~FarApartInTime(a, b) /\ Overlap(a.box, b.box)

CanMerge(a, b) ==
    /\ ~FarApartInTime(a, b)
    /\ Overlap(a.box, b.box)
    /\ SpatiallyNeighboring(a, b)

\* bb_cluster: with a box computed, the entry is a border cluster.
Entry(c, offset, border) ==
    [hits |-> c, first |-> FirstOf(c), last |-> LastOf(c),
     box |-> IF border THEN Box(c) ELSE NoBox,
     border |-> border, offset |-> offset, valid |-> TRUE]

\* bb_cluster::merge_with
MergeWith(a, b) ==
    [a EXCEPT !.hits = @ \o b.hits,
              !.first = Least({@, b.first}),
              !.last = Greatest({@, b.last}),
              !.box = [left |-> Least({@.left, b.box.left}),
                       top |-> Least({@.top, b.box.top}),
                       right |-> Greatest({@.right, b.box.right}),
                       bottom |-> Greatest({@.bottom, b.box.bottom})]]

-----------------------------------------------------------------------------
\* The places of the deque a search from its end visits: the distance to the
\* last border cluster is bordering_offset, from there on each entry has its own.
\* 0 is before the first one.
Chain(deque, offset) ==
    LET back(i, d) == IF d < i THEN i - d ELSE 0
        place[n \in 0..Len(deque)] ==
          IF n = 0 THEN back(Len(deque) + 1, offset)
          ELSE LET i == place[n - 1]
               IN  IF i = 0 THEN 0 ELSE back(i, deque[i].offset)
    IN  {place[n] : n \in 0..Len(deque)} \ {0}

\* process_border_cluster's loop: the places of the clusters to merge with. It
\* stops at a cluster that began too long ago.
MergeIndices(deque, new) ==
    LET chain == Chain(deque, new.offset)
        tooOld(i) == /\ deque[i].valid
                     /\ deque[i].first < new.first - (MaxTimespan + MergeTime)
    IN  {i \in chain : /\ \A j \in chain : i <= j => ~tooOld(j)
                       /\ deque[i].valid
                       /\ CanMerge(deque[i], new)}

\* The first entry of the found ones merged with the new one, then with the others,
\* the latest first.
MergedEntry(deque, new, found) ==
    LET oldest == Least(found)
        merged[n \in 0..Len(deque)] ==
          IF n = 0 THEN MergeWith(deque[oldest], new)
          ELSE LET i == Len(deque) + 1 - n
               IN  IF i \in found \ {oldest} THEN MergeWith(merged[n - 1], deque[i])
                   ELSE merged[n - 1]
    IN  merged[Len(deque)]

\* Seeded bug in WithBorder: the other matches stay valid.
WithBorderUninvalidated(deque, offset, c) ==
    LET new == Entry(c, offset, TRUE)
        found == MergeIndices(deque, new)
    IN  IF found = {} THEN Append(deque, new)
        ELSE [deque EXCEPT ![Least(found)] = MergedEntry(deque, new, found)]

\* The deque after a border cluster was placed in it: at its end, or merged with
\* the oldest match, which then takes the hits of the other matches as well.
WithBorder(deque, offset, c) ==
    LET new == Entry(c, offset, TRUE)
        found == MergeIndices(deque, new)
    IN  IF found = {} THEN Append(deque, new)
        ELSE [i \in DOMAIN deque |->
                IF i = Least(found) THEN MergedEntry(deque, new, found)
                ELSE IF i \in found THEN [deque[i] EXCEPT !.valid = FALSE]
                ELSE deque[i]]

\* write_old_clusters: how many entries leave the front of the deque.  Invalid
\* and inner clusters do not wait.
Leaving(deque, toa) ==
    LET stays(e) == e.valid /\ e.border /\ ~(e.last < toa - MergeTime)
        staying == {i \in DOMAIN deque : stays(deque[i])}
    IN  IF staying = {} THEN Len(deque) ELSE Least(staying) - 1

\* What is written of entries that leave: the hits of the valid ones.
WrittenOf(entries) ==
    LET all == [i \in DOMAIN entries |-> entries[i].hits]
    IN  Kept(all, {i \in DOMAIN entries : entries[i].valid})
=============================================================================
