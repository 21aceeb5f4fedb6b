---------------------------- MODULE ClusterMerger ----------------------------
(***************************************************************************)
(* The cluster_merging nodes behind the clusterers of all lanes.  The hits *)
(* were split over the lanes by slices of time, so a cluster that crosses  *)
(* the end of a slice comes out of two lanes in two parts.  A merger reads *)
(* clusters in the order of their first toa, keeps those near the end of a *)
(* slice ("on the border") until nothing can be merged with them any more, *)
(* and merges the ones that touch in space and time.  Inner clusters queue *)
(* behind waiting border clusters so that the output stays in order.       *)
(*                                                                         *)
(* PAR_SIMPLE_MERGER has one merger behind all lanes.  PAR_LINEAR_MERGER,  *)
(* the default, has one per lane: lane i sends a cluster to merger i or to *)
(* the next one, depending on the half of the slice it begins in, so that  *)
(* both sides of an end of a slice meet in one merger; a combiner (see     *)
(* ParallelDataflow) puts the outputs of the mergers together in order.    *)
(*                                                                         *)
(* What the lanes deliver is computed by the clustering rule (Joins, see   *)
(* OnlineClustering) from a stream of hits that a lane clusterer would     *)
(* read; how it gets here is ParallelDataflow's business.  Times are whole *)
(* nanoseconds, so llround, which every use of them goes through, rounds   *)
(* nothing.                                                                *)
(***************************************************************************)
EXTENDS BorderMerging

CONSTANTS Lanes,            \* n_workers
          SwitchLen,        \* SWITCH_INTERVAL_LEN
          Epsilon,          \* EPSILON_BORDER_TIME
          Times,            \* the sequences of toas considered, in time order
          Pixels            \* i -> the pixels <<x, y>> the i-th hit may have

ASSUME MergerAssumption ==
    /\ Lanes \in Nat \ {0, 1}       \* a single lane needs no merger
    /\ SwitchLen \in Nat \ {0}
    /\ Epsilon \in Nat /\ MaxDt <= Epsilon
    /\ \A t \in Times :
          /\ t \in Seq(Nat) /\ DOMAIN t \subseteq DOMAIN Pixels
          /\ \A i, j \in DOMAIN t : i <= j => t[i] <= t[j]
    /\ \A i \in DOMAIN Pixels : Pixels[i] \subseteq (0..(Width - 1)) \X (0..(Width - 1))

VARIABLES arch,             \* the architecture (never changes)
          hits,             \* the stream of hits (never changes)
          pipes,            \* merger -> lane -> the clusters still to be read
          unfinished,       \* merger -> unfinished_border_clusters_
          borderingOffset,  \* merger -> bordering_offset
          output,           \* merger -> the clusters written
          closed            \* merger -> start() has returned

vars == <<arch, hits, pipes, unfinished, borderingOffset, output, closed>>

Lane == 1..Lanes
Architectures == {"simple", "linear"}
Mergers == IF arch = "simple" THEN {1} ELSE Lane

-----------------------------------------------------------------------------
\* temporal_hit_split_descriptor::get_pipe_index
PipeIndex(h) == ((h.toa % (Lanes * SwitchLen)) \div SwitchLen) + 1

\* A list of clusters put in one cluster.
Together(cs) ==
    LET put[n \in 0..Len(cs)] == IF n = 0 THEN <<>> ELSE put[n - 1] \o cs[n]
    IN  put[Len(cs)]

\* The open clusters after one more hit: those it joins become one with it.
WithHit(open, h) ==
    LET joined == {i \in DOMAIN open : Joins(h, Range(open[i]))}
        others == DOMAIN open \ joined
        grown == Append(Together(Kept(open, joined)), h)
    IN  IF joined = {} THEN Append(open, grown)
        ELSE Kept([open EXCEPT ![Least(joined)] = grown], others \cup {Least(joined)})

\* The clusters a lane's clusterer makes of its hits, in the order it writes
\* them: that of the list, in which a merged cluster keeps the place and the
\* first hits of the oldest one.
LaneClusters(hs) ==
    LET open[n \in 0..Len(hs)] ==
          IF n = 0 THEN <<>> ELSE WithHit(open[n - 1], hs[n])
    IN  open[Len(hs)]

Delivered(hs) ==
    [i \in Lane |-> LaneClusters(Kept(hs, {k \in DOMAIN hs : PipeIndex(hs[k]) = i}))]

\* Seeded bug in SendsTo: without a descriptor, a lane writes to its first output.
SendsToFirst(a, i, c) == IF a = "simple" THEN 1 ELSE i

\* The merger lane i sends cluster c to: clustering_two_split_descriptor's index
\* of the lane's two outputs, which go to its own merger and to the next.
SendsTo(a, i, c) ==
    CASE a = "simple"                                 -> 1
      [] a = "linear" /\ FirstOf(c) % SwitchLen < SwitchLen \div 2 -> i
      [] OTHER                                        -> (i % Lanes) + 1

\* temporal_clustering_descriptor::is_on_border
IsOnBorder(c) ==
    LET near(t) == \/ t % SwitchLen < Epsilon
                   \/ t % SwitchLen > SwitchLen - Epsilon
    IN  near(FirstOf(c)) \/ near(LastOf(c)) \/ LastOf(c) - FirstOf(c) > SwitchLen

-----------------------------------------------------------------------------
Init ==
    /\ arch \in Architectures
    /\ \E t \in Times :
         \E p \in [DOMAIN t -> UNION {Pixels[i] : i \in DOMAIN t}] :
            /\ \A i \in DOMAIN t : p[i] \in Pixels[i]
            /\ hits = [i \in DOMAIN t |->
                         [id |-> i, x |-> p[i][1], y |-> p[i][2], toa |-> t[i]]]
    /\ \E delivered \in {Delivered(hits)} :
         pipes = [m \in Lane |-> [i \in Lane |->
                    Kept(delivered[i],
                         {k \in DOMAIN delivered[i] : SendsTo(arch, i, delivered[i][k]) = m})]]
    /\ unfinished = [m \in Lane |-> <<>>]
    /\ borderingOffset = [m \in Lane |-> 1]
    /\ output = [m \in Lane |-> <<>>]
    /\ closed = [m \in Lane |-> FALSE]

\* multi_pipe_reader::read: the earliest of the pipes' next clusters.
IsEarliest(m, i) ==
    /\ pipes[m][i] # <<>>
    /\ \A j \in Lane : pipes[m][j] # <<>> =>
            \/ FirstOf(Head(pipes[m][i])) < FirstOf(Head(pipes[m][j]))
            \/ FirstOf(Head(pipes[m][i])) = FirstOf(Head(pipes[m][j])) /\ i <= j

Read(m, i) ==
    /\ m \in Mergers
    /\ IsEarliest(m, i)
    /\ pipes' = [pipes EXCEPT ![m][i] = Tail(@)]
    /\ UNCHANGED <<arch, hits, closed>>

\* The first n entries of merger m's deque leave it.
WriteFront(m, deque, n) ==
    /\ unfinished' = [unfinished EXCEPT ![m] = SubSeq(deque, n + 1, Len(deque))]
    /\ output' = [output EXCEPT ![m] = @ \o WrittenOf(SubSeq(deque, 1, n))]

\* Seeded bug in ProcessBorder: the offset is not reset.
ProcessBorderNoReset(m, i) ==
    /\ Read(m, i)
    /\ LET c == Head(pipes[m][i])
           deque == WithBorder(unfinished[m], borderingOffset[m], c)
       IN  IsOnBorder(c) /\ WriteFront(m, deque, Leaving(deque, FirstOf(c)))
    /\ UNCHANGED borderingOffset

\* process_cluster, for a cluster on the border.
ProcessBorder(m, i) ==
    /\ Read(m, i)
    /\ LET c == Head(pipes[m][i])
           deque == WithBorder(unfinished[m], borderingOffset[m], c)
       IN  IsOnBorder(c) /\ WriteFront(m, deque, Leaving(deque, FirstOf(c)))
    /\ borderingOffset' = [borderingOffset EXCEPT ![m] = 1]

\* Seeded bug in ProcessInner: inner clusters do not wait.
ProcessInnerAtOnce(m, i) ==
    /\ Read(m, i)
    /\ LET c == Head(pipes[m][i])
       IN  ~IsOnBorder(c) /\ output' = [output EXCEPT ![m] = Append(@, c)]
    /\ borderingOffset' = [borderingOffset EXCEPT ![m] = @ + 1]
    /\ UNCHANGED unfinished

\* For an inner cluster: it waits behind the border clusters, if there are any,
\* or is written at once.
ProcessInner(m, i) ==
    /\ Read(m, i)
    /\ LET c == Head(pipes[m][i])
           deque == Append(unfinished[m], Entry(c, borderingOffset[m], FALSE))
       IN  /\ ~IsOnBorder(c)
           /\ IF unfinished[m] # <<>>
              THEN WriteFront(m, deque, Leaving(deque, FirstOf(c)))
              ELSE /\ output' = [output EXCEPT ![m] = Append(@, c)]
                   /\ UNCHANGED unfinished
    /\ borderingOffset' = [borderingOffset EXCEPT ![m] = @ + 1]

\* All lanes have ended: write_remaining_clusters, then the end token.
End(m) ==
    /\ m \in Mergers
    /\ ~closed[m]
    /\ \A i \in Lane : pipes[m][i] = <<>>
    /\ WriteFront(m, unfinished[m], Len(unfinished[m]))
    /\ closed' = [closed EXCEPT ![m] = TRUE]
    /\ UNCHANGED <<arch, hits, pipes, borderingOffset>>

AllClosed == \A m \in Mergers : closed[m]

Finished == AllClosed /\ UNCHANGED vars

Next ==
    \/ \E m, i \in Lane : ProcessBorder(m, i) \/ ProcessInner(m, i)
    \/ \E m \in Lane : End(m)
    \/ Finished

Spec == Init /\ [][Next]_vars

-----------------------------------------------------------------------------
TypeOK ==
    /\ arch \in Architectures
    /\ \A m, i \in Lane : \A k \in DOMAIN pipes[m][i] :
            Range(pipes[m][i][k]) \subseteq Range(hits)
    /\ \A m \in Lane : \A i \in DOMAIN unfinished[m] :
            /\ unfinished[m][i].offset \in Nat \ {0}
            /\ {unfinished[m][i].border, unfinished[m][i].valid} \subseteq BOOLEAN
    /\ borderingOffset \in [Lane -> Nat \ {0}]
    /\ closed \in [Lane -> BOOLEAN]

\* The clusters that wait in merger m, and those written.
Waiting(m) == {i \in DOMAIN unfinished[m] : unfinished[m][i].valid}
Written == UNION {Range(output[m]) : m \in Lane}

\* The clusters merger m has at place p: in front of it those of each lane, at
\* place 0 those that wait, and behind the lanes those written.
Holds(m, p) ==
    CASE p = 0       -> [i \in Waiting(m) |-> unfinished[m][i].hits]
      [] p \in Lane -> pipes[m][p]
      [] OTHER       -> output[m]

\* Merging moves hits between clusters and invalidates the ones it empties. No
\* hit is lost or doubled by that: each is in exactly one cluster, still to be
\* read, waiting or written.
HitsConserved ==
    LET labels == UNION {{<<m, p, i>> : i \in DOMAIN Holds(m, p)} :
                            m \in Lane, p \in 0..(Lanes + 1)}
        held == [l \in labels |-> Holds(l[1], l[2])[l[3]]]
    IN  /\ UNION {Range(held[l]) : l \in labels} = Range(hits)
        /\ \A l, r \in labels : \A j \in DOMAIN held[l], k \in DOMAIN held[r] :
              held[l][j] = held[r][k] => l = r /\ j = k

\* Each merger's output is in the order of the first toa, "in order to preserve
\* time orderedness" of inner and border clusters; the combiner relies on it.
OutputSorted ==
    \A m \in Lane : \A i, j \in DOMAIN output[m] :
        i <= j => FirstOf(output[m][i]) <= FirstOf(output[m][j])

\* The chain of bordering offsets from the end of a deque passes every border
\* cluster in it, whatever was merged, invalidated and removed in between.
ChainReachesBorders ==
    \A m \in Lane : {i \in DOMAIN unfinished[m] : unfinished[m][i].border}
                        \subseteq Chain(unfinished[m], borderingOffset[m])

-----------------------------------------------------------------------------
\* Two hits that belong together: touching pixels, less than MergeTime apart.
Close(g, h) == Touching(g, h) /\ Abs(g.toa - h.toa) < MergeTime

\* A set of hits that links between hits that belong together or are in the
\* same of the parts hold together.
Connected(c, parts) ==
    \A some \in (SUBSET c) \ {{}, c} :
        \E g \in some, h \in c \ some : Close(g, h) \/ \E p \in parts : {g, h} \subseteq p

\* What the lanes deliver, each cluster as a set of hits.
Parts ==
    LET delivered == Delivered(hits)
    IN  {Range(c) : c \in UNION {Range(delivered[i]) : i \in Lane}}

\* Only what belongs together is merged: the clusters of the lanes that a
\* written cluster consists of are connected by hits that touch in space and
\* time.
MergesOnlyNeighbors ==
    LET parts == Parts
    IN  AllClosed => \A c \in Written : Connected(Range(c), parts)

\* The hits of one particle leave in one cluster however the lanes cut them up:
\* hits that belong together, directly or by others of the group, that lie
\* within MergeTime, none on another's pixel.
Group(h) ==
    LET grow[n \in 0..Len(hits)] ==
          IF n = 0 THEN {h}
          ELSE LET near == grow[n - 1]
               IN  {f \in Range(hits) : \E g \in near : g = f \/ Close(g, f)}
    IN  grow[Len(hits)]

Short(group) ==
    /\ LastToa(group) - FirstToa(group) <= MergeTime
    /\ \A g, h \in group : g.x = h.x /\ g.y = h.y => g = h

InOneCluster(g, h) == \E c \in Written : {g, h} \subseteq Range(c)

ShortGroupsMerged ==
    AllClosed => \A h \in Range(hits) :
                    Short(Group(h)) => \A g \in Group(h) : InOneCluster(g, h)

\* A border cluster is kept apart from one that waits because the two "are too
\* far apart timewise" only if no two of their hits belong together.
FarApartHaveNoLink ==
    \A m, i \in Lane : IsEarliest(m, i) =>
        LET new == Entry(Head(pipes[m][i]), borderingOffset[m], TRUE)
        IN  \A k \in Waiting(m) :
                unfinished[m][k].border /\ FarApartInTime(unfinished[m][k], new)
                    => ~\E g \in Range(unfinished[m][k].hits), h \in Range(new.hits) :
                            Close(g, h)
=============================================================================
