-------------------------- MODULE PixelListClusterer --------------------------
(***************************************************************************)
(* pixel_list_clusterer.  The open clusters form a list, newest in front;  *)
(* a matrix holds, per tile, a list with one node for every hit of an open *)
(* cluster in that tile, which points to the cluster.  A hit looks at the  *)
(* lists of its own and the eight surrounding tiles and takes from each    *)
(* the first cluster that is recent enough and not taken yet.              *)
(*                                                                         *)
(* A hit adds exactly one node to the matrix, so the node is named by the  *)
(* hit's id: nodes[t] is the list of tile t, owner[id] the cluster that    *)
(* node points to.  A cluster is named by the id of the hit that opened it *)
(* (the address of its list element); it keeps its hits and, in a vector   *)
(* that has to run parallel to them, the iterators to their nodes.         *)
(***************************************************************************)
EXTENDS Clustering, Sequences, SequencesExt

CONSTANTS ClosingDt,      \* CLUSTER_CLOSING_DT
          WriteInterval,  \* WRITE_INTERVAL: old clusters are written every so many hits
          HitPixels,      \* the pixels that are hit, <<x, y>>
          MaxToa,         \* bound: the time stamps
          MaxHits         \* bound: the hits of the stream

ASSUME ClustererAssumption ==
    /\ ClosingDt \in Nat /\ MaxDt <= ClosingDt
    /\ WriteInterval \in Nat \ {0}
    /\ HitPixels \subseteq (0..(Width - 1)) \X (0..(Width - 1))
    /\ {MaxToa, MaxHits} \subseteq Nat

Ids == 1..MaxHits
Hits == {[id |-> i, x |-> p[1], y |-> p[2], toa |-> t] :
            i \in Ids, p \in HitPixels, t \in 0..MaxToa}

VARIABLES pc,             \* where the loop of start() stands
          processed,      \* processed_hit_count_
          hit,            \* the hit read last
          unfinished,     \* unfinished_clusters_: cluster ids, newest first
          clusters,       \* cluster id -> [hits, pixelIterators, first, last]
          nodes,          \* pixel_lists_: tile -> node ids
          owner,          \* node id -> the cluster its entry points to
          output,         \* the clusters written
          read            \* history: the hits read

vars == <<pc, processed, hit, unfinished, clusters, nodes, owner, output, read>>

-----------------------------------------------------------------------------
\* Definitions under a comment "seeded bug" are not the code's: each is what a
\* definition below it would be with a mistake in it, which a property detects.

\* Seeded bug in EightNeighbors: the hit's own tile is not searched.
SurroundingTiles ==
    << <<-1, -1>>, <<-1, 0>>, <<-1, 1>>, <<0, -1>>, <<0, 1>>, <<1, -1>>, <<1, 0>>, <<1, 1>> >>

EightNeighbors ==
    << <<-1, -1>>, <<-1, 0>>, <<-1, 1>>, <<0, -1>>, <<0, 0>>,
       <<0, 1>>, <<1, -1>>, <<1, 0>>, <<1, 1>> >>

NoCluster == [hits |-> <<>>, pixelIterators |-> <<>>, first |-> 0, last |-> 0]

\* Seeded bug in IsOld: measured from the first toa of the cluster.
IsOldFromFirst(toa, c) == clusters[c].first < toa - ClosingDt

\* is_old: the cluster was last extended more than ClosingDt ago.
IsOld(toa, c) == clusters[c].last < toa - ClosingDt

\* A sequence without the elements in S.
Without(seq, S) ==
    LET kept[k \in 0..Len(seq)] ==
          IF k = 0 THEN <<>>
          ELSE IF seq[k] \in S THEN kept[k - 1] ELSE Append(kept[k - 1], seq[k])
    IN  kept[Len(seq)]

\* Where the list of a tile points to a cluster near in time and not selected.
Fitting(h, tile, selected) ==
    {i \in DOMAIN nodes[tile] :
        LET c == owner[nodes[tile][i]]
        IN  Abs(h.toa - clusters[c].last) < MaxDt /\ c \notin selected}

\* What the search adds at an offset to the clusters found: the first that fits.
Candidate(h, off, found) ==
    LET tile == LinearizeTiled(off) + Linearize(h)
        fits == Fitting(h, tile, Range(found))
    IN  IF IsValidNeighbor(h, off) /\ fits # {}
          THEN << owner[nodes[tile][CHOOSE i \in fits : \A j \in fits : i <= j]] >>
          ELSE <<>>

\* find_neighboring_clusters: the clusters found, in the order of the offsets.
Neighboring(h) ==
    LET found[k \in 0..Len(EightNeighbors)] ==
          IF k = 0 THEN <<>>
          ELSE found[k - 1] \o Candidate(h, EightNeighbors[k], found[k - 1])
    IN  found[Len(EightNeighbors)]

\* Seeded bug in Biggest: the most recent cluster takes the others.
BiggestLatest(found) ==
    found[CHOOSE i \in DOMAIN found : \A j \in DOMAIN found :
             \/ clusters[found[i]].first > clusters[found[j]].first
             \/ clusters[found[i]].first = clusters[found[j]].first /\ i <= j]

\* The cluster the others are merged into: the least first toa, the first
\* found of several.
Biggest(found) ==
    found[CHOOSE i \in DOMAIN found : \A j \in DOMAIN found :
             \/ clusters[found[i]].first < clusters[found[j]].first
             \/ clusters[found[i]].first = clusters[found[j]].first /\ i <= j]

SmallerOf(a, b) == IF a < b THEN a ELSE b
LargerOf(a, b) == IF a < b THEN b ELSE a

\* Seeded bug in MergeInto: the iterators are put in front, the hits behind.
MergeIntoFront(big, small) ==
    [hits |-> big.hits \o small.hits,
     pixelIterators |-> small.pixelIterators \o big.pixelIterators,
     first |-> SmallerOf(big.first, small.first),
     last |-> LargerOf(big.last, small.last)]

\* merge_clusters: hits and iterators are appended in the same order.
MergeInto(big, small) ==
    [hits |-> big.hits \o small.hits,
     pixelIterators |-> big.pixelIterators \o small.pixelIterators,
     first |-> SmallerOf(big.first, small.first),
     last |-> LargerOf(big.last, small.last)]

\* The loop of process_hit: into big, all the others found, one after the other.
Merged(big, found) ==
    LET merged[k \in 0..Len(found)] ==
          IF k = 0 THEN clusters[big]
          ELSE IF found[k] = big THEN merged[k - 1]
          ELSE MergeInto(merged[k - 1], clusters[found[k]])
    IN  merged[Len(found)]

\* cluster::add_hit, with the iterator of the hit's node.
Extend(c, h) ==
    [hits |-> Append(c.hits, h),
     pixelIterators |-> Append(c.pixelIterators, h.id),
     first |-> IF c.hits = <<>> THEN h.toa ELSE SmallerOf(c.first, h.toa),
     last |-> IF c.hits = <<>> THEN h.toa ELSE LargerOf(c.last, h.toa)]

-----------------------------------------------------------------------------
Init ==
    /\ pc = "read"
    /\ processed = 0
    /\ hit = [id |-> 0, x |-> 0, y |-> 0, toa |-> 0]
    /\ unfinished = <<>>
    /\ clusters = [c \in Ids |-> NoCluster]
    /\ nodes = [t \in 0..(Tiles * Tiles - 1) |-> <<>>]
    /\ owner = [n \in Ids |-> 0]
    /\ output = <<>>
    /\ read = {}

\* A hit is read; every WriteInterval hits the old clusters are written first.
ReadHit(p, toa) ==
    /\ pc = "read"
    /\ processed < MaxHits
    /\ toa >= hit.toa           \* the sorter's output
    /\ hit' = [id |-> processed + 1, x |-> p[1], y |-> p[2], toa |-> toa]
    /\ pc' = IF processed % WriteInterval = 0 THEN "write" ELSE "process"
    /\ UNCHANGED <<processed, unfinished, clusters, nodes, owner, output, read>>

\* Body of write_old_clusters' loop: the oldest cluster's nodes are erased, each
\* from the list of the hit at the same place in its vector; it is written.
WriteOldest ==
    LET c == Last(unfinished)
        cl == clusters[c]
        erased(t) == {cl.pixelIterators[i] : i \in
                        {j \in DOMAIN cl.pixelIterators : Linearize(cl.hits[j]) = t}}
    IN  /\ nodes' = [t \in DOMAIN nodes |->
                        Without(nodes[t], erased(t))]
        /\ output' = Append(output, cl.hits)
        /\ unfinished' = Front(unfinished)
        /\ clusters' = [clusters EXCEPT ![c] = NoCluster]
        /\ UNCHANGED <<processed, hit, owner, read>>

WriteOld ==
    /\ pc = "write"
    /\ unfinished # <<>>
    /\ IsOld(hit.toa, Last(unfinished))
    /\ WriteOldest
    /\ UNCHANGED pc

WriteStop ==
    /\ pc = "write"
    /\ unfinished # <<>> => ~IsOld(hit.toa, Last(unfinished))
    /\ pc' = "process"
    /\ UNCHANGED <<processed, hit, unfinished, clusters, nodes, owner, output, read>>

\* add_new_hit: the node goes to the front of its tile's list.
AddNewHit(c, known, pointing) ==
    /\ nodes' = [nodes EXCEPT ![Linearize(hit)] = <<hit.id>> \o @]
    /\ owner' = [pointing EXCEPT ![hit.id] = c]
    /\ clusters' = [known EXCEPT ![c] = Extend(@, hit)]
    /\ processed' = processed + 1
    /\ read' = read \cup {hit}
    /\ pc' = "read"
    /\ UNCHANGED <<hit, output>>

\* process_hit, no neighboring cluster: a new one goes to the front of the list.
OpenCluster ==
    /\ pc = "process"
    /\ Neighboring(hit) = <<>>
    /\ unfinished' = <<hit.id>> \o unfinished
    /\ AddNewHit(hit.id, clusters, owner)

\* process_hit, one: the hit joins it.
JoinCluster ==
    /\ pc = "process"
    /\ Len(Neighboring(hit)) = 1
    /\ AddNewHit(Neighboring(hit)[1], clusters, owner)
    /\ UNCHANGED unfinished

\* The clusters when those of others have become part of big.
MergedClusters(big, found, others) ==
    [c \in Ids |-> IF c = big THEN Merged(big, found)
                   ELSE IF c \in others THEN NoCluster ELSE clusters[c]]

\* Seeded bug in MergeClusters: the matrix still points to the merged clusters.
MergeClustersUnredirected ==
    LET found == Neighboring(hit)
        big == Biggest(found)
        others == Range(found) \ {big}
    IN  /\ pc = "process"
        /\ Len(found) > 1
        /\ unfinished' = Without(unfinished, others)
        /\ AddNewHit(big, MergedClusters(big, found, others), owner)

\* process_hit, several: all are merged into the biggest, which the hit joins.
\* The nodes of the others are redirected, their list elements erased.
MergeClusters ==
    LET found == Neighboring(hit)
        big == Biggest(found)
        others == Range(found) \ {big}
        redirected == UNION {Range(clusters[c].pixelIterators) : c \in others}
    IN  /\ pc = "process"
        /\ Len(found) > 1
        /\ unfinished' = Without(unfinished, others)
        /\ AddNewHit(big, MergedClusters(big, found, others),
                     [n \in Ids |-> IF n \in redirected THEN big ELSE owner[n]])

\* write_remaining_clusters: at the end token every cluster counts as old.
ReadEnd ==
    /\ pc = "read"
    /\ pc' = "flush"
    /\ UNCHANGED <<processed, hit, unfinished, clusters, nodes, owner, output, read>>

FlushCluster ==
    /\ pc = "flush"
    /\ unfinished # <<>>
    /\ WriteOldest
    /\ UNCHANGED pc

Close ==
    /\ pc = "flush"
    /\ unfinished = <<>>
    /\ pc' = "closed"
    /\ UNCHANGED <<processed, hit, unfinished, clusters, nodes, owner, output, read>>

Finished == pc = "closed" /\ UNCHANGED vars

Next ==
    \/ \E p \in HitPixels, toa \in 0..MaxToa : ReadHit(p, toa)
    \/ WriteOld \/ WriteStop
    \/ OpenCluster \/ JoinCluster \/ MergeClusters
    \/ ReadEnd \/ FlushCluster \/ Close
    \/ Finished

Spec == Init /\ [][Next]_vars

-----------------------------------------------------------------------------
\* The types. A cluster that is written has hits: to the nodes behind, one
\* without hits is the end token.
TypeOK ==
    /\ pc \in {"read", "write", "process", "flush", "closed"}
    /\ processed \in 0..MaxHits
    /\ hit.id \in 0..MaxHits
    /\ unfinished \in Seq(Ids)
    /\ \A c \in Ids : clusters[c].hits \in Seq(Hits) /\ clusters[c].pixelIterators \in Seq(Ids)
    /\ \A t \in 0..(Tiles * Tiles - 1) : nodes[t] \in Seq(Ids)
    /\ owner \in [Ids -> 0..MaxHits]
    /\ \A i \in DOMAIN output : output[i] \in Seq(Hits) \ {<<>>}
    /\ read \subseteq Hits

\* No node points to a cluster that was written or merged away, and none is
\* missing: the lists of the matrix hold one node for every hit of an open
\* cluster, in the tile of that hit, and it points to that cluster. Otherwise
\* the search would follow an iterator to a freed list element.
MatrixMatchesClusters ==
    LET entries == {<<t, n, owner[n]>> : t \in DOMAIN nodes, n \in Ids}
        stored == {e \in entries : e[2] \in Range(nodes[e[1]])}
        of(c) == {<<Linearize(h), h.id, c>> : h \in Range(clusters[c].hits)}
    IN  /\ stored = UNION {of(c) : c \in Range(unfinished)}
        /\ \A t \in DOMAIN nodes : IsInjective(nodes[t])

\* "beware, we need to push in the same order": the i-th iterator of a cluster
\* is that of its i-th hit, through all merges, and no iterator is there twice.
\* write_old_clusters erases the i-th from the list of the i-th hit's tile.
IteratorsMatchHits ==
    \A c \in Range(unfinished) :
        /\ Len(clusters[c].pixelIterators) = Len(clusters[c].hits)
        /\ \A i \in DOMAIN clusters[c].hits :
               clusters[c].pixelIterators[i] = clusters[c].hits[i].id
        /\ IsInjective(clusters[c].pixelIterators)

\* The list is ordered by first toa, newest in front, although merging changes
\* clusters in the middle of it: "old clusters should be at the end of the
\* list", where write_old_clusters looks for them.
OldestLast ==
    \A i, j \in DOMAIN unfinished :
        i <= j => clusters[unfinished[j]].first <= clusters[unfinished[i]].first

\* "there cannot two already mergable clusters on a single neighbor pixel", on
\* which the search relies when it stops at the first match in a list.
OneMergeablePerTile ==
    pc \in {"write", "process"} =>
        \A t \in DOMAIN nodes :
            Cardinality({c \in {owner[n] : n \in Range(nodes[t])} :
                            Abs(hit.toa - clusters[c].last) < MaxDt}) <= 1

\* The pixel lists, the early break and the periodic writing of old clusters
\* implement the clustering rule: every hit joins all and only the clusters it
\* belongs to, none of which was closed too early, and clusters leave in the
\* order of their first toa, complete and once.
Rule == INSTANCE OnlineClustering
          WITH open <- {Range(clusters[c].hits) : c \in Range(unfinished)},
               written <- [i \in DOMAIN output |-> Range(output[i])],
               ended <- (pc = "closed")

ImplementsOnlineClustering == Rule!Spec
=============================================================================
