-------------------------- MODULE TwoStepClustering --------------------------
(***************************************************************************)
(* The clusterers that go by time first.  A temporal_clusterer groups hits *)
(* between which there is no gap in time.  A cluster_splitter does so too, *)
(* and then cuts a group that covers a large area into its connected       *)
(* parts: it stores the group in a pixel matrix, labels what it reaches    *)
(* from each unlabelled hit, and collects the hits with the same label.    *)
(*                                                                         *)
(* Times are whole nanoseconds: the two tolerances the code compares a     *)
(* last toa with (1e-7 and 0.001) only tell 0 from what is later.          *)
(***************************************************************************)
EXTENDS Clustering, Sequences, SequencesExt

G == INSTANCE Graphs

CONSTANTS JoinTime,         \* MAX_JOIN_TIME of the splitter
          AreaLimit,        \* a group with a larger bounding box is split (25)
          MaxSamePixel,     \* MAX_SAME_PIXEL_COUNT
          HitPixels, MaxToa, MaxHits    \* the hits considered

ASSUME TwoStepAssumption ==
    /\ {JoinTime, MaxToa, MaxHits} \subseteq Nat
    /\ {AreaLimit, MaxSamePixel} \subseteq Nat \ {0}
    /\ (Width - 2) * (Width - 2) > AreaLimit    \* an empty cluster is large
    /\ HitPixels \subseteq (0..(Width - 1)) \X (0..(Width - 1))
    /\ TileSize = 1         \* these nodes know no tiles

VARIABLES node,       \* "temporal" or "splitter" (never changes)
          phase,      \* "read", "process", "label", "closed"
          arrived,    \* the hits read so far
          lastToa,    \* last_hit_toa_
          open,       \* open_cluster
          group,      \* the cluster in process_cluster
          matrix,     \* the hits in the pixel matrix -> partition_index
          frontier,   \* open_nodes of dfs_tag
          output      \* the clusters written; an empty one is an end token

vars == <<node, phase, arrived, lastToa, open, group, matrix, frontier, output>>

-----------------------------------------------------------------------------
\* bbox{cluster}.area(): the box is one pixel larger on each side. Its default
\* corners are the wrong way round, so the sizes of the box of an empty cluster
\* are negative; as unsigned numbers they wrap around, and so does their product.
Extent(S) ==
    LET low == IF S = {} THEN Width ELSE CHOOSE n \in S : \A k \in S : n <= k
        high == IF S = {} THEN 0 ELSE CHOOSE n \in S : \A k \in S : k <= n
    IN  (IF high + 1 < Width THEN high + 1 ELSE Width - 1)
            - (IF low = 0 THEN 0 ELSE low - 1)

Area(c) == Extent({h.x : h \in Range(c)}) * Extent({h.y : h \in Range(c)})

\* Seeded bug in IsLarge: the size of a cluster is taken for its number of hits.
IsLargeByCount(c) == Len(c) > 1 /\ Area(c) > AreaLimit

\* process_cluster: cluster.size() counts bytes, so it exceeds 1 for every
\* cluster, and an area of more than 5 times that is more than 25 too.
IsLarge(c) == Area(c) > AreaLimit

\* Seeded bug in StartsGroup: the tolerance for time 0 is left out.
StartsGroupAfterGap(h) ==
    CASE node = "temporal" -> h.toa - lastToa >= MaxDt
      [] node = "splitter" -> h.toa - lastToa >= JoinTime

\* Whether a hit begins a group: should_create_new_cluster, and its equivalent
\* in temporal_clusterer, where hits in the first MaxDt join the empty cluster.
StartsGroup(h) ==
    CASE node = "temporal" -> h.toa - lastToa >= MaxDt
      [] node = "splitter" -> h.toa - lastToa >= JoinTime \/ lastToa = 0

\* Environment: in time order, and no pixel is hit more often within a group
\* than the splitter reserves room for (a group has a hit every JoinTime, and a
\* pixel is blind for much longer after each of its hits).
Arrives(h) ==
    /\ phase = "read"
    /\ Len(arrived) < MaxHits
    /\ h.id = Len(arrived) + 1
    /\ arrived # <<>> => Last(arrived).toa <= h.toa
    /\ node = "splitter" /\ ~StartsGroup(h) =>
            Cardinality({g \in Range(open) : g.x = h.x /\ g.y = h.y}) < MaxSamePixel

Init ==
    /\ node \in {"temporal", "splitter"}
    /\ phase = "read"
    /\ arrived = <<>>
    /\ lastToa = 0
    /\ open = <<>>
    /\ group = <<>>
    /\ matrix = [h \in {} |-> 0]
    /\ frontier = {}
    /\ output = <<>>

\* start() of either node, for a hit that joins the open cluster.
JoinGroup(h) ==
    /\ Arrives(h)
    /\ ~StartsGroup(h)
    /\ arrived' = Append(arrived, h)
    /\ lastToa' = h.toa
    /\ open' = Append(open, h)
    /\ UNCHANGED <<node, phase, group, matrix, frontier, output>>

\* Seeded bug in StartGroup: the hit that begins a group is not added to it.
StartGroupEmpty(h) ==
    /\ Arrives(h)
    /\ StartsGroup(h)
    /\ arrived' = Append(arrived, h)
    /\ lastToa' = h.toa
    /\ open' = <<>>
    /\ IF node = "temporal"
       THEN /\ output' = IF lastToa > 0 THEN Append(output, open) ELSE output
            /\ UNCHANGED <<phase, group>>
       ELSE phase' = "process" /\ group' = open /\ UNCHANGED output
    /\ UNCHANGED <<node, matrix, frontier>>

\* For a hit that begins another. The temporal clusterer writes the open one.
StartGroup(h) ==
    /\ Arrives(h)
    /\ StartsGroup(h)
    /\ arrived' = Append(arrived, h)
    /\ lastToa' = h.toa
    /\ open' = <<h>>
    /\ IF node = "temporal"
       THEN /\ output' = IF lastToa > 0 THEN Append(output, open) ELSE output
            /\ UNCHANGED <<phase, group>>
       ELSE /\ phase' = "process"
            /\ group' = open
            /\ UNCHANGED output
    /\ UNCHANGED <<node, matrix, frontier>>

-----------------------------------------------------------------------------
\* process_cluster: a compact group is written as it is.
WriteCompact ==
    /\ phase = "process"
    /\ ~IsLarge(group)
    /\ output' = Append(output, group)
    /\ group' = <<>>
    /\ phase' = "read"
    /\ UNCHANGED <<node, arrived, lastToa, open, matrix, frontier>>

\* store_to_matrix
StoreToMatrix ==
    /\ phase = "process"
    /\ IsLarge(group)
    /\ matrix' = [h \in DOMAIN matrix \cup Range(group) |->
                    IF h \in Range(group) THEN 0 ELSE matrix[h]]
    /\ phase' = "label"
    /\ UNCHANGED <<node, arrived, lastToa, open, group, frontier, output>>

Unlabelled == {i \in DOMAIN group : matrix[group[i]] = 0}
Labels == {matrix[h] : h \in Range(group)} \ {0}

\* label_components: the first hit without a label gets the next one.
StartLabel ==
    /\ phase = "label"
    /\ frontier = {}
    /\ Unlabelled # {}
    /\ LET i == CHOOSE i \in Unlabelled : \A k \in Unlabelled : i <= k
       IN  /\ matrix' = [matrix EXCEPT ![group[i]] = Cardinality(Labels) + 1]
           /\ frontier' = {group[i]}
    /\ UNCHANGED <<node, phase, arrived, lastToa, open, group, output>>

\* Two hits in the matrix that dfs_tag goes between.
NearInMatrix(g, h) == Touching(g, h) /\ Abs(g.toa - h.toa) < JoinTime

\* Seeded bug in Tag: labels propagate forward in time only.
TagForward(h) ==
    LET reached == {g \in DOMAIN matrix :
                        matrix[g] = 0 /\ NearInMatrix(g, h) /\ h.toa <= g.toa}
    IN  /\ phase = "label"
        /\ matrix' = [g \in DOMAIN matrix |->
                        IF g \in reached THEN matrix[h] ELSE matrix[g]]
        /\ frontier' = (frontier \ {h}) \cup reached
        /\ UNCHANGED <<node, phase, arrived, lastToa, open, group, output>>

\* dfs_tag: one turn of its loop. The stack is a set: its order does not matter.
Tag(h) ==
    LET reached == {g \in DOMAIN matrix : matrix[g] = 0 /\ NearInMatrix(g, h)}
    IN  /\ phase = "label"
        /\ matrix' = [g \in DOMAIN matrix |->
                        IF g \in reached THEN matrix[h] ELSE matrix[g]]
        /\ frontier' = (frontier \ {h}) \cup reached
        /\ UNCHANGED <<node, phase, arrived, lastToa, open, group, output>>

\* split_cluster: the hits with a label, in the order they came, and the parts
\* of the group that the labels make. (Nth is the k-th smallest of a set.)
Nth(S, k) == CHOOSE n \in S : Cardinality({i \in S : i <= n}) = k

Part(l) ==
    LET marked == {i \in DOMAIN group : matrix[group[i]] = l}
    IN  [k \in 1..Cardinality(marked) |-> group[Nth(marked, k)]]

Parts == [l \in 1..Cardinality(Labels) |-> Part(l)]

\* Seeded bugs in Split: the parts are written last first; the matrix is not
\* cleared.
SplitBackwards ==
    /\ phase = "label"
    /\ frontier = {} /\ Unlabelled = {}
    /\ output' = output \o Reverse(Parts)
    /\ matrix' = [g \in {} |-> 0]
    /\ group' = <<>>
    /\ phase' = "read"
    /\ UNCHANGED <<node, arrived, lastToa, open, frontier>>

SplitUncleared ==
    /\ phase = "label"
    /\ frontier = {} /\ Unlabelled = {}
    /\ output' = output \o Parts
    /\ group' = <<>>
    /\ phase' = "read"
    /\ UNCHANGED <<node, arrived, lastToa, open, matrix, frontier>>

\* split_cluster and remove_from_matrix: each part is a cluster, and the pixels
\* its hits lie on are cleared.
Split ==
    /\ phase = "label"
    /\ frontier = {} /\ Unlabelled = {}
    /\ output' = output \o Parts
    /\ matrix' = [g \in {g \in DOMAIN matrix :
                    ~\E h \in Range(group) : g.x = h.x /\ g.y = h.y} |-> matrix[g]]
    /\ group' = <<>>
    /\ phase' = "read"
    /\ UNCHANGED <<node, arrived, lastToa, open, frontier>>

\* The end token of the input: the writer is closed. Neither node writes the
\* open cluster before.
Close ==
    /\ phase = "read"
    /\ phase' = "closed"
    /\ UNCHANGED <<node, arrived, lastToa, open, group, matrix, frontier, output>>

Finished == phase = "closed" /\ UNCHANGED vars

Hit == [id : 1..MaxHits, x : {p[1] : p \in HitPixels}, y : {p[2] : p \in HitPixels},
        toa : 0..MaxToa]

Next ==
    \/ \E p \in HitPixels, t \in 0..MaxToa :
         LET h == [id |-> Len(arrived) + 1, x |-> p[1], y |-> p[2], toa |-> t]
         IN  JoinGroup(h) \/ StartGroup(h)
    \/ WriteCompact \/ StoreToMatrix \/ StartLabel \/ Split \/ Close \/ Finished
    \/ \E h \in frontier : Tag(h)

Spec == Init /\ [][Next]_vars

-----------------------------------------------------------------------------
\* Types, and that nothing of a group is left over when the next hit is read.
TypeOK ==
    /\ node \in {"temporal", "splitter"}
    /\ phase \in {"read", "process", "label", "closed"}
    /\ arrived \in Seq(Hit)
    /\ lastToa \in 0..MaxToa
    /\ {Range(open), Range(group), DOMAIN matrix} \subseteq SUBSET Range(arrived)
    /\ matrix \in [DOMAIN matrix -> 0..MaxHits]
    /\ frontier \subseteq DOMAIN matrix
    /\ phase = "read" => group = <<>> /\ frontier = {}
    /\ \A i \in DOMAIN output : Range(output[i]) \subseteq Range(arrived)

\* A hit moves from the open cluster through the matrix into a written one. It
\* is not lost on the way and never in two places. (A group of the temporal
\* clusterer that lies at time 0 is dropped: it looks like no group at all.)
HitsKept ==
    LET places == Append(Append(output, group), open)
        copies(h) == Cardinality(UNION {{i} \X {k \in DOMAIN places[i] :
                                places[i][k] = h} : i \in DOMAIN places})
    IN  \A h \in Range(arrived) :
            copies(h) = 1 \/ (node = "temporal" /\ h.toa = 0 /\ copies(h) = 0)

\* No written cluster is empty: an empty cluster is the end token of the stream,
\* and the nodes behind would stop. The splitter processes an empty group before
\* its first one; only the wrap-around of its area keeps it from being written.
NoEndTokenInside == \A i \in DOMAIN output : output[i] # <<>>

\* Clusters leave in the order of their first toa, which the merger and the
\* combiner behind rely on, also those a group is cut into.
OutputSorted ==
    \A i, j \in DOMAIN output : i <= j =>
        FirstToa(Range(output[i])) <= FirstToa(Range(output[j]))

\* The vectors in the matrix hold nothing but the group that is being cut, and
\* never outgrow the room reserved for them: otherwise the references kept into
\* them (timestamp_references_) would dangle.
ReferencesStayValid ==
    /\ DOMAIN matrix \subseteq Range(group)
    /\ \A g \in DOMAIN matrix :
            Cardinality({h \in DOMAIN matrix : h.x = g.x /\ h.y = g.y}) <= MaxSamePixel

-----------------------------------------------------------------------------
\* Hits after time 0 that are joined, directly or by others, under a relation.
JoinedBy(linked(_, _)) ==
    LET hits == {h \in Range(arrived) : h.toa > 0}
    IN  G!ConnectionsIn([node |-> hits,
                       edge |-> {e \in hits \X hits : linked(e[1], e[2])}])

NoGap(g, h) ==
    Abs(g.toa - h.toa) < (IF node = "temporal" THEN MaxDt ELSE JoinTime)

Together(g, h) == \E i \in DOMAIN output : {g, h} \subseteq Range(output[i])

\* What the labelling computes is what was meant: of the hits written, those that
\* belong together are in one cluster, and a cluster whose hits do not all
\* belong together is a whole group without a gap, left uncut for its small area.
ClustersAreComponents ==
    LET written == {h \in UNION {Range(output[i]) : i \in DOMAIN output} : h.toa > 0}
        near(g, h) == NoGap(g, h) /\ (node = "splitter" => Touching(g, h))
        component == JoinedBy(near)
        period == JoinedBy(NoGap)
    IN  \A g, h \in written :
            /\ component[g, h] => Together(g, h)
            /\ Together(g, h) /\ ~component[g, h] =>
                    \A f \in written : period[f, g] <=> Together(f, g)

\* Each group of hits is written: "groups hits based on a temporal neighborhood".
LastGroupWritten ==
    phase = "closed" =>
        \A h \in Range(arrived) : h.toa > 0 =>
            \E i \in DOMAIN output : h \in Range(output[i])
=============================================================================
