---------------------------- MODULE MCClusterMerger ----------------------------
EXTENDS ClusterMerger

CONSTANTS Toas, MaxHits

\* Every stream of up to MaxHits hits, on three pixels of a row.
MCTimes ==
    UNION {{t \in [1..n -> Toas] : \A i \in 2..n : t[i - 1] <= t[i]} : n \in 0..MaxHits}

MCPixels == [i \in 1..MaxHits |-> {0} \X (0..2)]
=============================================================================
