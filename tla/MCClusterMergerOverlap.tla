------------------------ MODULE MCClusterMergerOverlap ------------------------
(***************************************************************************)
(* Streams in which a cluster begins long before the end of a slice, goes  *)
(* on long after it, and is merged: hits at fixed times around that end,   *)
(* the later ones in the next column, on every choice of rows.             *)
(***************************************************************************)
EXTENDS ClusterMerger

MCTimes == {<<4, 6, 7, 8, 9, 11, 12>>}      \* a slice ends before 7

MCPixels == [i \in 1..7 |-> {IF i < 5 THEN 0 ELSE 1} \X (0..2)]
=============================================================================
