--------------------------- MODULE OnlineClustering ---------------------------
(***************************************************************************)
(* What a clusterer promises, with no pixel matrix in it.  Hits come in    *)
(* time order.  A hit joins every open cluster that has a hit adjacent to  *)
(* it and that was last extended less than MaxDt ago; the clusters it      *)
(* joins become one.  Clusters are written in the order of their first     *)
(* toa, and none is written that a later hit would still have joined.      *)
(***************************************************************************)
EXTENDS Clustering, Sequences

CONSTANT Hits

VARIABLES read,       \* the hits read so far
          open,       \* the open clusters, each a set of hits
          written,    \* the clusters written, in that order
          ended       \* TRUE once the end token was written

vars == <<read, open, written, ended>>

Joined(h) == {c \in open : Joins(h, c)}

Init ==
    /\ read = {}
    /\ open = {}
    /\ written = <<>>
    /\ ended = FALSE

AddHit(h) ==
    /\ ~ended
    /\ h \notin read
    /\ \A i \in DOMAIN written : ~Joins(h, written[i])
    /\ read' = read \cup {h}
    /\ open' = (open \ Joined(h)) \cup {(UNION Joined(h)) \cup {h}}
    /\ UNCHANGED <<written, ended>>

Write(c) ==
    /\ ~ended
    /\ \A d \in open : FirstToa(c) <= FirstToa(d)
    /\ written' = Append(written, c)
    /\ open' = open \ {c}
    /\ UNCHANGED <<read, ended>>

End ==
    /\ ~ended
    /\ open = {}
    /\ ended' = TRUE
    /\ UNCHANGED <<read, open, written>>

Next ==
    \/ \E h \in Hits : AddHit(h)
    \/ \E c \in open : Write(c)
    \/ End

Spec == Init /\ [][Next]_vars
=============================================================================
