---------------------------- MODULE OrderedStream ----------------------------
(***************************************************************************)
(* What a node that puts a stream in time order promises to the node that  *)
(* reads from it.  Items arrive in any order the node copes with; the node *)
(* hands each of them on exactly once, earliest first, and ends its own    *)
(* stream only when it holds nothing back.  Every consumer downstream      *)
(* leans on this: pixel_list_clusterer closes clusters, multi_pipe_reader  *)
(* picks the earliest head and cluster_merging closes border clusters, all *)
(* on the assumption that nothing earlier can still come.                  *)
(*                                                                         *)
(* The specification says nothing about how far the node looks ahead.      *)
(***************************************************************************)
EXTENDS Integers, Sequences

CONSTANT Items      \* what may arrive: records with a field "toa", the time

VARIABLES accepted,     \* the items that have arrived
          emitted,      \* the items handed on, in that order
          ended         \* TRUE once the node has written its end token

vars == <<accepted, emitted, ended>>

Emitted == {emitted[i] : i \in DOMAIN emitted}

Pending == accepted \ Emitted

Init ==
    /\ accepted = {}
    /\ emitted = <<>>
    /\ ended = FALSE

\* An item arrives.  It is never earlier than one that was already handed on.
Accept(h) ==
    /\ ~ended
    /\ h \notin accepted
    /\ \A e \in Emitted : e.toa <= h.toa
    /\ accepted' = accepted \cup {h}
    /\ UNCHANGED <<emitted, ended>>

\* The earliest item held back is handed on.
Emit(h) ==
    /\ ~ended
    /\ h \in Pending
    /\ \A p \in Pending : h.toa <= p.toa
    /\ emitted' = Append(emitted, h)
    /\ UNCHANGED <<accepted, ended>>

\* The end token is written when nothing is held back.
End ==
    /\ ~ended
    /\ Pending = {}
    /\ ended' = TRUE
    /\ UNCHANGED <<accepted, emitted>>

Next ==
    \/ \E h \in Items : Accept(h) \/ Emit(h)
    \/ End

Spec == Init /\ [][Next]_vars

-----------------------------------------------------------------------------
TypeOK ==
    /\ accepted \subseteq Items
    /\ emitted \in Seq(Items)
    /\ ended \in BOOLEAN

\* The stream is handed on in time order.
Sorted ==
    \A i, j \in DOMAIN emitted : i < j => emitted[i].toa <= emitted[j].toa

\* What is handed on has arrived, and is handed on once.
EmittedOnce ==
    /\ Emitted \subseteq accepted
    /\ \A i, j \in DOMAIN emitted : emitted[i] = emitted[j] => i = j

\* At the end of the stream everything that arrived was handed on.
Complete == ended => Emitted = accepted

\* What still is to come or is held back is not earlier than what was handed on.
Frontier == \A e \in Emitted, p \in Pending : e.toa <= p.toa
=============================================================================
