------------------------------ MODULE FifoQueue ------------------------------
(***************************************************************************)
(* What the pipe under every two nodes is trusted with: a queue.  An item  *)
(* is put in at one end; a reader removes the item at the other end and is *)
(* handed it some time later.  The dataflow module takes its pipes to be   *)
(* such queues, and MoodycamelQueue implements one without a lock.         *)
(***************************************************************************)
EXTENDS Sequences

CONSTANTS Items, Readers, Nothing

VARIABLES contents,   \* the queue
          held,       \* per reader: the item it removed and waits for
          delivered   \* per reader: the items it was handed

vars == <<contents, held, delivered>>

Init ==
    /\ contents = <<>>
    /\ held = [r \in Readers |-> Nothing]
    /\ delivered = [r \in Readers |-> <<>>]

Put(x) ==
    /\ contents' = Append(contents, x)
    /\ UNCHANGED <<held, delivered>>

Take(r) ==
    /\ contents # <<>>
    /\ held[r] = Nothing
    /\ held' = [held EXCEPT ![r] = Head(contents)]
    /\ contents' = Tail(contents)
    /\ UNCHANGED delivered

Deliver(r) ==
    /\ held[r] # Nothing
    /\ delivered' = [delivered EXCEPT ![r] = Append(@, held[r])]
    /\ held' = [held EXCEPT ![r] = Nothing]
    /\ UNCHANGED contents

Next ==
    \/ \E x \in Items : Put(x)
    \/ \E r \in Readers : Take(r) \/ Deliver(r)

Spec == Init /\ [][Next]_vars
=============================================================================
