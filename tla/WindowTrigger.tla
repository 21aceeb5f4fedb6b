----------------------------- MODULE WindowTrigger -----------------------------
(***************************************************************************)
(* The nodes that cut the stream of hits into windows of equal length and  *)
(* aggregate the hits of each: the window_feature_computer writes the      *)
(* windows, the trigger_node decides on each whether it is interesting,    *)
(* and writes the hits around those that are.                              *)
(*                                                                         *)
(* Of a feature vector the model keeps the hits it was updated with and    *)
(* the two fields that decide something, the last toa and the lower bound  *)
(* of the number of clusters.  What should_trigger makes of the features,  *)
(* and of their difference to earlier windows, is any answer.              *)
(***************************************************************************)
EXTENDS Integers, Sequences, SequencesExt, FiniteSets

CONSTANTS WindowTime,       \* window_size
          ClusteringDt,     \* CLUSTERING_DT_
          UntriggerTime,    \* untrigger_time_
          MaxToa, MaxHits   \* the hits considered

ASSUME WindowAssumption ==
    /\ {ClusteringDt, UntriggerTime, MaxToa, MaxHits} \subseteq Nat
    /\ WindowTime \in Nat \ {0}

VARIABLES node,         \* "computer" or "trigger" (never changes)
          phase,        \* "read", "closed"; "crashed" by a division by zero
          toa,          \* the times of the hits read; a hit is its place here
          open,         \* feature_vector_, with the start_time_ of the state
          windows,      \* the vectors written, or decided on, so far
          triggered, lastTriggered,
          buffer,       \* hit_buffer_
          output,       \* the hits written by the trigger node
          discarded,    \* the hits it forgot
          found         \* history: the starts of the interesting windows

vars == <<node, phase, toa, open, windows, triggered, lastTriggered, buffer,
          output, discarded, found>>

-----------------------------------------------------------------------------
\* Seeded bug in EmptyVector: the last toa is that of the window before.
EmptyVectorKeepingTime(s) == [start |-> s, hits |-> <<>>, bound |-> 0, last |-> open.last]

EmptyVector(s) == [start |-> s, hits |-> <<>>, bound |-> 0, last |-> 0]

\* default_window_feature_vector::update
Updated(v, hit, t) ==
    [v EXCEPT !.hits = Append(@, hit),
              !.bound = @ + (IF t - v.last > ClusteringDt THEN 1 ELSE 0),
              !.last = t]

\* close() divides the number of hits, if it is not 0, by the bound.
CanClose(v) == v.hits # <<>> => v.bound > 0

CanAdd(t) == t <= open.start + WindowTime

\* Seeded bug in EmptyCount: the window that is closed counts as well.
EmptyCountWithOpen(t) == (t - open.start) \div WindowTime

\* get_empty_count, of a hit past the end of the open window.
EmptyCount(t) == (t - (open.start + WindowTime)) \div WindowTime

\* The vector of the window i windows after the open one.
Moved(i) == EmptyVector(open.start + i * WindowTime)

\* Environment: hits arrive in time order.
Arrives(t) ==
    /\ phase = "read"
    /\ Len(toa) < MaxHits
    /\ toa # <<>> => Last(toa) <= t
    /\ toa' = Append(toa, t)

Hit == Len(toa) + 1         \* the hit that arrives

Init ==
    /\ node \in {"computer", "trigger"}
    /\ phase = "read"
    /\ toa = <<>>
    /\ open = [start |-> 0, hits |-> <<>>, bound |-> 0, last |-> 0]
    /\ windows = <<>>
    /\ triggered = FALSE
    /\ lastTriggered = 0
    /\ buffer = <<>>
    /\ output = <<>>
    /\ discarded = {}
    /\ found = {}

-----------------------------------------------------------------------------
\* The trigger node writes a hit, or stores it in case a window soon triggers.
Accept(written, kept, isTriggered) ==
    /\ output' = IF isTriggered THEN Append(written, Hit) ELSE written
    /\ buffer' = IF isTriggered THEN kept ELSE Append(kept, Hit)

\* The loop in start() of either node, for a hit within the open window.
AddHit(t) ==
    /\ Arrives(t)
    /\ CanAdd(t)
    /\ open' = Updated(open, Hit, t)
    /\ IF node = "trigger" THEN Accept(output, buffer, triggered)
                           ELSE UNCHANGED <<output, buffer>>
    /\ UNCHANGED <<node, phase, windows, triggered, lastTriggered, discarded, found>>

\* window_feature_computer, for a hit past the window: it writes the window and the
\* empty ones up to the hit's.
WriteWindow(t) ==
    /\ node = "computer"
    /\ Arrives(t)
    /\ ~CanAdd(t)
    /\ CanClose(open)
    /\ windows' = Append(windows, open) \o [i \in 1..EmptyCount(t) |-> Moved(i)]
    /\ open' = Updated(Moved(EmptyCount(t) + 1), Hit, t)
    /\ UNCHANGED <<node, phase, triggered, lastTriggered, buffer, output, discarded, found>>

\* Seeded bug in Remembered: hits are forgotten from the window's end on.
RememberedSinceEnd ==
    LET recent == {i \in DOMAIN buffer : toa[buffer[i]] >= open.start}
    IN  SubSeq(buffer, Min(recent \cup {Len(buffer) + 1}), Len(buffer))

\* forget_old_hits: hits are popped until the first in the buffer is recent.
Remembered ==
    LET recent == {i \in DOMAIN buffer : toa[buffer[i]] + WindowTime >= open.start}
    IN  SubSeq(buffer, Min(recent \cup {Len(buffer) + 1}), Len(buffer))

\* untrigger, given when a window was interesting last, which may be just now.
Untriggers(time) == open.last - time > UntriggerTime

\* Seeded bugs in Decide: the last hit in the buffer is cleared, not written; the
\* buffer is written after the hit that is read.
DecideButLast(interesting) ==
    LET time == IF interesting THEN open.last ELSE lastTriggered
        begins == interesting /\ ~triggered
    IN  /\ lastTriggered' = time
        /\ triggered' = ((triggered \/ interesting) /\ ~Untriggers(time))
        /\ found' = IF interesting THEN found \cup {open.start} ELSE found
        /\ Accept(IF begins THEN output \o SubSeq(Remembered, 1, Len(Remembered) - 1)
                            ELSE output,
                  IF begins THEN <<>> ELSE Remembered, triggered')

DecideLate(interesting) ==
    LET time == IF interesting THEN open.last ELSE lastTriggered
        begins == interesting /\ ~triggered
    IN  /\ lastTriggered' = time
        /\ triggered' = ((triggered \/ interesting) /\ ~Untriggers(time))
        /\ found' = IF interesting THEN found \cup {open.start} ELSE found
        /\ output' = (IF triggered' THEN Append(output, Hit) ELSE output)
                        \o (IF begins THEN Remembered ELSE <<>>)
        /\ buffer' = (IF begins THEN <<>> ELSE Remembered)
                        \o (IF triggered' THEN <<>> ELSE <<Hit>>)

\* process_window after forget_old_hits: trigger, then untrigger.  Then the hit is
\* accepted.
Decide(interesting) ==
    LET time == IF interesting THEN open.last ELSE lastTriggered
        begins == interesting /\ ~triggered
    IN  /\ lastTriggered' = time
        /\ triggered' = ((triggered \/ interesting) /\ ~Untriggers(time))
        /\ found' = IF interesting THEN found \cup {open.start} ELSE found
        /\ Accept(IF begins THEN output \o Remembered ELSE output,
                  IF begins THEN <<>> ELSE Remembered, triggered')

\* trigger_node, for a hit past the window. Unlike the computer's, its new window is
\* not updated with the hit.
DecideOnWindow(t, interesting) ==
    /\ node = "trigger"
    /\ Arrives(t)
    /\ ~CanAdd(t)
    /\ CanClose(open)
    /\ Decide(interesting)
    /\ discarded' = discarded \cup (Range(buffer) \ Range(Remembered))
    /\ windows' = Append(windows, open)
    /\ open' = Moved(EmptyCount(t) + 1)
    /\ UNCHANGED <<node, phase>>

\* Undefined in the code: an integer is divided by zero, which ends the process.
DivideByZero(t) ==
    /\ Arrives(t)
    /\ ~CanAdd(t)
    /\ ~CanClose(open)
    /\ phase' = "crashed"
    /\ UNCHANGED <<node, open, windows, triggered, lastTriggered, buffer, output,
                   discarded, found>>

\* The end token of the input: neither node closes the open window.
Close ==
    /\ phase = "read"
    /\ phase' = "closed"
    /\ UNCHANGED <<node, toa, open, windows, triggered, lastTriggered, buffer, output,
                   discarded, found>>

Finished == phase \in {"closed", "crashed"} /\ UNCHANGED vars

Next ==
    \/ \E t \in 0..MaxToa :
        \/ AddHit(t) \/ WriteWindow(t) \/ DivideByZero(t)
        \/ \E interesting \in BOOLEAN : DecideOnWindow(t, interesting)
    \/ Close \/ Finished

Spec == Init /\ [][Next]_vars

-----------------------------------------------------------------------------
Vector == [start : Nat, hits : Seq(1..MaxHits), bound : 0..MaxHits, last : 0..MaxToa]

\* Types.
TypeOK ==
    /\ node \in {"computer", "trigger"}
    /\ phase \in {"read", "closed", "crashed"}
    /\ toa \in Seq(0..MaxToa)
    /\ open \in Vector
    /\ windows \in Seq(Vector)
    /\ triggered \in BOOLEAN /\ lastTriggered \in 0..MaxToa
    /\ {Range(buffer), Range(output), discarded} \subseteq SUBSET DOMAIN toa

AllWindows == IF phase = "crashed" THEN windows ELSE Append(windows, open)

\* The hits are counted in the order they came, within a window and from one
\* window to the next.
CountedInOrder ==
    \A i, j \in DOMAIN AllWindows :
        \A k \in DOMAIN AllWindows[i].hits, l \in DOMAIN AllWindows[j].hits :
            i < j \/ (i = j /\ k < l) => AllWindows[i].hits[k] < AllWindows[j].hits[l]

\* A hit is counted in the window of its time only. The windows of the computer
\* leave no time out, however long it was silent, and count every hit once.
HitsInTheirWindow ==
    /\ \A i \in DOMAIN AllWindows : \A h \in Range(AllWindows[i].hits) :
            AllWindows[i].start <= toa[h] /\ toa[h] <= AllWindows[i].start + WindowTime
    /\ CountedInOrder
    /\ node = "computer" =>
        /\ \A i \in DOMAIN AllWindows : AllWindows[i].start = (i - 1) * WindowTime
        /\ phase # "crashed" =>
            \A h \in DOMAIN toa : \E i \in DOMAIN AllWindows : h \in Range(AllWindows[i].hits)

\* The division by the number of clusters fails in the first window only, if it
\* begins with a hit within ClusteringDt of the time 0: any other window (of a
\* length above ClusteringDt) counts its first hit as a cluster, because nothing
\* of the window before is left in its vector.
DividesByZeroOnlyAtStart ==
    WindowTime > ClusteringDt /\ ~CanClose(open) =>
        open.start = 0 /\ toa[Head(open.hits)] <= ClusteringDt

\* The trigger node writes, holds or has forgotten each hit, exactly one of these,
\* and while it is triggered it holds none.
HitsSettled ==
    node = "trigger" /\ phase # "crashed" =>
        /\ Len(output) + Len(buffer) + Cardinality(discarded) = Len(toa)
        /\ Range(output) \cup Range(buffer) \cup discarded = DOMAIN toa
        /\ triggered => buffer = <<>>

\* Hits are written in the order they came, across all changes between the two
\* states; the clusterer behind relies on it.
OutputInOrder == \A i \in 1..(Len(output) - 1) : output[i] < output[i + 1]

\* Around an interesting window every hit is written: those in it, and those up to
\* a window's length before it, also when they lie in windows that did not trigger.
HistoryWritten ==
    \A s \in found : \A h \in DOMAIN toa :
        s - WindowTime <= toa[h] /\ toa[h] <= s + WindowTime => h \in Range(output)
=============================================================================
