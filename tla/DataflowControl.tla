--------------------------- MODULE DataflowControl ---------------------------
(***************************************************************************)
(* A run as dataflow_controller conducts it: start_all gives every node a  *)
(* thread, tells the source who its controller is, and starts a monitor    *)
(* thread; wait_all joins them; then the nodes and pipes are freed.  The   *)
(* source checks the memory that the pipes take up after every             *)
(* CheckInterval hits, and pauses while there is too much.                 *)
(*                                                                         *)
(* One source feeds one consumer per lane.  A pipe is the number of hits   *)
(* in it; what is in them, and their batches, is ParallelDataflow's.       *)
(* is_done_ is a plain bool that two threads share.  The monitor sleeps in *)
(* a call of the system between two reads of it, so that the read is done  *)
(* every time, and sees a write made before.                               *)
(***************************************************************************)
EXTENDS Integers, FiniteSets

CONSTANTS Lanes, MaxHits,       \* size of the graph and of the input
          CheckInterval,        \* PIPE_MEMORY_CHECK_INTERVAL
          MaxMemory             \* is_full_memory's limit, in hits

ASSUME ControlAssumption ==
    /\ {Lanes, MaxHits, MaxMemory} \subseteq Nat
    /\ CheckInterval \in Nat \ {0}

Lane == 1..Lanes
Source == 0
Node == 0..Lanes                \* nodes_, in the order they were added
Monitor == Lanes + 1
Thread == 0..Monitor

VARIABLES main,         \* what start_all, wait_all and run do next
          next,         \* the thread the loop in start_all or wait_all is at
          thread,       \* thread -> "none", "running", "ended", "joined"
          known,        \* the source's controller_ is set
          isDone,       \* is_done_
          check,        \* the source is in perform_memory_check
          hits,         \* total_hits_processed_ of the source
          queued,       \* lane -> hits in its pipe
          freed         \* remove_all was called

vars == <<main, next, thread, known, isDone, check, hits, queued, freed>>

Running(t) == thread[t] = "running"

Init ==
    /\ main = "start"
    /\ next = 0
    /\ thread = [t \in Thread |-> "none"]
    /\ known = FALSE
    /\ isDone = FALSE
    /\ check = FALSE
    /\ hits = 0
    /\ queued = [l \in Lane |-> 0]
    /\ freed = FALSE

-----------------------------------------------------------------------------
\* start_all: a thread for each node, the controller, the monitor.
StartNode ==
    /\ main = "start"
    /\ next \in Node
    /\ thread' = [thread EXCEPT ![next] = "running"]
    /\ next' = next + 1
    /\ UNCHANGED <<main, known, isDone, check, hits, queued, freed>>

StoreController ==
    /\ main = "start"
    /\ next = Lanes + 1
    /\ ~known
    /\ known' = TRUE
    /\ UNCHANGED <<main, next, thread, isDone, check, hits, queued, freed>>

StartMonitor ==
    /\ main = "start"
    /\ known
    /\ thread' = [thread EXCEPT ![Monitor] = "running"]
    /\ main' = "wait"
    /\ next' = 0
    /\ UNCHANGED <<known, isDone, check, hits, queued, freed>>

\* Seeded bug in JoinNode: the loop stops one node early.
JoinNodeButLast ==
    /\ main = "wait"
    /\ next < Lanes
    /\ thread[next] = "ended"
    /\ thread' = [thread EXCEPT ![next] = "joined"]
    /\ next' = IF next + 1 = Lanes THEN Monitor ELSE next + 1
    /\ UNCHANGED <<main, known, isDone, check, hits, queued, freed>>

\* wait_all: join the nodes' threads, end the monitor, join it.
JoinNode ==
    /\ main = "wait"
    /\ next \in Node
    /\ thread[next] = "ended"
    /\ thread' = [thread EXCEPT ![next] = "joined"]
    /\ next' = next + 1
    /\ UNCHANGED <<main, known, isDone, check, hits, queued, freed>>

EndMonitor ==
    /\ main = "wait"
    /\ next = Monitor
    /\ ~isDone
    /\ isDone' = TRUE
    /\ UNCHANGED <<main, next, thread, known, check, hits, queued, freed>>

JoinMonitor ==
    /\ main = "wait"
    /\ isDone
    /\ thread[Monitor] = "ended"
    /\ thread' = [thread EXCEPT ![Monitor] = "joined"]
    /\ main' = "joined"
    /\ UNCHANGED <<next, known, isDone, check, hits, queued, freed>>

\* model_executor::run: the nodes and pipes are freed, the run is over.
RemoveAll ==
    /\ main = "joined"
    /\ freed' = TRUE
    /\ main' = "done"
    /\ UNCHANGED <<next, thread, known, isDone, check, hits, queued>>

-----------------------------------------------------------------------------
\* Seeded bug in UsedMemory: what was read from the pipes is not given back.
UsedMemoryEver == hits

\* get_used_memory returns 1 before it adds up the pipes.
UsedMemory == 1

IsFullMemory == UsedMemory > MaxMemory

\* Scheduling assumed: start_all stores the controller before the source has read
\* CheckInterval hits (a million), and follows the pointer. The code does nothing
\* to ensure it.
InTime == known \/ (hits + 1) % CheckInterval # 0

\* data_reader::start
SourceWrite(l) ==
    /\ Running(Source)
    /\ ~check
    /\ hits < MaxHits
    /\ InTime
    /\ queued' = [queued EXCEPT ![l] = @ + 1]
    /\ hits' = hits + 1
    /\ check' = (hits' % CheckInterval = 0)
    /\ UNCHANGED <<main, next, thread, known, isDone, freed>>

\* perform_memory_check: one question to the controller. The source goes on or
\* asks again after a while.
MemoryCheck ==
    /\ Running(Source)
    /\ check
    /\ check' = IsFullMemory
    /\ UNCHANGED <<main, next, thread, known, isDone, hits, queued, freed>>

\* The end of the input; the pipes get their end tokens.
SourceEnd ==
    /\ Running(Source)
    /\ ~check
    /\ thread' = [thread EXCEPT ![Source] = "ended"]
    /\ UNCHANGED <<main, next, known, isDone, check, hits, queued, freed>>

ConsumerRead(l) ==
    /\ Running(l)
    /\ queued[l] > 0
    /\ queued' = [queued EXCEPT ![l] = @ - 1]
    /\ UNCHANGED <<main, next, thread, known, isDone, check, hits, freed>>

ConsumerEnd(l) ==
    /\ Running(l)
    /\ queued[l] = 0
    /\ thread[Source] \in {"ended", "joined"}
    /\ thread' = [thread EXCEPT ![l] = "ended"]
    /\ UNCHANGED <<main, next, known, isDone, check, hits, queued, freed>>

\* The monitor's loop does nothing to the state with a single source.
MonitorEnd ==
    /\ Running(Monitor)
    /\ isDone
    /\ thread' = [thread EXCEPT ![Monitor] = "ended"]
    /\ UNCHANGED <<main, next, known, isDone, check, hits, queued, freed>>

Finished == main = "done" /\ UNCHANGED vars

MainStep ==
    \/ StartNode \/ StoreController \/ StartMonitor
    \/ JoinNode \/ EndMonitor \/ JoinMonitor \/ RemoveAll

SourceStep == (\E l \in Lane : SourceWrite(l)) \/ MemoryCheck \/ SourceEnd

ConsumerStep(l) == ConsumerRead(l) \/ ConsumerEnd(l)

Next ==
    \/ MainStep \/ SourceStep \/ MonitorEnd \/ Finished
    \/ \E l \in Lane : ConsumerStep(l)

Spec == Init /\ [][Next]_vars

\* Every thread runs on: none waits for a lock, and a join returns.
FairSpec ==
    /\ Spec
    /\ WF_vars(MainStep) /\ WF_vars(SourceStep) /\ WF_vars(MonitorEnd)
    /\ \A l \in Lane : WF_vars(ConsumerStep(l))

-----------------------------------------------------------------------------
TypeOK ==
    /\ main \in {"start", "wait", "joined", "done"}
    /\ next \in Thread
    /\ thread \in [Thread -> {"none", "running", "ended", "joined"}]
    /\ known \in BOOLEAN /\ isDone \in BOOLEAN
    /\ check \in BOOLEAN /\ freed \in BOOLEAN
    /\ hits \in 0..MaxHits
    /\ queued \in [Lane -> Nat]

\* The nodes and pipes are freed only when no thread uses them any more.
FreedAfterThreads == freed => \A t \in Thread : thread[t] = "joined"

\* Every run comes to its end: start_all and wait_all return, the monitor too.
RunEnds == <>(main = "done")
=============================================================================
