--------------------------- MODULE KatherineReadout ---------------------------
(***************************************************************************)
(* Online reading: the Katherine readout of the detector, the network, and *)
(* the source node that reads from it.                                     *)
(*                                                                         *)
(*     reader --- commands ---> Katherine        one at a time, answered   *)
(*     reader <-- replies  ---  Katherine                                  *)
(*     reader <-- data     ---  Katherine        datagrams of 6 byte frames*)
(*                                                                         *)
(* All of it is UDP: a datagram can be lost, overtaken by the next one, or *)
(* dropped because the receive buffer of the socket is full.  The time in  *)
(* a hit's frame counts up to OffsetUnit only; now and then a frame with   *)
(* the offset comes in between, and counts for the hits after it.          *)
(*                                                                         *)
(* online_sync_data_reader blocks in a read and waits for each command's   *)
(* reply; online_data_reader has handlers called by boost::asio and sends  *)
(* the commands at once.  Katherine is external: what it does is what the  *)
(* parser and the commands presuppose.                                     *)
(***************************************************************************)
EXTENDS Integers, Sequences, FiniteSets, SequencesExt

CONSTANTS MaxHits,         \* bound: hits of an acquisition
          AcqTime,         \* ACQ_TIME: an acquisition lasts that long
          OffsetUnit,      \* 2^14: the toa field of a hit frame has 14 bits
          TimeRange,       \* 2^32: the offset's product is an unsigned 32 bit one
          DatagramFrames,  \* frames that fit in a datagram
          SocketCapacity,  \* datagrams that fit in the socket's receive buffer
          MaxFaults        \* bound: datagrams lost or overtaken

ASSUME ReadoutAssumption ==
    /\ {MaxHits, AcqTime, MaxFaults} \subseteq Nat
    /\ {OffsetUnit, TimeRange, DatagramFrames, SocketCapacity} \subseteq Nat \ {0}
    /\ AcqTime < TimeRange

VARIABLES
    node,        \* "sync" or "async"
    pc,          \* of the reader: "command", "await", "receive", "close", "done"
    step,        \* the command that is next
    commands,    \* commands on their way
    replies,     \* replies on their way
    executed,    \* Katherine: the commands it executed, in order
    toSend,      \* Katherine: frames of the acquisition not yet in a datagram
    wire,        \* data datagrams on their way
    socket,      \* datagrams in the receive buffer
    parser,      \* time_offset_, total_hits_received
    output,      \* what was written to the pipes, ended by "end"
    datagrams,   \* history: all datagrams sent
    received,    \* history: numbers of the datagrams read, in order
    lost,        \* history: what was lost: numbers of datagrams, or "control"
    faults       \* number of faults of the network

control == <<commands, replies, executed>>
data == <<toSend, wire, socket, datagrams>>
vars == <<node, pc, step, control, data, parser, output, received, lost, faults>>

-----------------------------------------------------------------------------
\* sync_start_acq, async_start_acq
Commands == <<"GET_SENSOR_TEMP", "SET_BIAS_VOLTAGE", "GET_BIAS_VOLTAGE", "GET_BIAS_VOLTAGE",
              "SET_ACQ_TIME_LSB", "SET_ACQ_TIME_MSB", "START_ACQ">>

\* Definitions under a comment "seeded bug" are not the code's: each is what a
\* definition below it would be with a mistake in it, which a property detects.

\* Seeded bug in AwaitsReply: nothing is waited for.
AwaitsNothing(c) == FALSE

\* send_command waits for a reply unless told otherwise.
AwaitsReply(c) == c # "START_ACQ"

\* Frames: a hit has its number and the low part of its time.
Hit(i, t) == [type |-> "hit", id |-> i, value |-> t % OffsetUnit]
Offset(n) == [type |-> "offset", id |-> 0, value |-> n]
Finished(total) == [type |-> "finished", id |-> 0, value |-> total]
LostPixels == [type |-> "lost", id |-> 0, value |-> 0]

\* Seeded bug in IsEndFrame: lost pixels do not end the acquisition.
IsFinishedFrame(f) == f.type = "finished"

IsEndFrame(f) == f.type \in {"finished", "lost"}

\* What Katherine sends of hits at times ts: an offset before the first hit of
\* each unit of time.  At the end come the number of hits and, if there were any,
\* that of the lost pixels.
HitFrames(ts) ==
    LET unit(i) == IF i = 0 THEN 0 ELSE ts[i] \div OffsetUnit
        sent[i \in 0..Len(ts)] ==
          IF i = 0 THEN <<>>
          ELSE LET before == IF unit(i) = unit(i - 1) THEN sent[i - 1]
                             ELSE Append(sent[i - 1], Offset(unit(i)))
               IN  Append(before, Hit(i, ts[i]))
    IN  sent[Len(ts)]

Endings(n) == {<<Finished(n)>>, <<Finished(n), LostPixels>>, <<LostPixels, Finished(n)>>}

Times == UNION {{ts \in [1..n -> 0..AcqTime] : \A i \in 2..n : ts[i - 1] <= ts[i]} :
                   n \in 0..MaxHits}

-----------------------------------------------------------------------------
Init ==
    /\ node \in {"sync", "async"}
    /\ pc = "command"
    /\ step = 1
    /\ commands = <<>>
    /\ replies = <<>>
    /\ executed = <<>>
    /\ \E ts \in Times : \E ending \in Endings(Len(ts)) :
          toSend = [frames |-> HitFrames(ts) \o ending, times |-> ts]
    /\ wire = <<>>
    /\ socket = <<>>
    /\ parser = [offset |-> 0, total |-> 0]
    /\ output = <<>>
    /\ datagrams = <<>>
    /\ received = <<>>
    /\ lost = {}
    /\ faults = 0

\* The synchronous reader sends a command and waits for its reply, except for
\* the last one.
SendCommand ==
    /\ node = "sync"
    /\ pc = "command"
    /\ commands' = Append(commands, Commands[step])
    /\ step' = step + 1
    /\ pc' = IF AwaitsReply(Commands[step]) THEN "await"
             ELSE IF step = Len(Commands) THEN "receive" ELSE "command"
    /\ UNCHANGED <<node, replies, executed, data, parser, output, received, lost, faults>>

GetReply ==
    /\ pc = "await"
    /\ replies # <<>>
    /\ replies' = Tail(replies)
    /\ pc' = "command"
    /\ UNCHANGED <<node, step, commands, executed, data, parser, output, received, lost, faults>>

\* The asynchronous reader starts all its sends; replies are only printed.
SendAllCommands ==
    /\ node = "async"
    /\ pc = "command"
    /\ commands' = Commands
    /\ step' = Len(Commands) + 1
    /\ pc' = "receive"
    /\ UNCHANGED <<node, replies, executed, data, parser, output, received, lost, faults>>

-----------------------------------------------------------------------------
(* Katherine and the network, external                                     *)

ExecuteCommand ==
    /\ commands # <<>>
    /\ executed' = Append(executed, Head(commands))
    /\ replies' = IF Head(commands) = "START_ACQ" \/ node = "async" THEN replies
                  ELSE Append(replies, Head(commands))
    /\ commands' = Tail(commands)
    /\ UNCHANGED <<node, pc, step, data, parser, output, received, lost, faults>>

Acquiring == Contains(executed, "START_ACQ")

\* A datagram is sent whenever Katherine likes, at the latest when it is full.
SendDatagram ==
    /\ Acquiring
    /\ \E k \in 1..DatagramFrames :
         /\ k <= Len(toSend.frames)
         /\ LET d == [no |-> Len(datagrams) + 1, frames |-> SubSeq(toSend.frames, 1, k)] IN
              /\ wire' = Append(wire, d)
              /\ datagrams' = Append(datagrams, d)
         /\ toSend' = [toSend EXCEPT !.frames = SubSeq(@, k + 1, Len(@))]
    /\ UNCHANGED <<node, pc, step, control, socket, parser, output, received, lost, faults>>

\* Datagram i of the wire arrives; there may be no room for it.
Arrive(i) ==
    /\ i \in DOMAIN wire
    /\ wire' = RemoveAt(wire, i)
    /\ IF Len(socket) < SocketCapacity
       THEN socket' = Append(socket, wire[i]) /\ UNCHANGED lost
       ELSE lost' = lost \cup {wire[i].no} /\ UNCHANGED socket
    /\ UNCHANGED <<node, pc, step, control, toSend, datagrams, parser, output, received>>

ArriveInOrder == Arrive(1) /\ UNCHANGED faults

Overtake == faults < MaxFaults /\ Arrive(2) /\ faults' = faults + 1

LoseDatagram ==
    /\ faults < MaxFaults
    /\ wire # <<>>
    /\ wire' = Tail(wire)
    /\ lost' = lost \cup {wire[1].no}
    /\ faults' = faults + 1
    /\ UNCHANGED <<node, pc, step, control, toSend, socket, datagrams, parser, output, received>>

LoseControl ==
    /\ faults < MaxFaults
    /\ \/ commands # <<>> /\ commands' = Tail(commands) /\ UNCHANGED replies
       \/ replies # <<>> /\ replies' = Tail(replies) /\ UNCHANGED commands
    /\ lost' = lost \cup {0}
    /\ faults' = faults + 1
    /\ UNCHANGED <<node, pc, step, executed, data, parser, output, received>>

-----------------------------------------------------------------------------
(* The parser and the reader                                               *)

\* parse_burda_hit: the product is unsigned and of 32 bits, the sum is not.
TimeOf(low, offset) == low + ((OffsetUnit * offset) % TimeRange)

\* parse_6byte_data_frame, on what was parsed of the datagram so far.  Each frame
\* says anew whether the acquisition is over.
ParseFrame(st, f) ==
    [hits |-> IF f.type = "hit"
              THEN Append(st.hits, [id |-> f.id, toa |-> TimeOf(f.value, st.offset)])
              ELSE st.hits,
     offset |-> IF f.type = "offset" THEN f.value ELSE st.offset,
     total |-> IF f.type = "finished" THEN f.value ELSE st.total,
     final |-> IsEndFrame(f)]

ParseFrames(st, frames) ==
    LET parsed[k \in 0..Len(frames)] ==
          IF k = 0 THEN [hits |-> <<>>, offset |-> st.offset, total |-> st.total, final |-> FALSE]
          ELSE ParseFrame(parsed[k - 1], frames[k])
    IN  parsed[Len(frames)]

\* Seeded bugs in ParseDatagram: each datagram has its own parser; the first
\* frame is skipped.
ParseDatagramAfresh(frames) == ParseFrames([parser EXCEPT !.offset = 0], frames)

ParseDatagramTail(frames) == ParseFrames(parser, Tail(frames))

\* parse_udp_data_packet
ParseDatagram(frames) == ParseFrames(parser, frames)

\* sync_read_data or on_data_receive, with process_packet: every hit is written.
ReceiveDatagram ==
    /\ pc = "receive"
    /\ socket # <<>>
    /\ LET st == ParseDatagram(Head(socket).frames) IN
         /\ parser' = [offset |-> st.offset, total |-> st.total]
         /\ output' = output \o st.hits
         /\ pc' = IF st.final THEN "close" ELSE "receive"
    /\ socket' = Tail(socket)
    /\ received' = Append(received, Head(socket).no)
    /\ UNCHANGED <<node, step, control, toSend, wire, datagrams, lost, faults>>

\* After the loop, or in end_acq: the pipes get their end tokens.
CloseWriter ==
    /\ pc = "close"
    /\ pc' = "done"
    /\ UNCHANGED <<node, step, control, data, parser, output, received, lost, faults>>

-----------------------------------------------------------------------------
Reader == SendCommand \/ GetReply \/ SendAllCommands \/ ReceiveDatagram \/ CloseWriter
Katherine == ExecuteCommand \/ SendDatagram
Network == ArriveInOrder \/ Overtake \/ LoseDatagram \/ LoseControl

Next == Reader \/ Katherine \/ Network

\* The reader's thread goes on unless it waits for a datagram, Katherine sends
\* what it measured, and a datagram that is not lost arrives.
Fairness == WF_vars(Reader) /\ WF_vars(Katherine) /\ WF_vars(ArriveInOrder)

Spec == Init /\ [][Next]_vars /\ Fairness

-----------------------------------------------------------------------------
\* Types.
TypeOK ==
    /\ node \in {"sync", "async"}
    /\ pc \in {"command", "await", "receive", "close", "done"}
    /\ step \in 1..(Len(Commands) + 1)
    /\ {commands, replies, executed} \subseteq Seq(Range(Commands))
    /\ parser.offset \in Nat /\ parser.total \in 0..MaxHits
    /\ output \in Seq([id : 1..MaxHits, toa : Nat])
    /\ received \in Seq(1..Len(datagrams))
    /\ lost \subseteq 0..Len(datagrams)
    /\ faults \in 0..MaxFaults

\* Katherine starts to measure only when it has the voltage and the length of the
\* acquisition, whatever is lost: each command was answered before the next was
\* sent.  (The asynchronous reader does not see to that.)
StartsConfigured ==
    node = "sync" /\ Acquiring => executed = Commands

\* The time of a hit is right if the last offset received before it is the last
\* one sent before it.  So the loss or the delay of a datagram falsifies the hits
\* of the datagrams after it up to the next offset, and only if it had one in it.
HasOffset(n) == \E f \in Range(datagrams[n].frames) : f.type = "offset"

LastOffset(ns) == LET with == {i \in DOMAIN ns : HasOffset(ns[i])} IN
                  IF with = {} THEN 0 ELSE ns[Max(with)]

SentBefore(n) == [i \in 1..(n - 1) |-> i]

HitsIn(n) == {f.id : f \in {g \in Range(datagrams[n].frames) : g.type = "hit"}}

TimesFollowOffsets ==
    \A p \in DOMAIN received :
        LastOffset(SubSeq(received, 1, p - 1)) = LastOffset(SentBefore(received[p])) =>
            \A h \in Range(output) : h.id \in HitsIn(received[p]) => h.toa = toSend.times[h.id]

\* The success rate printed at the end is true: when the number of hits measured
\* was received, what is missing in the output is what was in datagrams that were
\* lost, came too late, or were not sent yet; no hit is counted twice.
Unread == {n \in DOMAIN datagrams : n \notin Range(received)}

RateIsTrue ==
    LET ids == {h.id : h \in Range(output)} IN
    /\ Cardinality(ids) = Len(output)
    /\ parser.total > 0 =>
          parser.total - Len(output) = Cardinality(UNION {HitsIn(n) : n \in Unread})

\* The reader comes to an end if no command or reply was lost, and neither was the
\* last datagram: nothing else can keep it waiting.
EndLost == toSend.frames = <<>> /\ Len(datagrams) \in lost

ReaderEnds == <>(pc = "done" \/ 0 \in lost \/ EndLost)
=============================================================================
