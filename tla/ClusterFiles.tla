---------------------------- MODULE ClusterFiles ----------------------------
(***************************************************************************)
(* The files the clusters are written to and read from: data_printer with  *)
(* mm_write_stream, then data_reader with mm_read_stream.                  *)
(*                                                                         *)
(* A run writes two text files: one with a line for each hit and a line    *)
(* "#" behind the hits of a cluster, and an index with a line for each     *)
(* cluster, which says at which line and byte of the other its hits begin. *)
(* Each has a stringstream in front, handed on after a number of clusters  *)
(* and of lines respectively.                                              *)
(*                                                                         *)
(* A line is a record: of the pixel file the time of the hit (-1 for "#")  *)
(* and its length in bytes, of the index its four numbers.  Times count    *)
(* the last digit that double_to_str prints.                               *)
(***************************************************************************)
EXTENDS Integers, SequencesExt

CONSTANTS
    FlushInterval,  \* FLUSH_INTERVAL
    MaxClusters,    \* bound: clusters of a run
    MaxHits,        \* bound: hits of a cluster
    Ticks,          \* bound: times of arrival, in ticks of the fast clock
    LineBytes,      \* bound: lengths of a printed hit
    ClockTick,      \* fast_clock_dt, in units of the last digit printed
    Precision       \* digits behind the point

(* double_to_str writes the digits of a number from the last to the first and
   sets the point when it has written as many as go behind it: a number with
   fewer digits gets none and is read as a whole number. *)
LeastDotted == 10 ^ (Precision - 1)

Undotted(t) == 0 < t /\ t < LeastDotted

AsRead(t) == IF Undotted(t) THEN t * 10 ^ Precision ELSE t

(* The detector's times are multiples of fast_clock_dt. *)
Times == {n * ClockTick : n \in Ticks}

(* A tick, 1.5625 ns printed with six digits, gets its point.  That LeastDotted is
   a number is said because the provers know no powers. *)
FilesAssumption ==
    /\ FlushInterval \in Nat \ {0}
    /\ MaxClusters \in Nat /\ MaxHits \in Nat \ {0}
    /\ Precision \in Nat \ {0} /\ LeastDotted \in Nat
    /\ Ticks \subseteq Nat
    /\ ClockTick \in Nat \ {0} /\ ~Undotted(ClockTick)
    /\ LineBytes \subseteq Nat \ {0}

ASSUME FilesAssumption

VARIABLES
    pc,               \* "print", then "read", then "done"; or "undefined"
    clBuffer,         \* cl_buffer_
    pxBuffer,         \* px_buffer_
    clFile,           \* cl_file_
    pxFile,           \* px_file_
    currentLine,      \* current_line
    currentByte,      \* current_byte
    clustersWritten,  \* clusters_written_
    newPixels,        \* new_pixels_written_
    next,             \* the lines of both files the reader is at
    printed,          \* history: the clusters the printer was given
    readBack          \* history: the clusters the reader got

writerVars == <<clBuffer, pxBuffer, clFile, pxFile, currentLine, currentByte,
                clustersWritten, newPixels, printed>>
readerVars == <<next, readBack>>
vars == <<pc, writerVars, readerVars>>

------------------------------------------------------------------------------
(* Data. *)

HitLine == [toa : Times, bytes : LineBytes]
Hash == [toa |-> -1, bytes |-> 2]
IndexLine == [toa : Nat, count : Nat, line : Nat, byte : Int]

(* A cluster is the sequence of its hits; the printer sees none without. *)
Clusters == BoundedSeq(HitLine, MaxHits) \ {<<>>}

FirstToa(c) == CHOOSE t \in {c[i].toa : i \in DOMAIN c} :
                  \A i \in DOMAIN c : t <= c[i].toa

Bytes(lines) ==
    LET sum[k \in 0 .. Len(lines)] ==
          IF k = 0 THEN 0 ELSE sum[k - 1] + lines[k].bytes
    IN  sum[Len(lines)]

(* Definitions under a comment "seeded bug" are not the code's: each is what the
   definition below it would be with a mistake in it, which a property detects. *)

------------------------------------------------------------------------------
(* Streams of lines.  A stringstream is written at its end and read from a
   position; taking all of it moves that position only, and str("") empties
   it.  Inserting an empty buffer sets the failbit of a file, after which
   nothing is inserted and tellp is -1. *)

EmptyBuffer == [text |-> <<>>, got |-> 0]
EmptyFile == [text |-> <<>>, ok |-> TRUE]

Put(buffer, lines) == [buffer EXCEPT !.text = @ \o lines]
Unread(buffer) == SubSeq(buffer.text, buffer.got + 1, Len(buffer.text))

Insert(file, buffer) ==
    CASE ~file.ok -> file
      [] file.ok /\ Unread(buffer) = <<>> -> [file EXCEPT !.ok = FALSE]
      [] OTHER -> [file EXCEPT !.text = @ \o Unread(buffer)]

\* Seeded bug: the buffer is read but not emptied
Uncleared(buffer) == [buffer EXCEPT !.got = Len(buffer.text)]

Cleared(buffer) == EmptyBuffer

Tellp(file) == IF file.ok THEN Bytes(file.text) ELSE -1

------------------------------------------------------------------------------
(* mm_write_stream and the printer. *)

Init ==
    /\ pc = "print"
    /\ clBuffer = EmptyBuffer /\ pxBuffer = EmptyBuffer
    /\ clFile = EmptyFile /\ pxFile = EmptyFile
    /\ currentLine = 0 /\ currentByte = 0
    /\ clustersWritten = 0 /\ newPixels = 0
    /\ next = [cl |-> 1, px |-> 1]
    /\ printed = <<>> /\ readBack = <<>>

IndexOf(c) == [toa |-> FirstToa(c), count |-> Len(c), line |-> currentLine,
               byte |-> currentByte]

ClustersDue == clustersWritten' % FlushInterval = 0

(* lines is new_pixels_written_ with the cluster just written *)
PixelsDue(lines) == lines > FlushInterval

(* operator<<, called by the printer for each cluster it reads. *)
PrintCluster(c) ==
    LET index == Put(clBuffer, <<IndexOf(c)>>)
        pixels == Put(pxBuffer, Append(c, Hash))
        lines == newPixels + Len(c) + 1
    IN  /\ pc = "print"
        /\ Len(printed) < MaxClusters
        /\ printed' = Append(printed, c)
        /\ clustersWritten' = clustersWritten + 1
        /\ currentLine' = currentLine + Len(c) + 1
        /\ currentByte' = Bytes(pixels.text) + Tellp(pxFile)
        /\ IF ClustersDue
             THEN /\ clFile' = Insert(clFile, index)
                  /\ clBuffer' = Cleared(index)
             ELSE clBuffer' = index /\ UNCHANGED clFile
        /\ IF PixelsDue(lines)
             THEN /\ pxFile' = Insert(pxFile, pixels)
                  /\ pxBuffer' = Cleared(pixels)
                  /\ newPixels' = 0
             ELSE pxBuffer' = pixels /\ newPixels' = lines /\ UNCHANGED pxFile
        /\ UNCHANGED <<pc, readerVars>>

\* Seeded bug: only the index is handed on at the end
CloseUnflushed ==
    /\ pc = "print"
    /\ pc' = "read"
    /\ clFile' = Insert(clFile, clBuffer)
    /\ clBuffer' = [clBuffer EXCEPT !.got = Len(clBuffer.text)]
    /\ UNCHANGED <<pxFile, pxBuffer, currentLine, currentByte, clustersWritten,
                   newPixels, printed, readerVars>>

(* The end token: the rest of both buffers goes to the files, which are
   closed.  A new reader opens them. *)
Close ==
    /\ pc = "print"
    /\ pc' = "read"
    /\ clFile' = Insert(clFile, clBuffer)
    /\ pxFile' = Insert(pxFile, pxBuffer)
    /\ clBuffer' = [clBuffer EXCEPT !.got = Len(clBuffer.text)]
    /\ pxBuffer' = [pxBuffer EXCEPT !.got = Len(pxBuffer.text)]
    /\ UNCHANGED <<currentLine, currentByte, clustersWritten, newPixels, printed,
                   readerVars>>

------------------------------------------------------------------------------
(* mm_read_stream, called by data_reader until it gets an end token.  It reads
   both files in step and does not use the positions of the index. *)

HasHits(first, count) ==
    /\ first + count - 1 <= Len(pxFile.text)
    /\ \A i \in first .. first + count - 1 : pxFile.text[i] # Hash

(* operator>> with an index line left.  A hit that cannot be parsed leaves its
   numbers uninitialised. *)
ReadCluster ==
    LET entry == clFile.text[next.cl]
        hash == next.px + entry.count
        hits == [i \in 1 .. entry.count |->
                   LET line == pxFile.text[next.px + i - 1]
                   IN  [line EXCEPT !.toa = AsRead(@)]]
        first == FirstToa(Append(hits, [toa |-> AsRead(entry.toa)]))
    IN  /\ pc = "read"
        /\ next.cl <= Len(clFile.text)
        /\ IF HasHits(next.px, entry.count)
             THEN /\ readBack' = Append(readBack, [first |-> first, hits |-> hits])
                  /\ next' = [cl |-> next.cl + 1, px |-> hash + 1]
                  /\ UNCHANGED pc
             ELSE pc' = "undefined" /\ UNCHANGED readerVars
        /\ UNCHANGED writerVars

(* No index line is left: an end token, which ends the reader. *)
ReadEnd ==
    /\ pc = "read"
    /\ next.cl > Len(clFile.text)
    /\ pc' = "done"
    /\ UNCHANGED <<writerVars, readerVars>>

Next ==
    \/ \E c \in Clusters : PrintCluster(c)
    \/ Close
    \/ ReadCluster
    \/ ReadEnd

Spec == Init /\ [][Next]_vars

------------------------------------------------------------------------------
(* Properties. *)

(* Types; buffers and files are sequences of lines. *)
TypeOK ==
    /\ pc \in {"print", "read", "done", "undefined"}
    /\ clBuffer.text \in Seq(IndexLine) /\ clFile.text \in Seq(IndexLine)
    /\ pxBuffer.text \in Seq(HitLine \cup {Hash})
    /\ pxFile.text \in Seq(HitLine \cup {Hash})
    /\ currentLine \in Nat /\ currentByte \in Nat
    /\ clustersWritten \in 0 .. MaxClusters /\ newPixels \in Nat
    /\ next \in [cl : Nat, px : Nat]

Pixels == pxFile.text \o Unread(pxBuffer)
Index == clFile.text \o Unread(clBuffer)

(* However the two buffers were handed on, each index line points at the first
   hit of its cluster, by line and by byte, and the hits and the "#" of the
   cluster are there (current_line, current_byte across both flushes). *)
IndexPointsAtPixels ==
    /\ Len(Index) = Len(printed)
    /\ \A i \in DOMAIN printed :
          /\ Index[i].line + Index[i].count < Len(Pixels)
          /\ Index[i].byte = Bytes(SubSeq(Pixels, 1, Index[i].line))
          /\ Append(printed[i], Hash)
               = SubSeq(Pixels, Index[i].line + 1,
                        Index[i].line + Index[i].count + 1)

(* What a reader gets is what was printed, in its order and with its times,
   and after its end token it is all of it. *)
ReadsBack ==
    /\ pc # "undefined"
    /\ \A i \in DOMAIN readBack :
          readBack[i] = [first |-> FirstToa(printed[i]), hits |-> printed[i]]
    /\ pc = "done" => Len(readBack) = Len(printed)

(* Neither buffer holds more than the flush interval between two clusters. *)
BuffersBounded ==
    /\ Len(clBuffer.text) < FlushInterval
    /\ Len(pxBuffer.text) <= FlushInterval
==============================================================================
