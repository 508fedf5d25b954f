----------------------------- MODULE FileSpans ------------------------------
(***************************************************************************)
(* How Storage spreads the torrent's bytes over its files: the spans that  *)
(* openMultiFile lays out, and the loops of WriteAt and ReadAt over them.  *)
(* One write is followed by one read of the same range.                    *)
(*                                                                         *)
(* A byte is named by its position in the torrent, so a file cell holds    *)
(* the right byte when it holds its own position.                          *)
(***************************************************************************)
EXTENDS Integers, Sequences, FiniteSets

CONSTANTS
    MaxFiles,       \* bound: files of the torrent
    MaxLength       \* bound: bytes of a file

ASSUME FileSpansAssumption == MaxFiles \in Nat \ {0} /\ MaxLength \in Nat

Unwritten == -1

VARIABLES
    lengths,    \* the file lengths of the metainfo
    cells,      \* the bytes of every file
    op,         \* "write", then "read"
    offset,     \* of the request, in the torrent
    length,     \* of the request
    span,       \* the file the loop looks at
    done,       \* bytes written or read so far
    buffer,     \* the bytes read
    outcome,    \* "running", "ok" or "error"
    ioFailed    \* the operating system refused or shortened a call

request == <<lengths, offset, length>>
spansVars == <<request, cells, op, span, done, buffer, outcome, ioFailed>>

Layouts == UNION {[1 .. n -> 0 .. MaxLength] : n \in 1 .. MaxFiles}

\* openMultiFile: each file begins where the one before it ends.
Start(layout) ==
    LET from[f \in 1 .. Len(layout) + 1] ==
            IF f = 1 THEN 0 ELSE from[f - 1] + layout[f - 1]
    IN  from

start == Start(lengths)
Total == start[Len(lengths) + 1]

SpansTypeOK ==
    /\ lengths \in Layouts
    /\ \A f \in DOMAIN lengths :
           cells[f] \in [0 .. lengths[f] - 1 -> {Unwritten} \cup 0 .. Total - 1]
    /\ op \in {"write", "read"}
    /\ span \in 1 .. Len(lengths) + 1
    /\ done \in 0 .. length
    /\ Len(buffer) <= length
    /\ outcome \in {"running", "ok", "error"}
    /\ ioFailed \in BOOLEAN

InRange(total, at, len) == at >= 0 /\ at <= total /\ len <= total - at

\* The range check comes before the loop.
SpansInit ==
    /\ lengths \in Layouts
    /\ cells = [f \in DOMAIN lengths |->
                    [k \in 0 .. lengths[f] - 1 |-> Unwritten]]
    /\ op = "write"
    /\ offset \in -1 .. Total + 1
    /\ length \in 0 .. Total + 1
    /\ span = 1
    /\ done = 0
    /\ buffer = <<>>
    /\ outcome = IF InRange(Total, offset, length) THEN "running" ELSE "error"
    /\ ioFailed = FALSE

-----------------------------------------------------------------------------
(* One turn of the loop of writeAtLocked and of ReadAt.                    *)

position == offset + done

More == outcome = "running" /\ span <= Len(lengths) /\ done < length

\* MUTANT of Inside: the first byte of a file does not belong to it.
InsideExclusive == position > start[span] /\ position < start[span + 1]

Inside == position >= start[span] /\ position < start[span + 1]

chunkLength ==
    IF length - done < start[span + 1] - position
    THEN length - done
    ELSE start[span + 1] - position

\* MUTANT of fileOffset: the torrent's position is used in the file.
fileOffsetAbsolute == position

fileOffset == position - start[span]

SkipSpan ==
    /\ More /\ ~Inside
    /\ span' = span + 1
    /\ UNCHANGED <<request, cells, op, done, buffer, outcome, ioFailed>>

\* The first n bytes of the chunk are written to the file.
WriteBytes(n) ==
    cells' = [cells EXCEPT ![span] =
                 [k \in DOMAIN @ |-> IF k \in fileOffset .. fileOffset + n - 1
                                     THEN position + (k - fileOffset)
                                     ELSE @[k]]]

\* MUTANT of ReadBytes: a file is always read from its start.
ReadBytesFromStart(n) ==
    buffer' = buffer \o [i \in 1 .. n |-> cells[span][i - 1]]

ReadBytes(n) ==
    buffer' = buffer \o [i \in 1 .. n |-> cells[span][fileOffset + i - 1]]

Transfer(n) ==
    /\ IF op = "write"
       THEN WriteBytes(n) /\ UNCHANGED buffer
       ELSE ReadBytes(n) /\ UNCHANGED cells
    /\ done' = done + n

ChunkOK ==
    /\ More /\ Inside
    /\ Transfer(chunkLength)
    /\ span' = span + 1
    /\ UNCHANGED <<request, op, outcome, ioFailed>>

\* Opening, transferring or closing fails, perhaps after some of the bytes.
ChunkFails ==
    /\ More /\ Inside
    /\ \E n \in 0 .. chunkLength : Transfer(n)
    /\ outcome' = "error"
    /\ ioFailed' = TRUE
    /\ UNCHANGED <<request, op, span>>

EndLoop ==
    /\ outcome = "running" /\ ~More
    /\ outcome' = IF done = length THEN "ok" ELSE "error"
    /\ UNCHANGED <<request, cells, op, span, done, buffer, ioFailed>>

\* A successful write is read back.
ReadBack ==
    /\ op = "write" /\ outcome = "ok"
    /\ op' = "read"
    /\ span' = 1
    /\ done' = 0
    /\ outcome' = "running"
    /\ UNCHANGED <<request, cells, buffer, ioFailed>>

SpansNext == SkipSpan \/ ChunkOK \/ ChunkFails \/ EndLoop \/ ReadBack

SpansSpec == SpansInit /\ [][SpansNext]_spansVars

-----------------------------------------------------------------------------
(* Properties.                                                             *)

\* The reference: the torrent is its files one after the other, so the k-th
\* byte of file f comes after all bytes of the files before and k more.
TorrentPosition(f, k) ==
    k + Cardinality({cell \in (1 .. f - 1) \X (0 .. MaxLength - 1) :
                        cell[2] < lengths[cell[1]]})

\* At every moment of a write, also one that fails half-way or crosses empty
\* files, exactly the bytes transferred so far are in the files, each in the
\* cell of its own torrent position, and no other cell has been touched.
BytesInPlace ==
    \A f \in DOMAIN lengths : \A k \in 0 .. lengths[f] - 1 :
        LET at      == TorrentPosition(f, k)
            written == IF op = "write" THEN done ELSE length
        IN  cells[f][k] =
                IF at \in offset .. offset + written - 1 THEN at ELSE Unwritten

\* What was written is what is read back.
RoundTrip ==
    op = "read" /\ outcome = "ok" =>
        buffer = [i \in 1 .. length |-> offset + i - 1]

\* A range inside the torrent is always served: only the operating system can
\* make it fail, never a gap between files.
RangeServed ==
    outcome = "error" /\ InRange(Total, offset, length) => ioFailed

=============================================================================
