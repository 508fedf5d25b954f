------------------------------ MODULE Metainfo ------------------------------
(***************************************************************************)
(* ExtractMeta of internal/torrent/metadata.go: which lists of files, and  *)
(* which numbers of pieces, a metainfo may have.  One step of the loop of  *)
(* extractFiles handles one entry, and the entries are the inputs.         *)
(*                                                                         *)
(* The checks decide about paths, so a path is kept as it is: a sequence   *)
(* of components, each a sequence of characters.  A character is a number, *)
(* in the order in which Go compares bytes.                                *)
(***************************************************************************)
EXTENDS Integers, Sequences, SequencesExt

CONSTANTS
    Components,     \* path components that a metainfo may contain
    FileLengths,    \* the lengths that its entries may contain
    MaxDepth,       \* bound: components of a path
    MaxFiles,       \* bound: entries of the list
    MaxHashes,      \* bound: piece hashes
    MaxPieceLength,
    MaxInt64,       \* math.MaxInt64
    Devices         \* what CON, PRN, COM1 ... are on Windows, in lower case

\* Stand-ins for the characters that the code tells apart.
NUL    == 0
Bang   == 1         \* a character below the separator
Dot    == 2
Slash  == 3
UpperA == 4
LowerA == 5
Chars  == 0 .. 5

ASSUME MetainfoParserAssumption ==
    /\ \A component \in Components : component \in Seq(Chars)
    /\ \A length \in FileLengths : length \in Int /\ length <= MaxInt64
    /\ {MaxDepth, MaxFiles, MaxHashes, MaxPieceLength, MaxInt64} \subseteq Nat
    /\ MaxPieceLength \in 1 .. MaxInt64

VARIABLES
    phase,          \* "files" or "length", "pieces", then "accepted" or a reason
    files,          \* the entries read so far
    seen,           \* the keys of their paths
    total,          \* of their lengths
    pieceLength,
    numPieces       \* len(meta.Pieces)

vars == <<phase, files, seen, total, pieceLength, numPieces>>

Paths == BoundedSeq(Components, MaxDepth)

TypeOK ==
    /\ phase \in {"files", "length", "pieces", "accepted", "malformed",
                  "duplicate", "overflow", "directory"}
    /\ \A i \in DOMAIN files : files[i].length \in 0 .. MaxInt64
    /\ total \in Int
    /\ pieceLength \in 0 .. MaxPieceLength
    /\ numPieces \in 0 .. MaxHashes

-----------------------------------------------------------------------------
(* Strings.                                                                *)

ToLower(s) == [i \in DOMAIN s |-> IF s[i] = UpperA THEN LowerA ELSE s[i]]

\* strings.Join.
Join(parts, separator) ==
    LET joined[n \in 0 .. Len(parts)] ==
            IF n = 0 THEN <<>>
            ELSE IF n = 1 THEN parts[1]
            ELSE joined[n - 1] \o <<separator>> \o parts[n]
    IN  joined[Len(parts)]

\* Strings are compared byte by byte, a prefix comes first.
Less(s, t) ==
    \/ IsStrictPrefix(s, t)
    \/ \E i \in DOMAIN s \cap DOMAIN t :
           s[i] < t[i] /\ \A j \in 1 .. i - 1 : s[j] = t[j]

HasDot(s) == \E i \in DOMAIN s : s[i] = Dot

\* The part before the first dot.
Stem(s) ==
    IF HasDot(s)
    THEN SubSeq(s, 1, (CHOOSE i \in DOMAIN s :
                           s[i] = Dot /\ \A j \in 1 .. i - 1 : s[j] # Dot) - 1)
    ELSE s

-----------------------------------------------------------------------------
(* ExtractMeta.                                                            *)

Init ==
    /\ phase \in {"files", "length"}
    /\ files = <<>>
    /\ seen = {}
    /\ total = 0
    /\ pieceLength = 0
    /\ numPieces = 0

Reject(reason) ==
    /\ phase' = reason
    /\ UNCHANGED <<files, seen, total, pieceLength, numPieces>>

\* A torrent of a single file.
ReadLength ==
    /\ phase = "length"
    /\ \/ Reject("malformed")
       \/ \E length \in FileLengths :
              IF length < 0 THEN Reject("malformed")
              ELSE /\ phase' = "pieces"
                   /\ total' = length
                   /\ UNCHANGED <<files, seen, pieceLength, numPieces>>

\* MUTANT of ValidatePathComponent: separators are not looked for.
ValidatePathComponentSlash(component) ==
    /\ component # <<>> /\ component # <<Dot>> /\ component # <<Dot, Dot>>
    /\ NUL \notin Range(component)
    /\ Last(component) # Dot
    /\ ToLower(Stem(component)) \notin Devices

\* A NUL stands for the control characters, a slash for the separators and the
\* other characters with a meaning on some platform, and a dot at the end for a
\* dot or a space.
ValidatePathComponent(component) ==
    /\ component # <<>> /\ component # <<Dot>> /\ component # <<Dot, Dot>>
    /\ NUL \notin Range(component)
    /\ Slash \notin Range(component)
    /\ Last(component) # Dot
    /\ ToLower(Stem(component)) \notin Devices

\* MUTANT of PathKey: joined as a path is written.
PathKeySlash(path) == ToLower(Join(path, Slash))

PathKey(path) == ToLower(Join(path, NUL))

\* No overflow: the check itself does not add.
Fits(length) == ~(length > MaxInt64 - total)

\* int64 addition of numbers that are not negative.
Add(a, b) == IF a + b > MaxInt64 THEN a + b - 2 * (MaxInt64 + 1) ELSE a + b

\* One turn of the loop of extractFiles; an entry that is not a dictionary with a
\* length and a path of strings is malformed.
ReadFile ==
    /\ phase = "files"
    /\ Len(files) < MaxFiles
    /\ \/ Reject("malformed")
       \/ \E length \in FileLengths, path \in Paths :
              IF \/ length < 0 \/ path = <<>>
                 \/ \E i \in DOMAIN path : ~ValidatePathComponent(path[i])
              THEN Reject("malformed")
              ELSE IF PathKey(path) \in seen THEN Reject("duplicate")
              ELSE IF ~Fits(length) THEN Reject("overflow")
              ELSE /\ files' = Append(files, [length |-> length, path |-> path])
                   /\ seen' = seen \cup {PathKey(path)}
                   /\ total' = Add(total, length)
                   /\ UNCHANGED <<phase, pieceLength, numPieces>>

\* MUTANT of UsedAsDirectory: any prefix counts.
UsedAsDirectoryPrefix(key, next) == IsPrefix(key, next)

\* Whether the file with this key is a directory of the next one.
UsedAsDirectory(key, next) == IsPrefix(key \o <<NUL>>, next)

\* One key comes right after the other when sort.Strings has sorted them all.
Neighbours(key, next) ==
    Less(key, next) /\ ~ \E other \in seen : Less(key, other) /\ Less(other, next)

\* Only neighbours in the sorted list are compared.
EndFiles ==
    /\ phase = "files"
    /\ IF files = <<>> THEN Reject("malformed")
       ELSE IF \E key, next \in seen :
                   Neighbours(key, next) /\ UsedAsDirectory(key, next)
       THEN Reject("directory")
       ELSE /\ phase' = "pieces"
            /\ UNCHANGED <<files, seen, total, pieceLength, numPieces>>

ValidPieceLength(standard) == standard > 0 /\ standard <= MaxPieceLength

\* MUTANT of pieceCount: always one for the rest.
pieceCountRoundsUp(length, standard) ==
    IF length = 0 THEN 0 ELSE length \div standard + 1

pieceCount(length, standard) ==
    IF length = 0 THEN 0
    ELSE length \div standard + (IF length % standard # 0 THEN 1 ELSE 0)

\* The piece length and the number of hashes are the metainfo's.  The code looks
\* at the piece length before the files; neither depends on the other.
CheckPieces ==
    /\ phase = "pieces"
    /\ \E standard \in -1 .. MaxPieceLength + 1, hashes \in 0 .. MaxHashes :
           IF ~ValidPieceLength(standard) THEN Reject("malformed")
           ELSE IF hashes # pieceCount(total, standard) THEN Reject("malformed")
           ELSE /\ phase' = "accepted"
                /\ pieceLength' = standard
                /\ numPieces' = hashes
                /\ UNCHANGED <<files, seen, total>>

Next == ReadLength \/ ReadFile \/ EndFiles \/ CheckPieces

Spec == Init /\ [][Next]_vars

-----------------------------------------------------------------------------
(* What the accepted metainfo is used for.                                 *)

\* NewPieceManager: the length of a piece.
PieceLengthAt(i) ==
    IF i = numPieces - 1 THEN total - i * pieceLength ELSE pieceLength

\* What one more character makes of the parts of a string.
Put(parts, char, separator) ==
    IF char = separator THEN Append(parts, <<>>)
    ELSE Append(Front(parts), Append(Last(parts), char))

\* The parts of a string between the separators.
Split(s, separator) ==
    LET parts[n \in 0 .. Len(s)] ==
            IF n = 0 THEN << <<>> >> ELSE Put(parts[n - 1], s[n], separator)
    IN  parts[Len(s)]

\* filepath.Join below the torrent's directory: the components are joined with
\* separators and the names between the separators are walked.
Names(path) == Split(Join(path, Slash), Slash)

\* Where the walk is: the names below the directory, or outside of it.
Outside == << <<NUL>> >>

Walk(at, name) ==
    IF at = Outside \/ name = <<>> \/ name = <<Dot>> THEN at
    ELSE IF name # <<Dot, Dot>> THEN Append(at, name)
    ELSE IF at = <<>> THEN Outside
    ELSE Front(at)

Resolve(path) ==
    LET names == Names(path)
        at[n \in 0 .. Len(names)] ==
            IF n = 0 THEN <<>> ELSE Walk(at[n - 1], names[n])
    IN  at[Len(names)]

\* The same for a file system that ignores case and dots at the end of a name,
\* the least that the code wants a path to survive.
OnDisk(path) ==
    LET names == Resolve(path)
        Kept(name) == SubSeq(name, 1,
                             SelectLastInSeq(name, LAMBDA char : char # Dot))
    IN  [i \in DOMAIN names |-> ToLower(Kept(names[i]))]

-----------------------------------------------------------------------------
(* Properties.                                                             *)

FilesAccepted == phase \in {"pieces", "accepted"}

\* Every file of an accepted metainfo lies below the torrent's own directory and
\* is a file: no path climbs out, stops at the directory, or names a device.
StaysInside ==
    FilesAccepted =>
        \A i \in DOMAIN files :
            LET names == Resolve(files[i].path)
            IN  /\ names # Outside /\ names # <<>>
                /\ \A j \in DOMAIN names : ToLower(Stem(names[j])) \notin Devices

\* No two files are one on disk, and none has to be a file for one entry and a
\* directory for another, although the code compares only neighbours of a sorted
\* list: openMultiFile would let the two overwrite each other, or fail half-way.
FilesCoexist ==
    FilesAccepted =>
        \A i, j \in DOMAIN files :
            i # j => ~IsPrefix(OnDisk(files[i].path), OnDisk(files[j].path))

\* A metainfo is turned down as "also used as a directory" only if it is so.
ConflictReal ==
    phase = "directory" =>
        \E i, j \in DOMAIN files :
            IsStrictPrefix(OnDisk(files[i].path), OnDisk(files[j].path))

Sum(numbers) ==
    LET sum[n \in 0 .. Len(numbers)] ==
            IF n = 0 THEN 0 ELSE sum[n - 1] + numbers[n]
    IN  sum[Len(numbers)]

\* What the files of the metainfo have together, on paper.
Bytes == IF files = <<>> THEN total
         ELSE Sum([i \in DOMAIN files |-> files[i].length])

\* The pieces of an accepted metainfo tile its bytes: each has at least one and
\* at most pieceLength of them, and together they have all, also when the sum of
\* the lengths does not fit a machine word.  This is what PieceManager assumes.
PiecesTile ==
    phase = "accepted" =>
        LET lengths == [i \in 1 .. numPieces |-> PieceLengthAt(i - 1)]
        IN  /\ \A i \in DOMAIN lengths : lengths[i] \in 1 .. pieceLength
            /\ Bytes = Sum(lengths)

=============================================================================
