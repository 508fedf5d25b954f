---------------------------- MODULE PieceManager ----------------------------
(***************************************************************************)
(* The piece manager of internal/download/manager.go: the state of every   *)
(* piece, guarded by one mutex, and the broadcast channel that is closed   *)
(* and replaced whenever a piece is completed or released.                 *)
(*                                                                         *)
(* Every operator below is one critical section of the mutex, so one       *)
(* atomic step; Worker composes them into the steps of its goroutines.     *)
(*                                                                         *)
(* The channel: a goroutine that calls Updates() holds the channel that is *)
(* current at that moment, and that channel is closed exactly when a       *)
(* notification happens afterwards.  "listening" is therefore the set of   *)
(* goroutines whose channel is still open.                                 *)
(***************************************************************************)
EXTENDS Integers, FiniteSets

CONSTANTS
    NumPieces,      \* len(meta.Pieces)
    TotalLength,    \* meta.Length, in bytes
    PieceLength,    \* meta.PieceLength, in bytes
    Waiters,        \* the goroutines that may call Updates()
    Nil             \* the nil *Piece

Pieces == 0 .. NumPieces - 1

\* The metainfo parser accepts only a piece count that matches the length.
ASSUME MetainfoAssumption ==
    /\ NumPieces \in Nat
    /\ TotalLength \in Nat
    /\ PieceLength \in Nat \ {0}
    /\ TotalLength <= NumPieces * PieceLength
    /\ NumPieces > 0 => (NumPieces - 1) * PieceLength < TotalLength
    /\ Nil \notin Pieces

Missing     == "missing"
Downloading == "downloading"
Verifying   == "verifying"
Complete    == "complete"
PieceState  == {Missing, Downloading, Verifying, Complete}

\* The length of a piece: only the last one may be short.
Length(p) ==
    IF p = NumPieces - 1 THEN TotalLength - p * PieceLength ELSE PieceLength

VARIABLES
    state,      \* managedPiece.state of every piece
    listening,  \* the waiters whose updates channel is still open
    disk        \* "good": the stored bytes of a piece match its hash

pmVars == <<state, listening, disk>>

PMTypeOK ==
    /\ state \in [Pieces -> PieceState]
    /\ listening \in SUBSET Waiters
    /\ disk \in [Pieces -> {"good", "bad"}]

\* NewPieceManager, over whatever an earlier run left in the partial file.
NewPieceManager ==
    /\ state = [p \in Pieces |-> Missing]
    /\ listening = {}
    /\ disk \in [Pieces -> {"good", "bad"}]

IsComplete == \A p \in Pieces : state[p] = Complete

notifyLocked == listening' = {}

Updates(w) ==
    /\ listening' = listening \cup {w}
    /\ UNCHANGED <<state, disk>>

\* One iteration of RestoreExisting: re-hash piece p.
RestorePiece(p) ==
    /\ IF disk[p] = "good"
       THEN /\ state' = [state EXCEPT ![p] = Complete]
            /\ notifyLocked
       ELSE UNCHANGED <<state, listening>>
    /\ UNCHANGED disk

\* MUTANT of Reservable: only pieces that are being downloaded are skipped.
ReservableUnlessDownloading(p) == state[p] # Downloading

Reservable(p) == state[p] = Missing

\* The piece NextPieceForPeer picks: the first one that is missing and that
\* the peer advertises.  Empty when there is none.
NextPiece(bitfield) ==
    {p \in bitfield :
        Reservable(p) /\ \A q \in bitfield : q < p => ~Reservable(q)}

Reserve(p) ==
    /\ state' = [state EXCEPT ![p] = Downloading]
    /\ UNCHANGED <<listening, disk>>

\* MUTANT of MarkFailed: the reservation is forgotten, not released.
MarkFailedForgets(p) == UNCHANGED <<state, listening>>

MarkFailed(p) ==
    IF state[p] = Downloading
    THEN /\ state' = [state EXCEPT ![p] = Missing]
         /\ notifyLocked
    ELSE UNCHANGED <<state, listening>>

resetAfterFailure(p) ==
    IF state[p] # Complete
    THEN /\ state' = [state EXCEPT ![p] = Missing]
         /\ notifyLocked
    ELSE UNCHANGED <<state, listening>>

\* The first and the last critical section of CompletePiece.
BeginVerifying(p) ==
    /\ state' = [state EXCEPT ![p] = Verifying]
    /\ UNCHANGED <<listening, disk>>

Publish(p) ==
    /\ state' = [state EXCEPT ![p] = Complete]
    /\ notifyLocked
    /\ UNCHANGED disk

=============================================================================
