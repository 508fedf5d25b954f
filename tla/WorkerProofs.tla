---------------------------- MODULE WorkerProofs ----------------------------
(***************************************************************************)
(* Proofs about Worker, for every number of workers, pieces and blocks.    *)
(***************************************************************************)
EXTENDS Worker, TLAPS

\* Every piece has at least one byte and at most PieceLength: the metainfo's
\* piece count leaves nothing for a piece beyond the last.
LEMMA LengthInRange ==
    \A p \in Pieces : Length(p) \in 1 .. PieceLength
  <1> SUFFICES ASSUME NEW p \in Pieces
               PROVE  Length(p) \in 1 .. PieceLength
    OBVIOUS
  <1> USE MetainfoAssumption
  <1>1. CASE p = NumPieces - 1
    <2>1. (NumPieces - 1) * PieceLength = NumPieces * PieceLength - PieceLength
      OBVIOUS
    <2>2. QED
      BY <1>1, <2>1 DEF Length, Pieces
  <1>2. CASE p # NumPieces - 1
    BY <1>2 DEF Length, Pieces
  <1>3. QED
    BY <1>1, <1>2

USE DEF Missing, Downloading, Verifying, Complete

\* The values a worker starts with are in range.
LEMMA EmptyInRange == NoBytes \in Bytes /\ NoRequest \in Requests
  BY MetainfoAssumption DEF NoBytes, Bytes, NoRequest, Requests

\* Who keeps the piece keeps the bytes of it.
LEMMA BytesKept ==
    ASSUME TypeOK, UNCHANGED <<currentPiece, completing, received>>
    PROVE  WithinPiece'
  BY DEF TypeOK, WithinPiece, Held

\* Who gives up a piece, or takes a new one, has no bytes.
LEMMA BytesForgotten ==
    ASSUME TypeOK, NEW w \in Workers,
           received' = [received EXCEPT ![w] = NoBytes],
           \A v \in Workers : v # w => Held(v)' = Held(v),
           Held(w)' \in Pieces \cup {Nil}
    PROVE  WithinPiece'
  <1> SUFFICES ASSUME NEW v \in Workers, Held(v)' # Nil
               PROVE  received'[v].length <= Length(Held(v)')
    BY DEF WithinPiece
  <1>1. CASE v = w
    BY <1>1, LengthInRange, MetainfoAssumption DEF TypeOK, NoBytes
  <1>2. CASE v # w
    BY <1>2 DEF TypeOK, WithinPiece
  <1>3. QED
    BY <1>1, <1>2

\* The invariant holds before RestoreExisting runs.
LEMMA InitIInv == Init => IInv
  <1> SUFFICES ASSUME Init PROVE IInv
    OBVIOUS
  <1> USE MetainfoAssumption DEF Init, NewPieceManager
  <1>1. TypeOK
    <2>1. NoBytes \in Bytes /\ NoRequest \in Requests
      BY EmptyInRange
    <2>2. PMTypeOK
      BY DEF PMTypeOK, PieceState
    <2>3. /\ cancelled \in BOOLEAN
          /\ unchoked \in [Workers -> BOOLEAN]
          /\ blockDeadline \in [Workers -> BOOLEAN]
      BY Zenon
    <2>4. /\ restored \in 0 .. NumPieces
          /\ pc \in [Workers -> PC]
          /\ peerBitfield \in [Workers -> SUBSET Pieces]
          /\ currentPiece \in [Workers -> Pieces \cup {Nil}]
          /\ received \in [Workers -> Bytes]
          /\ expected \in [Workers -> Requests]
          /\ completing \in [Workers -> Pieces \cup {Nil}]
      BY <2>1 DEF PC
    <2>5. WithinPiece
      BY DEF WithinPiece, Held
    <2>6. QED
      BY <2>2, <2>3, <2>4, <2>5, Zenon DEF TypeOK
  <1>2. ControlInv
    BY DEF ControlInv
  <1>3. OwnerInv
    BY DEF OwnerInv, HolderAgrees, HolderUnique, HolderExists, NotYetRestored, Held
  <1>4. CompleteIsStored
    BY DEF CompleteIsStored
  <1>5. QED
    BY <1>1, <1>2, <1>3, <1>4 DEF IInv

\* A step that moves the goroutine and touches neither pieces nor disk: the
\* head of the loop, an update, most messages.
LEMMA LocalStep ==
    ASSUME IInv, NEW w \in Workers, NEW to,
           pc[w] \in {"loop", "select", "check", "request"},
           to \in {"loop", "select", "check", "request", "exit"},
           Goto(w, to),
           listening' \in SUBSET Waiters,
           unchoked' \in [Workers -> BOOLEAN],
           peerBitfield' \in [Workers -> SUBSET Pieces],
           UNCHANGED <<state, disk, restored, cancelled, jobVars>>
    PROVE  IInv'
  <1> USE DEF IInv, Goto, jobVars
  <1>bytes. WithinPiece'
    BY BytesKept
  <1>1. TypeOK'
    BY <1>bytes DEF TypeOK, PMTypeOK, PC
  <1>2. ControlInv'
    BY DEF ControlInv, NextRequest, Remaining, TypeOK
  <1>3. OwnerInv'
    BY DEF OwnerInv, HolderAgrees, HolderUnique, HolderExists, NotYetRestored,
           Held, TypeOK
  <1>4. CompleteIsStored'
    BY DEF CompleteIsStored
  <1>5. QED
    BY <1>1, <1>2, <1>3, <1>4

\* releaseCurrent gives the piece back and forgets it, on every path.
LEMMA ReleaseStep ==
    ASSUME IInv, NEW w \in Workers, NEW to,
           pc[w] \in {"select", "send", "exit"},
           to \in {"loop", "exit", "done"},
           Goto(w, to),
           releaseCurrent(w),
           unchoked' \in [Workers -> BOOLEAN],
           peerBitfield' \in [Workers -> SUBSET Pieces],
           UNCHANGED <<restored, cancelled>>
    PROVE  IInv'
  <1> DEFINE p == currentPiece[w]
  <1> USE DEF IInv, Goto, releaseCurrent, ForgetCurrent, stopBlockTimer
  <1>1. /\ p # Nil => state[p] = Downloading /\ p \in Pieces
        /\ completing[w] = Nil
    BY DEF OwnerInv, HolderAgrees, ControlInv, TypeOK
  <1>2. /\ p # Nil => state' = [state EXCEPT ![p] = Missing] /\ listening' = {}
        /\ p = Nil => UNCHANGED <<state, listening>>
    BY <1>1 DEF MarkFailed, notifyLocked
  <1>bytes. WithinPiece'
    BY <1>1, BytesForgotten DEF Held, TypeOK
  <1>3. TypeOK'
    BY <1>bytes, <1>1, <1>2, EmptyInRange DEF TypeOK, PMTypeOK, PC, PieceState
  <1>4. ControlInv'
    BY <1>1 DEF ControlInv, NextRequest, Remaining, TypeOK
  <1>5. OwnerInv'
    BY <1>1, <1>2 DEF OwnerInv, HolderAgrees, HolderUnique, HolderExists, NotYetRestored,
           ControlInv, Held, TypeOK, PMTypeOK
  <1>6. CompleteIsStored'
    BY <1>1, <1>2 DEF CompleteIsStored, TypeOK, PMTypeOK
  <1>7. QED
    BY <1>3, <1>4, <1>5, <1>6

\* Start-up steps: no worker has begun, so only the manager's state moves.
LEMMA RestoreStep == IInv /\ RestoreExisting => IInv'
  <1> SUFFICES ASSUME IInv, RestoreExisting PROVE IInv'
    OBVIOUS
  <1> USE MetainfoAssumption
      DEF IInv, RestoreExisting, RestorePiece, notifyLocked, connVars, jobVars
  <1>1. restored \in Pieces /\ restored' \in 0 .. NumPieces
    BY DEF TypeOK, Pieces
  <1>2. \A w \in Workers : pc[w] = "idle" /\ Held(w) = Nil
    BY DEF ControlInv, TypeOK, Held
  <1>bytes. WithinPiece'
    BY BytesKept
  <1>3. TypeOK'
    BY <1>bytes, <1>1 DEF TypeOK, PMTypeOK, PieceState
  <1>4. ControlInv'
    BY <1>2 DEF ControlInv, NextRequest, Remaining
  <1>5. OwnerInv'
    BY <1>1, <1>2 DEF OwnerInv, HolderAgrees, HolderUnique, HolderExists, NotYetRestored,
           Held, TypeOK, PMTypeOK, Pieces
  <1>6. CompleteIsStored'
    BY <1>1 DEF CompleteIsStored, TypeOK, PMTypeOK
  <1>7. QED
    BY <1>3, <1>4, <1>5, <1>6

\* A step that changes nothing the invariant speaks of but the context.
LEMMA CancelStep == IInv /\ Cancel => IInv'
  <1> SUFFICES ASSUME IInv, Cancel PROVE IInv'
    OBVIOUS
  <1> USE DEF IInv, Cancel, pmVars, connVars, jobVars
  <1>bytes. WithinPiece'
    BY BytesKept
  <1>1. TypeOK'
    BY <1>bytes DEF TypeOK, PMTypeOK
  <1>2. ControlInv' /\ OwnerInv' /\ CompleteIsStored'
    BY DEF ControlInv, OwnerInv, HolderAgrees, HolderUnique, HolderExists,
           NotYetRestored, CompleteIsStored, NextRequest, Remaining, Held
  <1>3. QED
    BY <1>1, <1>2

\* Dial and handshake: the worker begins its loop, or is over.
LEMMA StartStep ==
    ASSUME IInv, NEW w \in Workers, StartWorker(w)
    PROVE  IInv'
  <1> USE DEF IInv, StartWorker, Goto, pmVars, connVars, jobVars
  <1>bytes. WithinPiece'
    BY BytesKept
  <1>1. TypeOK'
    BY <1>bytes DEF TypeOK, PMTypeOK, PC
  <1>2. ControlInv'
    BY DEF ControlInv, NextRequest, Remaining, TypeOK
  <1>3. OwnerInv'
    BY DEF OwnerInv, HolderAgrees, HolderUnique, HolderExists, NotYetRestored,
           Held, TypeOK
  <1>4. CompleteIsStored'
    BY DEF CompleteIsStored
  <1>5. QED
    BY <1>1, <1>2, <1>3, <1>4

\* requestNextPiece when the manager hands out a piece.
LEMMA ReserveStep ==
    ASSUME IInv, NEW w \in Workers, NEW p \in NextPiece(peerBitfield[w]),
           pc[w] = "request", CanRequest(w),
           Reserve(p),
           currentPiece' = [currentPiece EXCEPT ![w] = p],
           received' = [received EXCEPT ![w] = NoBytes],
           Goto(w, "send"),
           UNCHANGED <<restored, cancelled, connVars, expected, blockDeadline,
                       completing>>
    PROVE  IInv'
  <1> USE DEF IInv, CanRequest, Reserve, Goto, connVars
  <1>1. /\ p \in Pieces /\ state[p] = Missing /\ p # Nil
        /\ restored = NumPieces /\ completing[w] = Nil /\ Held(w) = Nil
    BY MetainfoAssumption DEF NextPiece, Reservable, TypeOK, ControlInv, Held
  <1>bytes. WithinPiece'
    BY <1>1, BytesForgotten DEF Held, TypeOK
  <1>2. TypeOK'
    BY <1>bytes, <1>1, EmptyInRange DEF TypeOK, PMTypeOK, PC, PieceState
  <1>3. ControlInv'
    <2>1. Length(p) \in 1 .. PieceLength
      BY <1>1, LengthInRange
    <2>2. QED
      BY <1>1, <2>1, MetainfoAssumption
      DEF ControlInv, NextRequest, Remaining, TypeOK, NoBytes
  <1>4. OwnerInv'
    <2>1. \A v \in Workers : Held(v) # p
      BY <1>1 DEF OwnerInv, HolderAgrees, ControlInv, Held, TypeOK
    <2>2. \A v \in Workers : Held(v)' = IF v = w THEN p ELSE Held(v)
      BY <1>1 DEF Held, TypeOK
    <2>3. HolderAgrees'
      BY <1>1, <2>1, <2>2
      DEF OwnerInv, HolderAgrees, ControlInv, TypeOK, PMTypeOK, Held
    <2>4. HolderUnique'
      BY <2>1, <2>2 DEF OwnerInv, HolderUnique
    <2>5. HolderExists'
      <3> SUFFICES ASSUME NEW q \in Pieces, state'[q] \in {Downloading, Verifying}
                   PROVE  \E v \in Workers : Held(v)' = q
        BY DEF HolderExists
      <3>1. CASE q = p
        BY <3>1, <2>2
      <3>2. CASE q # p
        <4>1. state[q] \in {Downloading, Verifying}
          BY <3>2, <1>1 DEF TypeOK, PMTypeOK
        <4>2. PICK v \in Workers : Held(v) = q
          BY <4>1 DEF OwnerInv, HolderExists
        <4>3. v # w
          BY <4>2, <1>1, MetainfoAssumption
        <4>4. QED
          BY <4>2, <4>3, <2>2
      <3>3. QED
        BY <3>1, <3>2
    <2>6. NotYetRestored'
      BY <1>1, MetainfoAssumption DEF NotYetRestored, Pieces
    <2>7. QED
      BY <2>3, <2>4, <2>5, <2>6 DEF OwnerInv
  <1>5. CompleteIsStored'
    BY <1>1 DEF CompleteIsStored, TypeOK, PMTypeOK
  <1>6. QED
    BY <1>2, <1>3, <1>4, <1>5

\* A request that reaches the wire stays inside the piece.
LEMMA SendStep ==
    ASSUME IInv, NEW w \in Workers,
           pc[w] = "send", SendRequest(w),
           UNCHANGED <<restored, cancelled, connVars>>
    PROVE  IInv'
  <1> USE DEF IInv, SendRequest, resetBlockTimer, Goto, pmVars, connVars
  <1>1. /\ currentPiece[w] \in Pieces
        /\ Length(currentPiece[w]) \in 1 .. PieceLength
        /\ received[w].length \in 0 .. PieceLength
    BY LengthInRange DEF ControlInv, TypeOK, Bytes
  <1>2. NextRequest(w) \in Requests
    BY <1>1, MetainfoAssumption, WorkerAssumption
    DEF NextRequest, Remaining, Requests
  <1>bytes. WithinPiece'
    BY BytesKept
  <1>3. TypeOK'
    BY <1>bytes, <1>2 DEF TypeOK, PMTypeOK, PC
  <1>4. ControlInv'
    BY DEF ControlInv, NextRequest, Remaining, TypeOK
  <1>5. OwnerInv'
    BY DEF OwnerInv, HolderAgrees, HolderUnique, HolderExists, NotYetRestored,
           Held, TypeOK
  <1>6. CompleteIsStored'
    BY DEF CompleteIsStored
  <1>7. QED
    BY <1>3, <1>4, <1>5, <1>6

\* An accepted block: more of the piece, or the hand-over to CompletePiece.
LEMMA BlockStep ==
    ASSUME IInv, NEW w \in Workers, NEW p \in Pieces,
           NEW begin \in Offsets, NEW length \in Offsets, NEW good \in BOOLEAN,
           MsgPieceBlock(w, p, begin, length, good)
    PROVE  IInv'
  <1> USE DEF IInv, MsgPieceBlock, AtSelect, stopBlockTimer, HandOver, Goto,
              pmVars, connVars
  <1>1. /\ currentPiece[w] = p /\ p # Nil /\ completing[w] = Nil
        /\ state[p] = Downloading
        /\ received[w].length + length <= Length(p)
        /\ Length(p) \in 1 .. PieceLength
        /\ received[w].length \in 0 .. PieceLength
        /\ received[w].good \in BOOLEAN
    BY LengthInRange, MetainfoAssumption
    DEF Answers, ControlInv, OwnerInv, HolderAgrees, TypeOK, Bytes
  <1>2. /\ received[w].length + length \in 0 .. PieceLength
        /\ length \in Nat
    BY <1>1, MetainfoAssumption DEF Offsets
  <1>3. received' \in [Workers -> Bytes]
    BY <1>1, <1>2 DEF TypeOK, Bytes
  <1>bytes. WithinPiece'
    BY <1>1, <1>2 DEF WithinPiece, Held, TypeOK
  <1>4. TypeOK'
    BY <1>bytes, <1>3 DEF TypeOK, PMTypeOK, PC
  <1>5. ControlInv'
    BY <1>1, <1>2 DEF ControlInv, NextRequest, Remaining, TypeOK
  <1>6. \A v \in Workers : Held(v)' = Held(v)
    BY <1>1 DEF Held, TypeOK
  <1>7. OwnerInv'
    BY <1>1, <1>6 DEF OwnerInv, HolderAgrees, HolderUnique, HolderExists,
                      NotYetRestored, ControlInv, TypeOK
  <1>8. CompleteIsStored'
    BY DEF CompleteIsStored
  <1>9. QED
    BY <1>4, <1>5, <1>7, <1>8

\* The first critical section of CompletePiece, which finds the reservation.
LEMMA BeginStep ==
    ASSUME IInv, NEW w \in Workers, CompletePiece(w)
    PROVE  IInv'
  <1> DEFINE p == completing[w]
  <1> USE DEF IInv, CompletePiece, BeginVerifying, Goto, jobVars, connVars
  <1>1. /\ p \in Pieces /\ p # Nil /\ state[p] = Downloading
        /\ restored = NumPieces /\ currentPiece[w] = Nil
    BY DEF ControlInv, OwnerInv, HolderAgrees, TypeOK
  <1>2. \A v \in Workers : v # w => currentPiece[v] # p /\ completing[v] # p
    BY <1>1 DEF OwnerInv, HolderUnique, ControlInv, Held, TypeOK
  <1>bytes. WithinPiece'
    BY <1>1, BytesKept
  <1>3. TypeOK'
    BY <1>bytes, <1>1 DEF TypeOK, PMTypeOK, PC, PieceState
  <1>4. ControlInv'
    BY <1>1 DEF ControlInv, NextRequest, Remaining, TypeOK
  <1>5. OwnerInv'
    <2>1. HolderAgrees'
      BY <1>1, <1>2 DEF OwnerInv, HolderAgrees, ControlInv, TypeOK, PMTypeOK
    <2>2. HolderUnique'
      BY <1>1 DEF OwnerInv, HolderUnique, Held
    <2>3. HolderExists'
      BY <1>1 DEF OwnerInv, HolderExists, Held, TypeOK, PMTypeOK
    <2>4. NotYetRestored'
      BY <1>1, MetainfoAssumption DEF NotYetRestored, Pieces
    <2>5. QED
      BY <2>1, <2>2, <2>3, <2>4 DEF OwnerInv
  <1>6. CompleteIsStored'
    BY <1>1 DEF CompleteIsStored, TypeOK, PMTypeOK
  <1>7. QED
    BY <1>3, <1>4, <1>5, <1>6

\* CompletePiece ends: the piece is given back, or it is complete and stored.
LEMMA EndStep ==
    ASSUME IInv, NEW w \in Workers,
           pc[w] \in {"verify", "write", "publish"},
           \/ state' = [state EXCEPT ![completing[w]] = Missing]
           \/ /\ state' = [state EXCEPT ![completing[w]] = Complete]
              /\ disk'[completing[w]] = "good",
           listening' = {},
           disk' \in [Pieces -> {"good", "bad"}],
           \A q \in Pieces : q # completing[w] => disk'[q] = disk[q],
           EndCompletePiece(w),
           Goto(w, "exit") \/ Goto(w, "check"),
           UNCHANGED <<restored, cancelled, connVars>>
    PROVE  IInv'
  <1> DEFINE p == completing[w]
  <1> USE DEF IInv, EndCompletePiece, Goto, connVars
  <1>1. /\ p \in Pieces /\ p # Nil /\ state[p] = Verifying
        /\ restored = NumPieces /\ currentPiece[w] = Nil /\ Held(w) = p
    BY DEF ControlInv, OwnerInv, HolderAgrees, TypeOK, Held
  <1>2. \A v \in Workers : v # w => currentPiece[v] # p /\ completing[v] # p
    BY <1>1 DEF OwnerInv, HolderUnique, ControlInv, Held, TypeOK
  <1>bytes. WithinPiece'
    BY <1>1, BytesForgotten DEF Held, TypeOK
  <1>3. TypeOK'
    BY <1>bytes, <1>1, EmptyInRange DEF TypeOK, PMTypeOK, PC, PieceState
  <1>4. ControlInv'
    BY <1>1, <1>2 DEF ControlInv, NextRequest, Remaining, TypeOK
  <1>5. OwnerInv'
    <2>1. \A v \in Workers : Held(v)' = IF v = w THEN Nil ELSE Held(v)
      BY <1>1 DEF Held, TypeOK
    <2>2. HolderAgrees'
      BY <1>1, <1>2 DEF OwnerInv, HolderAgrees, ControlInv, TypeOK, PMTypeOK
    <2>3. HolderUnique'
      BY <2>1 DEF OwnerInv, HolderUnique
    <2>4. HolderExists'
      <3> SUFFICES ASSUME NEW q \in Pieces, state'[q] \in {Downloading, Verifying}
                   PROVE  \E v \in Workers : Held(v)' = q
        BY DEF HolderExists
      <3>1. q # p /\ state[q] \in {Downloading, Verifying}
        BY <1>1 DEF TypeOK, PMTypeOK
      <3>2. PICK v \in Workers : Held(v) = q
        BY <3>1 DEF OwnerInv, HolderExists
      <3>3. QED
        BY <1>1, <2>1, <3>1, <3>2
    <2>5. NotYetRestored'
      BY <1>1, MetainfoAssumption DEF NotYetRestored, Pieces
    <2>6. QED
      BY <2>2, <2>3, <2>4, <2>5 DEF OwnerInv
  <1>6. CompleteIsStored'
    BY <1>1 DEF CompleteIsStored, TypeOK, PMTypeOK
  <1>7. QED
    BY <1>3, <1>4, <1>5, <1>6

\* A failed check or write gives the piece back: it is still being verified.
LEMMA ResetReleases ==
    ASSUME IInv, NEW w \in Workers, pc[w] \in {"verify", "write"},
           resetAfterFailure(completing[w])
    PROVE  /\ state' = [state EXCEPT ![completing[w]] = Missing]
           /\ listening' = {}
  BY DEF IInv, OwnerInv, HolderAgrees, resetAfterFailure, notifyLocked

\* The length and hash check of CompletePiece.
LEMMA VerifyStep ==
    ASSUME IInv, NEW w \in Workers, VerifyPiece(w)
    PROVE  IInv'
  <1> USE DEF VerifyPiece
  <1>1. CASE DataValid(w)
    <2> USE <1>1 DEF IInv, DataValid, Goto, pmVars, connVars, jobVars
    <2>bytes. WithinPiece'
      BY BytesKept
    <2>1. TypeOK'
      BY <2>bytes DEF TypeOK, PMTypeOK, PC
    <2>2. ControlInv'
      BY DEF ControlInv, NextRequest, Remaining, TypeOK
    <2>3. OwnerInv'
      BY DEF OwnerInv, HolderAgrees, HolderUnique, HolderExists, NotYetRestored,
             Held, TypeOK
    <2>4. CompleteIsStored'
      BY DEF CompleteIsStored
    <2>5. QED
      BY <2>1, <2>2, <2>3, <2>4
  <1>2. CASE ~DataValid(w)
    <2>1. disk \in [Pieces -> {"good", "bad"}]
      BY DEF IInv, TypeOK, PMTypeOK
    <2>2. QED
      BY <1>2, <2>1, ResetReleases, EndStep
  <1>3. QED
    BY <1>1, <1>2

\* WritePiece stores the piece, or fails and CompletePiece gives it back.
LEMMA WriteStep ==
    ASSUME IInv, NEW w \in Workers, WritePiece(w)
    PROVE  IInv'
  <1> DEFINE p == completing[w]
  <1> USE DEF WritePiece
  <1>1. /\ p \in Pieces /\ p # Nil /\ state[p] = Verifying
        /\ received[w].good
        /\ disk \in [Pieces -> {"good", "bad"}]
    BY DEF IInv, ControlInv, OwnerInv, HolderAgrees, TypeOK, PMTypeOK
  <1>2. CASE WriteOK(w)
    <2> USE <1>2 DEF IInv, WriteOK, Goto, connVars, jobVars
    <2>1. disk' = [disk EXCEPT ![p] = "good"]
      BY <1>1
    <2>bytes. WithinPiece'
      BY BytesKept
    <2>2. TypeOK'
      BY <2>bytes, <1>1, <2>1 DEF TypeOK, PMTypeOK, PC
    <2>3. ControlInv'
      BY <1>1, <2>1 DEF ControlInv, NextRequest, Remaining, TypeOK, PMTypeOK
    <2>4. OwnerInv'
      BY DEF OwnerInv, HolderAgrees, HolderUnique, HolderExists, NotYetRestored,
             Held, TypeOK
    <2>5. CompleteIsStored'
      BY <1>1, <2>1 DEF CompleteIsStored, TypeOK, PMTypeOK
    <2>6. QED
      BY <2>2, <2>3, <2>4, <2>5
  <1>3. CASE WriteFailed(w)
    <2>1. /\ disk' \in [Pieces -> {"good", "bad"}]
          /\ \A q \in Pieces : q # p => disk'[q] = disk[q]
      BY <1>1, <1>3 DEF WriteFailed
    <2>2. QED
      BY <1>3, <2>1, ResetReleases, EndStep DEF WriteFailed
  <1>4. QED
    BY <1>2, <1>3

\* The last critical section of CompletePiece.
LEMMA PublishStep ==
    ASSUME IInv, NEW w \in Workers, PublishPiece(w)
    PROVE  IInv'
  <1> USE DEF PublishPiece, Publish, notifyLocked
  <1>1. /\ disk \in [Pieces -> {"good", "bad"}]
        /\ disk[completing[w]] = "good"
    BY DEF IInv, TypeOK, PMTypeOK, ControlInv
  <1>2. /\ disk'[completing[w]] = "good"
        /\ disk' \in [Pieces -> {"good", "bad"}]
        /\ \A q \in Pieces : q # completing[w] => disk'[q] = disk[q]
    BY <1>1
  <1>3. QED
    BY <1>2, EndStep

\* The steps a goroutine takes on its own.
LEMMA RunStep ==
    ASSUME IInv, NEW w \in Workers, Run(w)
    PROVE  IInv'
  <1> USE DEF pmVars, connVars
  <1>0. /\ listening \in SUBSET Waiters
        /\ unchoked \in [Workers -> BOOLEAN]
        /\ peerBitfield \in [Workers -> SUBSET Pieces]
    BY DEF IInv, TypeOK, PMTypeOK
  <1>1. CASE FetchUpdates(w)
    <2>1. listening' \in SUBSET Waiters
      BY <1>0, <1>1, WorkerAssumption DEF FetchUpdates, Updates
    <2>2. QED
      BY <1>0, <1>1, <2>1, LocalStep DEF FetchUpdates, Updates
  <1>2. CASE CheckComplete(w)
    <2>1. CASE IsComplete
      BY <1>0, <1>2, <2>1, LocalStep DEF CheckComplete
    <2>2. CASE ~IsComplete
      BY <1>0, <1>2, <2>2, LocalStep DEF CheckComplete
    <2>3. QED
      BY <2>1, <2>2
  <1>3. CASE requestNextPiece(w)
    <2>1. CASE CanRequest(w) /\ NextPiece(peerBitfield[w]) # {}
      BY <1>3, <2>1, ReserveStep DEF requestNextPiece
    <2>2. CASE ~(CanRequest(w) /\ NextPiece(peerBitfield[w]) # {})
      BY <1>0, <1>3, <2>2, LocalStep DEF requestNextPiece, jobVars
    <2>3. QED
      BY <2>1, <2>2
  <1>4. CASE requestBlock(w)
    <2>1. CASE SendRequest(w)
      BY <1>4, <2>1, SendStep DEF requestBlock
    <2>2. CASE FailRequest(w)
      BY <1>0, <1>4, <2>2, ReleaseStep DEF requestBlock, FailRequest
    <2>3. QED
      BY <1>4, <2>1, <2>2 DEF requestBlock
  <1>5. CASE CompletePiece(w)
    BY <1>5, BeginStep
  <1>6. CASE VerifyPiece(w)
    BY <1>6, VerifyStep
  <1>7. CASE WritePiece(w)
    BY <1>7, WriteStep
  <1>8. CASE PublishPiece(w)
    BY <1>8, PublishStep
  <1>9. CASE Exit(w)
    <2>1. /\ unchoked' \in [Workers -> BOOLEAN]
          /\ peerBitfield' \in [Workers -> SUBSET Pieces]
      BY <1>0, <1>9 DEF Exit
    <2>2. QED
      BY <1>9, <2>1, ReleaseStep DEF Exit
  <1>10. QED
    BY <1>1, <1>2, <1>3, <1>4, <1>5, <1>6, <1>7, <1>8, <1>9 DEF Run

\* The cases of the select.
LEMMA SelectStep ==
    ASSUME IInv, NEW w \in Workers,
           ContextDone(w) \/ BlockTimeout(w) \/ UpdateReady(w) \/ Receive(w)
    PROVE  IInv'
  <1> USE DEF pmVars, connVars, AtSelect
  <1>0. /\ listening \in SUBSET Waiters
        /\ unchoked \in [Workers -> BOOLEAN]
        /\ peerBitfield \in [Workers -> SUBSET Pieces]
    BY DEF IInv, TypeOK, PMTypeOK
  <1>1. CASE ContextDone(w)
    BY <1>0, <1>1, LocalStep DEF ContextDone
  <1>2. CASE BlockTimeout(w)
    BY <1>0, <1>2, ReleaseStep DEF BlockTimeout
  <1>3. CASE UpdateReady(w)
    BY <1>0, <1>3, LocalStep DEF UpdateReady
  <1>4. CASE PeerFailed(w)
    BY <1>0, <1>4, LocalStep DEF PeerFailed
  <1>5. CASE IgnoreMessage(w)
    BY <1>0, <1>5, LocalStep DEF IgnoreMessage
  <1>6. ASSUME NEW pieces \in SUBSET Pieces, MsgBitfield(w, pieces)
        PROVE  IInv'
    <2>1. peerBitfield' \in [Workers -> SUBSET Pieces]
      BY <1>0, <1>6 DEF MsgBitfield
    <2>2. QED
      BY <1>0, <1>6, <2>1, LocalStep DEF MsgBitfield
  <1>7. ASSUME NEW p \in Pieces, MsgHave(w, p)
        PROVE  IInv'
    <2>1. peerBitfield' \in [Workers -> SUBSET Pieces]
      BY <1>0, <1>7 DEF MsgHave
    <2>2. QED
      BY <1>0, <1>7, <2>1, LocalStep DEF MsgHave
  <1>8. CASE MsgChoke(w)
    <2>1. unchoked' \in [Workers -> BOOLEAN]
      BY <1>0, <1>8 DEF MsgChoke
    <2>2. QED
      BY <1>0, <1>8, <2>1, ReleaseStep DEF MsgChoke
  <1>9. CASE MsgUnchoke(w)
    <2>1. unchoked' \in [Workers -> BOOLEAN]
      BY <1>0, <1>9 DEF MsgUnchoke
    <2>2. QED
      BY <1>0, <1>9, <2>1, LocalStep DEF MsgUnchoke
  <1>10. ASSUME NEW p \in Pieces, MsgPieceLate(w, p)
         PROVE  IInv'
    BY <1>0, <1>10, LocalStep DEF MsgPieceLate
  <1>11. ASSUME NEW p \in Pieces, NEW begin \in Offsets, NEW length \in Offsets,
                MsgPieceUnexpected(w, p, begin, length)
         PROVE  IInv'
    BY <1>0, <1>11, ReleaseStep DEF MsgPieceUnexpected
  <1>12. QED
    BY <1>1, <1>2, <1>3, <1>4, <1>5, <1>6, <1>7, <1>8, <1>9, <1>10, <1>11,
       BlockStep
    DEF Receive

\* The invariant holds in every reachable state.
THEOREM Invariance == Spec => []IInv
  <1>1. ASSUME IInv, [Next]_vars
        PROVE  IInv'
    <2>1. CASE UNCHANGED vars
      BY <1>1, <2>1
      DEF vars, IInv, TypeOK, WithinPiece, PMTypeOK, ControlInv, OwnerInv, HolderAgrees,
          HolderUnique, HolderExists, NotYetRestored, CompleteIsStored, Held,
          NextRequest, Remaining
    <2>2. CASE RestoreExisting
      BY <1>1, <2>2, RestoreStep
    <2>3. CASE Cancel
      BY <1>1, <2>3, CancelStep
    <2>4. ASSUME NEW w \in Workers,
                 \/ StartWorker(w)
                 \/ Run(w)
                 \/ ContextDone(w)
                 \/ BlockTimeout(w)
                 \/ UpdateReady(w)
                 \/ Receive(w)
          PROVE  IInv'
      BY <1>1, <2>4, StartStep, RunStep, SelectStep
    <2>5. QED
      BY <1>1, <2>1, <2>2, <2>3, <2>4 DEF Next
  <1>2. QED
    BY <1>1, InitIInv, PTL DEF Spec

\* Every variable keeps its type: in particular no worker ever collects or
\* asks for more bytes than a piece has.
THEOREM TypeCorrect == Spec => []TypeOK
  <1>1. IInv => TypeOK
    BY DEF IInv
  <1>2. QED
    BY <1>1, Invariance, PTL

\* A piece is reserved exactly while one live worker answers for it.
THEOREM ReservationSafe == Spec => []ReservationOwned
  <1>1. IInv => ReservationOwned
    <2> SUFFICES ASSUME IInv PROVE ReservationOwned
      OBVIOUS
    <2> USE DEF IInv
    <2>1. ASSUME NEW w \in Workers
          PROVE  /\ Held(w) # Nil =>
                        /\ state[Held(w)] \in {Downloading, Verifying}
                        /\ pc[w] \notin {"idle", "done"}
                 /\ currentPiece[w] # Nil =>
                        /\ state[currentPiece[w]] = Downloading
                        /\ completing[w] = Nil
      BY DEF ControlInv, OwnerInv, HolderAgrees, Held, TypeOK
    <2>2. QED
      BY <2>1 DEF ReservationOwned, OwnerInv, HolderUnique, HolderExists
  <1>2. QED
    BY <1>1, Invariance, PTL

\* A piece called complete has the right bytes on disk.
THEOREM StoredSafe == Spec => []CompleteIsStored
  <1>1. IInv => CompleteIsStored
    BY DEF IInv
  <1>2. QED
    BY <1>1, Invariance, PTL

\* The timeout case never finds currentPiece nil, and a piece waited for at
\* the select always has a deadline.
THEOREM DeadlineSafe == Spec => []DeadlineMatchesPiece
  <1>1. IInv => DeadlineMatchesPiece
    BY DEF IInv, ControlInv, DeadlineMatchesPiece, AtSelect
  <1>2. QED
    BY <1>1, Invariance, PTL

\* The answer to the outstanding request is always accepted.
THEOREM HonestPeerSafe == Spec => []HonestBlockAccepted
  <1>1. IInv => HonestBlockAccepted
    <2> SUFFICES ASSUME IInv, NEW w \in Workers,
                        AtSelect(w), currentPiece[w] # Nil
                 PROVE  /\ expected[w].length \in 1 .. BlockSize
                        /\ expected[w].begin = received[w].length
                        /\ Answers(w, currentPiece[w], expected[w].begin,
                                   expected[w].length)
      BY DEF HonestBlockAccepted
    <2>1. /\ expected[w] = NextRequest(w)
          /\ received[w].length < Length(currentPiece[w])
          /\ received[w].length \in Nat
          /\ Length(currentPiece[w]) \in Nat
      BY LengthInRange, MetainfoAssumption
      DEF IInv, ControlInv, AtSelect, TypeOK, Bytes
    <2>2. QED
      BY <2>1, WorkerAssumption DEF NextRequest, Remaining, Answers
  <1>2. QED
    BY <1>1, Invariance, PTL

-----------------------------------------------------------------------------
(* What a step does to the pieces and to the workers' claims: complete     *)
(* pieces stay as they are, and the step is one of PieceExchange or        *)
(* changes nothing there.                                                  *)

CompleteKept ==
    \A p \in Pieces : state[p] = Complete
        => state'[p] = Complete /\ disk'[p] = disk[p]

Effect == CompleteKept /\ [PX!PXNext]_(PX!pxVars)

\* Once a worker runs, RestoreExisting is over: stored means complete.
LEMMA StoredIsComplete ==
    ASSUME IInv, NEW w \in Workers, pc[w] # "idle"
    PROVE  /\ restored = NumPieces
           /\ Stored = {p \in Pieces : state[p] = Complete}
  BY MetainfoAssumption DEF IInv, ControlInv, Stored, Pieces

\* The same in the next state, when the worker takes a step.
LEMMA StoredIsCompleteNext ==
    ASSUME IInv, NEW w \in Workers, pc[w] # "idle", UNCHANGED restored
    PROVE  Stored' = {p \in Pieces : state'[p] = Complete}
  BY MetainfoAssumption DEF IInv, ControlInv, Stored, Pieces

\* A step that leaves the manager, the disk and the claims alone.
LEMMA QuietEffect ==
    ASSUME UNCHANGED <<state, disk, restored, currentPiece, completing>>
    PROVE  Effect
  <1>1. CompleteKept
    BY DEF CompleteKept
  <1>2. UNCHANGED PX!pxVars
    BY DEF PX!pxVars, Stored, Held
  <1>3. QED
    BY <1>1, <1>2 DEF Effect

\* releaseCurrent drops the claim, or there was none.
LEMMA ReleaseEffect ==
    ASSUME IInv, NEW w \in Workers, pc[w] \in {"select", "send", "exit"},
           releaseCurrent(w), UNCHANGED restored
    PROVE  Effect
  <1> DEFINE p == currentPiece[w]
  <1> USE DEF releaseCurrent, ForgetCurrent
  <1>1. /\ p # Nil => state[p] = Downloading /\ p \in Pieces
        /\ completing[w] = Nil
    BY DEF IInv, OwnerInv, HolderAgrees, ControlInv, TypeOK
  <1>2. /\ p # Nil => state' = [state EXCEPT ![p] = Missing]
        /\ p = Nil => UNCHANGED state
    BY <1>1 DEF MarkFailed
  <1>3. \A q \in Pieces : state'[q] = Complete <=> state[q] = Complete
    BY <1>1, <1>2 DEF IInv, TypeOK, PMTypeOK
  <1>4. CompleteKept
    BY <1>3 DEF CompleteKept
  <1>5. Stored' = Stored
    BY <1>3, StoredIsComplete, StoredIsCompleteNext
  <1>6. \A v \in Workers : Held(v)' = IF v = w THEN Nil ELSE Held(v)
    BY <1>1 DEF Held, IInv, TypeOK
  <1>7. CASE p = Nil
    <2>1. \A v \in Workers : Held(v)' = Held(v)
      BY <1>1, <1>6, <1>7 DEF Held
    <2>2. QED
      BY <1>4, <1>5, <2>1 DEF Effect, PX!pxVars
  <1>8. CASE p # Nil
    <2>1. PX!Drop(w)
      BY <1>5, <1>6, <1>8 DEF PX!Drop, Held
    <2>2. QED
      BY <1>4, <2>1 DEF Effect, PX!PXNext
  <1>9. QED
    BY <1>7, <1>8

\* A reservation is a claim of a piece nobody works on and nobody has.
LEMMA ReserveEffect ==
    ASSUME IInv, NEW w \in Workers, NEW p \in NextPiece(peerBitfield[w]),
           pc[w] = "request", CanRequest(w),
           Reserve(p),
           currentPiece' = [currentPiece EXCEPT ![w] = p],
           UNCHANGED <<restored, completing>>
    PROVE  Effect
  <1> USE DEF CanRequest, Reserve
  <1>1. /\ p \in Pieces /\ state[p] = Missing /\ p # Nil
        /\ Held(w) = Nil
    BY MetainfoAssumption
    DEF NextPiece, Reservable, IInv, TypeOK, ControlInv, Held
  <1>2. \A q \in Pieces : state'[q] = Complete <=> state[q] = Complete
    BY <1>1 DEF IInv, TypeOK, PMTypeOK
  <1>3. Stored' = Stored /\ p \notin Stored
    BY <1>1, <1>2, StoredIsComplete, StoredIsCompleteNext
  <1>4. \A v \in Workers : Held(v) # p
    BY <1>1 DEF IInv, OwnerInv, HolderAgrees, ControlInv, Held, TypeOK
  <1>5. \A v \in Workers : Held(v)' = IF v = w THEN p ELSE Held(v)
    BY <1>1 DEF Held, IInv, TypeOK
  <1>6. PX!Claim(w, p)
    BY <1>1, <1>3, <1>4, <1>5 DEF PX!Claim
  <1>7. CompleteKept
    BY <1>2 DEF CompleteKept
  <1>8. QED
    BY <1>1, <1>6, <1>7 DEF Effect, PX!PXNext

\* The end of CompletePiece drops the claim or delivers the piece.
LEMMA EndEffect ==
    ASSUME IInv, NEW w \in Workers,
           pc[w] \in {"verify", "write", "publish"},
           \/ state' = [state EXCEPT ![completing[w]] = Missing]
           \/ state' = [state EXCEPT ![completing[w]] = Complete],
           \A q \in Pieces : q # completing[w] => disk'[q] = disk[q],
           EndCompletePiece(w),
           UNCHANGED restored
    PROVE  Effect
  <1> DEFINE p == completing[w]
  <1> USE DEF EndCompletePiece
  <1>1. /\ p \in Pieces /\ p # Nil /\ state[p] = Verifying
        /\ currentPiece[w] = Nil /\ Held(w) = p
    BY DEF IInv, ControlInv, OwnerInv, HolderAgrees, TypeOK, Held
  <1>2. CompleteKept
    BY <1>1 DEF CompleteKept, IInv, TypeOK, PMTypeOK
  <1>3. \A v \in Workers : Held(v)' = IF v = w THEN Nil ELSE Held(v)
    BY <1>1 DEF Held, IInv, TypeOK
  <1>4. CASE state' = [state EXCEPT ![p] = Missing]
    <2>1. Stored' = Stored
      BY <1>1, <1>4, StoredIsComplete, StoredIsCompleteNext
      DEF IInv, TypeOK, PMTypeOK
    <2>2. PX!Drop(w)
      BY <1>1, <1>3, <2>1 DEF PX!Drop
    <2>3. QED
      BY <1>2, <2>2 DEF Effect, PX!PXNext
  <1>5. CASE state' = [state EXCEPT ![p] = Complete]
    <2>1. Stored' = Stored \cup {p}
      BY <1>1, <1>5, StoredIsComplete, StoredIsCompleteNext
      DEF IInv, TypeOK, PMTypeOK
    <2>2. PX!Deliver(w)
      BY <1>1, <1>3, <2>1 DEF PX!Deliver
    <2>3. QED
      BY <1>2, <2>2 DEF Effect, PX!PXNext
  <1>6. QED
    BY <1>4, <1>5

\* Re-hashing a piece on start-up moves no claim and finds no new piece:
\* whatever it finds was stored already.
LEMMA RestoreEffect == IInv /\ RestoreExisting => Effect
  <1> SUFFICES ASSUME IInv, RestoreExisting PROVE Effect
    OBVIOUS
  <1> USE MetainfoAssumption
      DEF RestoreExisting, RestorePiece, connVars, jobVars
  <1>1. restored \in Pieces /\ state[restored] = Missing
    BY DEF IInv, OwnerInv, NotYetRestored, TypeOK, Pieces
  <1>2. CompleteKept
    BY <1>1 DEF CompleteKept, IInv, TypeOK, PMTypeOK
  <1>3. Stored' = Stored
    <2>1. \A q \in Pieces : q # restored => (restored + 1 <= q <=> restored <= q)
      BY <1>1 DEF Pieces
    <2>2. QED
      BY <1>1, <2>1 DEF Stored, IInv, TypeOK, PMTypeOK, Pieces
  <1>4. UNCHANGED PX!pxVars
    BY <1>3 DEF PX!pxVars, Held
  <1>5. QED
    BY <1>2, <1>4 DEF Effect

\* The steps a goroutine takes on its own.
LEMMA RunEffect ==
    ASSUME IInv, NEW w \in Workers, Run(w)
    PROVE  Effect
  <1> USE DEF pmVars, jobVars
  <1>1. CASE FetchUpdates(w) \/ CheckComplete(w)
    BY <1>1, QuietEffect DEF FetchUpdates, Updates, CheckComplete
  <1>2. CASE requestNextPiece(w)
    <2>1. CASE CanRequest(w) /\ NextPiece(peerBitfield[w]) # {}
      BY <1>2, <2>1, ReserveEffect DEF requestNextPiece
    <2>2. CASE ~(CanRequest(w) /\ NextPiece(peerBitfield[w]) # {})
      BY <1>2, <2>2, QuietEffect DEF requestNextPiece
    <2>3. QED
      BY <2>1, <2>2
  <1>3. CASE requestBlock(w)
    <2>1. CASE SendRequest(w)
      BY <1>3, <2>1, QuietEffect DEF requestBlock, SendRequest
    <2>2. CASE FailRequest(w)
      BY <1>3, <2>2, ReleaseEffect DEF requestBlock, FailRequest
    <2>3. QED
      BY <1>3, <2>1, <2>2 DEF requestBlock
  <1>4. CASE CompletePiece(w)
    <2> DEFINE p == completing[w]
    <2>1. /\ p \in Pieces /\ state' = [state EXCEPT ![p] = Verifying]
          /\ state[p] = Downloading
          /\ UNCHANGED <<disk, restored, currentPiece, completing>>
      BY <1>4 DEF CompletePiece, BeginVerifying, IInv, ControlInv, OwnerInv,
                  HolderAgrees, TypeOK
    <2>2. \A q \in Pieces : state'[q] = Complete <=> state[q] = Complete
      BY <2>1 DEF IInv, TypeOK, PMTypeOK
    <2>3. Stored' = Stored
      BY <2>1, <2>2 DEF Stored
    <2>4. UNCHANGED PX!pxVars
      BY <2>1, <2>3 DEF PX!pxVars, Held
    <2>5. QED
      BY <2>1, <2>2, <2>4 DEF Effect, CompleteKept
  <1>5. CASE VerifyPiece(w)
    <2>1. CASE DataValid(w)
      BY <1>5, <2>1, QuietEffect DEF VerifyPiece
    <2>2. CASE ~DataValid(w)
      BY <1>5, <2>2, ResetReleases, EndEffect DEF VerifyPiece
    <2>3. QED
      BY <2>1, <2>2
  <1>6. CASE WritePiece(w)
    <2> DEFINE p == completing[w]
    <2>1. /\ p \in Pieces /\ state[p] = Verifying
          /\ \A q \in Pieces : q # p => disk'[q] = disk[q]
      BY <1>6 DEF WritePiece, WriteOK, WriteFailed, IInv, ControlInv, OwnerInv,
                  HolderAgrees, TypeOK, PMTypeOK
    <2>2. CASE WriteOK(w)
      <3>1. Stored' = Stored
        BY <1>6, <2>2, StoredIsComplete, StoredIsCompleteNext
        DEF WritePiece, WriteOK
      <3>2. UNCHANGED PX!pxVars
        BY <2>2, <3>1 DEF PX!pxVars, Held, WriteOK
      <3>3. CompleteKept
        BY <2>1, <2>2 DEF CompleteKept, WriteOK
      <3>4. QED
        BY <3>2, <3>3 DEF Effect
    <2>3. CASE WriteFailed(w)
      BY <1>6, <2>1, <2>3, ResetReleases, EndEffect DEF WritePiece, WriteFailed
    <2>4. QED
      BY <1>6, <2>2, <2>3 DEF WritePiece
  <1>7. CASE PublishPiece(w)
    BY <1>7, EndEffect DEF PublishPiece, Publish
  <1>8. CASE Exit(w)
    BY <1>8, ReleaseEffect DEF Exit
  <1>9. QED
    BY <1>1, <1>2, <1>3, <1>4, <1>5, <1>6, <1>7, <1>8 DEF Run

\* The cases of the select.
LEMMA SelectEffect ==
    ASSUME IInv, NEW w \in Workers,
           ContextDone(w) \/ BlockTimeout(w) \/ UpdateReady(w) \/ Receive(w)
    PROVE  Effect
  <1> USE DEF pmVars, jobVars, AtSelect
  <1>1. CASE ContextDone(w) \/ UpdateReady(w) \/ PeerFailed(w) \/ IgnoreMessage(w)
    BY <1>1, QuietEffect
    DEF ContextDone, UpdateReady, PeerFailed, IgnoreMessage
  <1>2. CASE BlockTimeout(w) \/ MsgChoke(w)
    BY <1>2, ReleaseEffect DEF BlockTimeout, MsgChoke
  <1>3. ASSUME NEW pieces \in SUBSET Pieces, MsgBitfield(w, pieces)
        PROVE  Effect
    BY <1>3, QuietEffect DEF MsgBitfield
  <1>4. ASSUME NEW p \in Pieces, MsgHave(w, p) \/ MsgPieceLate(w, p)
        PROVE  Effect
    BY <1>4, QuietEffect DEF MsgHave, MsgPieceLate
  <1>5. CASE MsgUnchoke(w)
    BY <1>5, QuietEffect DEF MsgUnchoke
  <1>6. ASSUME NEW p \in Pieces, NEW begin \in Offsets, NEW length \in Offsets,
               MsgPieceUnexpected(w, p, begin, length)
        PROVE  Effect
    BY <1>6, ReleaseEffect DEF MsgPieceUnexpected
  <1>7. ASSUME NEW p \in Pieces, NEW begin \in Offsets, NEW length \in Offsets,
               NEW good \in BOOLEAN, MsgPieceBlock(w, p, begin, length, good)
        PROVE  Effect
    <2>1. /\ currentPiece[w] = p /\ p # Nil /\ completing[w] = Nil
          /\ UNCHANGED <<state, disk, restored>>
      BY <1>7, MetainfoAssumption
      DEF MsgPieceBlock, Answers, IInv, ControlInv
    <2>2. \A v \in Workers : Held(v)' = Held(v)
      BY <1>7, <2>1 DEF MsgPieceBlock, HandOver, Held, IInv, TypeOK
    <2>3. UNCHANGED PX!pxVars
      BY <2>1, <2>2 DEF PX!pxVars, Stored
    <2>4. QED
      BY <2>1, <2>3 DEF Effect, CompleteKept
  <1>8. QED
    BY <1>1, <1>2, <1>3, <1>4, <1>5, <1>6, <1>7 DEF Receive

\* The effect of any step.
LEMMA StepEffect == IInv /\ [Next]_vars => Effect
  <1> SUFFICES ASSUME IInv, [Next]_vars PROVE Effect
    OBVIOUS
  <1>1. CASE UNCHANGED vars
    BY <1>1, QuietEffect DEF vars
  <1>2. CASE RestoreExisting
    BY <1>2, RestoreEffect
  <1>3. CASE Cancel
    BY <1>3, QuietEffect DEF Cancel, pmVars, jobVars
  <1>4. ASSUME NEW w \in Workers, StartWorker(w)
        PROVE  Effect
    BY <1>4, QuietEffect DEF StartWorker, pmVars, jobVars
  <1>5. QED
    BY <1>1, <1>2, <1>3, <1>4, RunEffect, SelectEffect DEF Next

\* A complete piece stays complete and its bytes are not written again.
THEOREM CompleteStays == Spec => CompleteIsFinal
  <1>1. IInv /\ [Next]_vars
            => [\A p \in Pieces : state[p] = Complete
                   => state'[p] = Complete /\ disk'[p] = disk[p]]_vars
    BY StepEffect DEF Effect, CompleteKept
  <1>2. QED
    BY <1>1, Invariance, PTL DEF Spec, CompleteIsFinal

\* Workers and manager together implement PieceExchange.
THEOREM Refinement == Spec => ImplementsPieceExchange
  <1>1. Init => PX!PXInit
    BY DEF Init, PX!PXInit, Stored, Held
  <1>2. IInv /\ [Next]_vars => [PX!PXNext]_(PX!pxVars)
    BY StepEffect DEF Effect
  <1>3. QED
    BY <1>1, <1>2, Invariance, PTL DEF Spec, ImplementsPieceExchange, PX!PXSpec

=============================================================================
