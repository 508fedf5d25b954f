------------------------------- MODULE Worker -------------------------------
(***************************************************************************)
(* The download workers: StartWorker and RunClient of                      *)
(* internal/download/worker.go, each in a goroutine of its own, over the   *)
(* shared piece manager and the partial file.                              *)
(*                                                                         *)
(* A worker is a loop around one select.  Its steps are cut where it       *)
(* touches shared state: each critical section of the manager's mutex,     *)
(* each blocking write to the peer and each access to the disk is a step,  *)
(* and anything may happen in between.  The peer is free to send any       *)
(* message at any time; what reaches the select is one message, one read   *)
(* error or one of the other channels.                                     *)
(***************************************************************************)
EXTENDS PieceManager

CONSTANTS
    Workers,        \* one goroutine per peer connection
    BlockSize       \* bytes asked for per request

ASSUME WorkerAssumption ==
    /\ BlockSize \in Nat \ {0}
    /\ Waiters = Workers

VARIABLES
    restored,       \* RestoreExisting: pieces re-hashed so far
    cancelled,      \* ctx.Done() is closed
    pc,             \* where each goroutine is
    unchoked,
    peerBitfield,   \* the pieces the peer advertises
    currentPiece,   \* the reserved piece being fetched, or Nil
    received,       \* bytes collected, and whether they match the metainfo
    expected,       \* begin and length of the outstanding request
    blockDeadline,  \* TRUE when the block timer is armed
    completing      \* the piece inside manager.CompletePiece, or Nil

connVars == <<unchoked, peerBitfield>>
jobVars  == <<currentPiece, received, expected, blockDeadline, completing>>
vars     == <<state, listening, disk, restored, cancelled, pc,
              unchoked, peerBitfield, currentPiece, received, expected,
              blockDeadline, completing>>

PC == {"idle", "loop", "select", "check", "request", "send", "complete",
       "verify", "write", "publish", "exit", "done"}

NoBytes   == [length |-> 0, good |-> TRUE]
NoRequest == [begin |-> 0, length |-> 0]

\* The bytes and requests of a worker.  No piece is longer than PieceLength.
Bytes    == [length : 0 .. PieceLength, good : BOOLEAN]
Requests == [begin : 0 .. PieceLength, length : 0 .. PieceLength]

\* The piece worker w answers for: being fetched, or inside CompletePiece.
Held(w) == IF currentPiece[w] # Nil THEN currentPiece[w] ELSE completing[w]

\* A worker never collects more bytes than its piece has, which for the last one
\* is fewer than PieceLength.
WithinPiece ==
    \A w \in Workers : Held(w) # Nil => received[w].length <= Length(Held(w))

TypeOK ==
    /\ PMTypeOK
    /\ restored \in 0 .. NumPieces
    /\ cancelled \in BOOLEAN
    /\ pc \in [Workers -> PC]
    /\ unchoked \in [Workers -> BOOLEAN]
    /\ peerBitfield \in [Workers -> SUBSET Pieces]
    /\ currentPiece \in [Workers -> Pieces \cup {Nil}]
    /\ received \in [Workers -> Bytes]
    /\ expected \in [Workers -> Requests]
    /\ blockDeadline \in [Workers -> BOOLEAN]
    /\ completing \in [Workers -> Pieces \cup {Nil}]
    /\ WithinPiece

Init ==
    /\ NewPieceManager
    /\ restored = 0
    /\ cancelled = FALSE
    /\ pc = [w \in Workers |-> "idle"]
    /\ unchoked = [w \in Workers |-> FALSE]
    /\ peerBitfield = [w \in Workers |-> {}]
    /\ currentPiece = [w \in Workers |-> Nil]
    /\ received = [w \in Workers |-> NoBytes]
    /\ expected = [w \in Workers |-> NoRequest]
    /\ blockDeadline = [w \in Workers |-> FALSE]
    /\ completing = [w \in Workers |-> Nil]

-----------------------------------------------------------------------------
(* Control flow and the closures of RunClient.                             *)

Goto(w, to) == pc' = [pc EXCEPT ![w] = to]

\* The select of worker w is the only place where it waits for events.
AtSelect(w) == pc[w] = "select"

\* MUTANT of stopBlockTimer: the deadline stays armed.
stopBlockTimerMissing(w) == UNCHANGED blockDeadline

stopBlockTimer(w) == blockDeadline' = [blockDeadline EXCEPT ![w] = FALSE]

resetBlockTimer(w) == blockDeadline' = [blockDeadline EXCEPT ![w] = TRUE]

ForgetCurrent(w) ==
    /\ currentPiece' = [currentPiece EXCEPT ![w] = Nil]
    /\ received' = [received EXCEPT ![w] = NoBytes]
    /\ expected' = [expected EXCEPT ![w] = NoRequest]
    /\ stopBlockTimer(w)

releaseCurrent(w) ==
    /\ IF currentPiece[w] # Nil
       THEN MarkFailed(currentPiece[w])
       ELSE UNCHANGED <<state, listening>>
    /\ ForgetCurrent(w)
    /\ UNCHANGED <<disk, completing>>

Remaining(w) == Length(currentPiece[w]) - received[w].length

\* MUTANT of NextRequest: the last block of a piece is not shortened.
NextRequestFullBlock(w) ==
    [begin |-> received[w].length, length |-> BlockSize]

NextRequest(w) ==
    [begin  |-> received[w].length,
     length |-> IF BlockSize < Remaining(w) THEN BlockSize ELSE Remaining(w)]

-----------------------------------------------------------------------------
(* Start-up.                                                               *)

\* RestoreExisting runs before any worker: one piece per step.  A read error
\* ends the program before it has workers, which is a behaviour that stops here.
RestoreExisting ==
    /\ restored < NumPieces
    /\ RestorePiece(restored)
    /\ restored' = restored + 1
    /\ UNCHANGED <<cancelled, pc, connVars, jobVars>>

\* The user interrupts the program, or the main loop stops the workers.
Cancel ==
    /\ ~cancelled
    /\ cancelled' = TRUE
    /\ UNCHANGED <<pmVars, restored, pc, connVars, jobVars>>

\* Dial, handshake and "interested": all succeed, or the worker is over.
StartWorker(w) ==
    /\ pc[w] = "idle"
    /\ restored = NumPieces
    /\ \E to \in {"loop", "done"} : Goto(w, to)
    /\ UNCHANGED <<pmVars, restored, cancelled, connVars, jobVars>>

-----------------------------------------------------------------------------
(* The steps between two selects.                                          *)

\* The head of the loop: fetch the channel to wait on.
FetchUpdates(w) ==
    /\ pc[w] = "loop"
    /\ Updates(w)
    /\ Goto(w, "select")
    /\ UNCHANGED <<restored, cancelled, connVars, jobVars>>

\* After an update or a stored piece: stop if nothing is left to do.
CheckComplete(w) ==
    /\ pc[w] = "check"
    /\ Goto(w, IF IsComplete THEN "exit" ELSE "request")
    /\ UNCHANGED <<pmVars, restored, cancelled, connVars, jobVars>>

CanRequest(w) == unchoked[w] /\ currentPiece[w] = Nil

requestNextPiece(w) ==
    /\ pc[w] = "request"
    /\ IF CanRequest(w) /\ NextPiece(peerBitfield[w]) # {}
       THEN \E p \in NextPiece(peerBitfield[w]) :
                /\ Reserve(p)
                /\ currentPiece' = [currentPiece EXCEPT ![w] = p]
                /\ received' = [received EXCEPT ![w] = NoBytes]
                /\ Goto(w, "send")
       ELSE /\ Goto(w, "loop")
            /\ UNCHANGED <<pmVars, currentPiece, received>>
    /\ UNCHANGED <<restored, cancelled, connVars, expected, blockDeadline,
                   completing>>

\* The request is written and its deadline armed, or the write fails, the
\* piece is given back and the worker ends.
SendRequest(w) ==
    /\ Remaining(w) > 0
    /\ expected' = [expected EXCEPT ![w] = NextRequest(w)]
    /\ resetBlockTimer(w)
    /\ Goto(w, "loop")
    /\ UNCHANGED <<pmVars, currentPiece, received, completing>>

FailRequest(w) ==
    /\ releaseCurrent(w)
    /\ Goto(w, "exit")

requestBlock(w) ==
    /\ pc[w] = "send"
    /\ SendRequest(w) \/ FailRequest(w)
    /\ UNCHANGED <<restored, cancelled, connVars>>

-----------------------------------------------------------------------------
(* The cases of the select.                                                *)

\* MUTANT of ContextDone: the worker goes on after its context is done.
ContextDoneContinues(w) ==
    /\ AtSelect(w)
    /\ cancelled
    /\ Goto(w, "loop")
    /\ UNCHANGED <<pmVars, restored, cancelled, connVars, jobVars>>

ContextDone(w) ==
    /\ AtSelect(w)
    /\ cancelled
    /\ Goto(w, "exit")
    /\ UNCHANGED <<pmVars, restored, cancelled, connVars, jobVars>>

\* MUTANT of BlockTimeout: the worker sets the timer again and goes on waiting.
BlockTimeoutRearms(w) ==
    /\ AtSelect(w)
    /\ blockDeadline[w]
    /\ Goto(w, "loop")
    /\ UNCHANGED <<pmVars, restored, cancelled, connVars, jobVars>>

BlockTimeout(w) ==
    /\ AtSelect(w)
    /\ blockDeadline[w]
    /\ releaseCurrent(w)
    /\ Goto(w, "exit")
    /\ UNCHANGED <<restored, cancelled, connVars>>

UpdateReady(w) ==
    /\ AtSelect(w)
    /\ w \notin listening
    /\ Goto(w, "check")
    /\ UNCHANGED <<pmVars, restored, cancelled, connVars, jobVars>>

\* A read error, end of file, a read timeout or a malformed message.
PeerFailed(w) ==
    /\ AtSelect(w)
    /\ Goto(w, "exit")
    /\ UNCHANGED <<pmVars, restored, cancelled, connVars, jobVars>>

\* A keep-alive or a message this client has no use for.
IgnoreMessage(w) ==
    /\ AtSelect(w)
    /\ Goto(w, "loop")
    /\ UNCHANGED <<pmVars, restored, cancelled, connVars, jobVars>>

MsgBitfield(w, pieces) ==
    /\ AtSelect(w)
    /\ peerBitfield' = [peerBitfield EXCEPT ![w] = pieces]
    /\ Goto(w, "request")
    /\ UNCHANGED <<pmVars, restored, cancelled, unchoked, jobVars>>

MsgHave(w, p) ==
    /\ AtSelect(w)
    /\ peerBitfield' = [peerBitfield EXCEPT ![w] = @ \cup {p}]
    /\ Goto(w, "request")
    /\ UNCHANGED <<pmVars, restored, cancelled, unchoked, jobVars>>

MsgChoke(w) ==
    /\ AtSelect(w)
    /\ unchoked' = [unchoked EXCEPT ![w] = FALSE]
    /\ releaseCurrent(w)
    /\ Goto(w, "loop")
    /\ UNCHANGED <<restored, cancelled, peerBitfield>>

MsgUnchoke(w) ==
    /\ AtSelect(w)
    /\ unchoked' = [unchoked EXCEPT ![w] = TRUE]
    /\ Goto(w, "request")
    /\ UNCHANGED <<pmVars, restored, cancelled, peerBitfield, jobVars>>

\* MUTANT of Answers: the length of the block is not looked at.
AnswersAnyLength(w, p, begin, length) ==
    /\ p = currentPiece[w]
    /\ begin = expected[w].begin

\* A block that was asked for, or one that was not.
Answers(w, p, begin, length) ==
    /\ p = currentPiece[w]
    /\ begin = expected[w].begin
    /\ length = expected[w].length
    /\ received[w].length + length <= Length(p)

\* A late block, for a piece that is no longer being fetched.
MsgPieceLate(w, p) ==
    /\ AtSelect(w)
    /\ p # currentPiece[w]
    /\ Goto(w, "loop")
    /\ UNCHANGED <<pmVars, restored, cancelled, connVars, jobVars>>

MsgPieceUnexpected(w, p, begin, length) ==
    /\ AtSelect(w)
    /\ p = currentPiece[w]
    /\ ~Answers(w, p, begin, length)
    /\ releaseCurrent(w)
    /\ Goto(w, "exit")
    /\ UNCHANGED <<restored, cancelled, connVars>>

\* MUTANT of HandOver: the worker still believes it owns the piece.
HandOverKeepsPiece(w, p) ==
    /\ completing' = [completing EXCEPT ![w] = p]
    /\ UNCHANGED currentPiece

\* The full piece goes to CompletePiece and is no longer the worker's own.
HandOver(w, p) ==
    /\ completing' = [completing EXCEPT ![w] = p]
    /\ currentPiece' = [currentPiece EXCEPT ![w] = Nil]

MsgPieceBlock(w, p, begin, length, good) ==
    /\ AtSelect(w)
    /\ Answers(w, p, begin, length)
    /\ stopBlockTimer(w)
    /\ received' = [received EXCEPT ![w] =
                        [length |-> @.length + length, good |-> @.good /\ good]]
    /\ IF received[w].length + length < Length(p)
       THEN /\ Goto(w, "send")
            /\ UNCHANGED <<currentPiece, completing>>
       ELSE /\ Goto(w, "complete")
            /\ HandOver(w, p)
    /\ UNCHANGED <<pmVars, restored, cancelled, connVars, expected>>

-----------------------------------------------------------------------------
(* manager.CompletePiece, called by the worker with the bytes it collected.*)

\* What CompletePiece does last on every path but a running one.
EndCompletePiece(w) ==
    /\ completing' = [completing EXCEPT ![w] = Nil]
    /\ received' = [received EXCEPT ![w] = NoBytes]
    /\ UNCHANGED <<currentPiece, expected, blockDeadline>>

CompletePiece(w) ==
    /\ pc[w] = "complete"
    /\ IF state[completing[w]] = Downloading
       THEN /\ BeginVerifying(completing[w])
            /\ Goto(w, "verify")
            /\ UNCHANGED jobVars
       ELSE /\ EndCompletePiece(w)
            /\ Goto(w, "exit")
            /\ UNCHANGED pmVars
    /\ UNCHANGED <<restored, cancelled, connVars>>

\* MUTANT of DataValid: the hash is not compared.
DataValidLengthOnly(w) == received[w].length = Length(completing[w])

DataValid(w) ==
    /\ received[w].length = Length(completing[w])
    /\ received[w].good

VerifyPiece(w) ==
    /\ pc[w] = "verify"
    /\ IF DataValid(w)
       THEN /\ Goto(w, "write")
            /\ UNCHANGED <<pmVars, jobVars>>
       ELSE /\ resetAfterFailure(completing[w])
            /\ EndCompletePiece(w)
            /\ Goto(w, "exit")
            /\ UNCHANGED disk
    /\ UNCHANGED <<restored, cancelled, connVars>>

\* storage.WritePiece: every byte reaches the file, or an error stops it
\* after some of them (perhaps all) have.
WriteOK(w) ==
    /\ disk' = [disk EXCEPT ![completing[w]] =
                    IF received[w].good THEN "good" ELSE "bad"]
    /\ Goto(w, "publish")
    /\ UNCHANGED <<state, listening, jobVars>>

WriteFailed(w) ==
    /\ \E left \in {"good", disk[completing[w]]} :
           disk' = [disk EXCEPT ![completing[w]] = left]
    /\ resetAfterFailure(completing[w])
    /\ EndCompletePiece(w)
    /\ Goto(w, "exit")

WritePiece(w) ==
    /\ pc[w] = "write"
    /\ WriteOK(w) \/ WriteFailed(w)
    /\ UNCHANGED <<restored, cancelled, connVars>>

PublishPiece(w) ==
    /\ pc[w] = "publish"
    /\ Publish(completing[w])
    /\ EndCompletePiece(w)
    /\ Goto(w, "check")
    /\ UNCHANGED <<restored, cancelled, connVars>>

\* The deferred calls of RunClient; the goroutine's locals are gone.
Exit(w) ==
    /\ pc[w] = "exit"
    /\ releaseCurrent(w)
    /\ unchoked' = [unchoked EXCEPT ![w] = FALSE]
    /\ peerBitfield' = [peerBitfield EXCEPT ![w] = {}]
    /\ Goto(w, "done")
    /\ UNCHANGED <<restored, cancelled>>

-----------------------------------------------------------------------------
(* The specification.                                                      *)

\* Steps a goroutine takes on its own, without waiting for an event.
Run(w) ==
    \/ FetchUpdates(w)
    \/ CheckComplete(w)
    \/ requestNextPiece(w)
    \/ requestBlock(w)
    \/ CompletePiece(w)
    \/ VerifyPiece(w)
    \/ WritePiece(w)
    \/ PublishPiece(w)
    \/ Exit(w)

\* The offsets and lengths a peer may put in a block message: any position
\* in a piece, and one past the end.
Offsets == 0 .. PieceLength + 1

Receive(w) ==
    \/ PeerFailed(w)
    \/ IgnoreMessage(w)
    \/ \E pieces \in SUBSET Pieces : MsgBitfield(w, pieces)
    \/ \E p \in Pieces : MsgHave(w, p)
    \/ MsgChoke(w)
    \/ MsgUnchoke(w)
    \/ \E p \in Pieces : MsgPieceLate(w, p)
    \/ \E p \in Pieces, begin, length \in Offsets :
           \/ MsgPieceUnexpected(w, p, begin, length)
           \/ \E good \in BOOLEAN : MsgPieceBlock(w, p, begin, length, good)

Next ==
    \/ RestoreExisting
    \/ Cancel
    \/ \E w \in Workers :
           \/ StartWorker(w)
           \/ Run(w)
           \/ ContextDone(w)
           \/ BlockTimeout(w)
           \/ UpdateReady(w)
           \/ Receive(w)

Spec == Init /\ [][Next]_vars

\* What ends the wait for an outstanding block.
Resolve(w) ==
    \/ ContextDone(w)
    \/ BlockTimeout(w)
    \/ PeerFailed(w)
    \/ MsgChoke(w)
    \/ \E p \in Pieces, begin, length \in Offsets :
           \/ MsgPieceUnexpected(w, p, begin, length)
           \/ \E good \in BOOLEAN : MsgPieceBlock(w, p, begin, length, good)

\* A goroutine that can run does; Go's select picks among the ready cases at
\* random, so a case that stays ready is picked in the end; and a block timer
\* that is armed expires unless the wait ends before.
Fairness ==
    \A w \in Workers :
        /\ WF_vars(Run(w))
        /\ SF_vars(ContextDone(w))
        /\ SF_vars(blockDeadline[w] /\ Resolve(w))

FairSpec == Spec /\ Fairness

-----------------------------------------------------------------------------
(* Properties.                                                             *)

\* A piece is reserved in the manager exactly while one worker that has not
\* ended answers for it: no two workers fetch or store the same piece, no
\* worker works on a piece the manager would give to another (what MarkFailed
\* and CompletePiece promise about stale workers), and no reservation
\* survives its worker, whichever of the select's error paths ended it.
ReservationOwned ==
    /\ \A w \in Workers :
           /\ Held(w) # Nil => /\ state[Held(w)] \in {Downloading, Verifying}
                              /\ pc[w] \notin {"idle", "done"}
           /\ currentPiece[w] # Nil => /\ state[currentPiece[w]] = Downloading
                                      /\ completing[w] = Nil
    /\ \A v, w \in Workers : v # w /\ Held(v) = Held(w) => Held(w) = Nil
    /\ \A p \in Pieces : state[p] \in {Downloading, Verifying}
                           => \E w \in Workers : Held(w) = p

\* The manager calls a piece complete only if the bytes stored for it have the
\* piece's hash, whether they were found on restart or written by a worker,
\* and whatever failed writes happened before.
CompleteIsStored ==
    \A p \in Pieces : state[p] = Complete => disk[p] = "good"

\* A complete piece is never taken back and its bytes are never rewritten.
CompleteIsFinal ==
    [][\A p \in Pieces : state[p] = Complete
            => state'[p] = Complete /\ disk'[p] = disk[p]]_vars

\* The timeout case of the select dereferences currentPiece, and a piece that
\* is being waited for without a deadline could stay reserved forever: at the
\* select the deadline is armed exactly when there is a current piece.
DeadlineMatchesPiece ==
    \A w \in Workers :
        AtSelect(w) => (blockDeadline[w] <=> currentPiece[w] # Nil)

\* The request on the wire is what the worker will accept: it is not empty,
\* stays inside the piece and continues the bytes collected so far, so a peer
\* that answers it is never turned away as "unexpected block".
HonestBlockAccepted ==
    \A w \in Workers :
        AtSelect(w) /\ currentPiece[w] # Nil =>
            /\ expected[w].length \in 1 .. BlockSize
            /\ expected[w].begin = received[w].length
            /\ Answers(w, currentPiece[w], expected[w].begin, expected[w].length)

\* The workers and the manager together implement PieceExchange.  The pieces
\* that RestoreExisting is still going to find on disk count as stored from
\* the start.
Stored == {p \in Pieces :
              state[p] = Complete \/ (restored <= p /\ disk[p] = "good")}

PX == INSTANCE PieceExchange WITH
          have  <- Stored,
          claim <- [w \in Workers |-> Held(w)]

ImplementsPieceExchange == PX!PXSpec

\* A reserved piece is always released or completed, even when its peer stops
\* answering: the deadline of every block request sees to it.
ReservationResolved ==
    \A p \in Pieces : []<>(state[p] \in {Missing, Complete})

\* Cancelling the context ends every worker that was started, wherever it is, and
\* every one that is started later.
CancelStops ==
    \A w \in Workers : <>[](cancelled => pc[w] \in {"idle", "done"})

\* What Updates() is for: a worker that waits on an open channel has nothing
\* it could request, because every release would have closed the channel.
ReleasedPieceNoticed ==
    \A w \in Workers :
        AtSelect(w) /\ w \in listening /\ CanRequest(w)
            => NextPiece(peerBitfield[w]) = {}

-----------------------------------------------------------------------------
(* The inductive invariant.                                                *)

\* Where the goroutine is determines what its locals may hold.
ControlInv ==
    \A w \in Workers :
        /\ pc[w] # "idle" => restored = NumPieces
        /\ completing[w] # Nil
               <=> pc[w] \in {"complete", "verify", "write", "publish"}
        /\ currentPiece[w] # Nil
               => pc[w] \in {"loop", "select", "check", "request", "send", "exit"}
        /\ currentPiece[w] = Nil => pc[w] # "send" /\ ~blockDeadline[w]
        /\ currentPiece[w] # Nil /\ pc[w] # "exit"
               => received[w].length < Length(currentPiece[w])
        /\ currentPiece[w] # Nil /\ pc[w] \notin {"send", "exit"}
               => blockDeadline[w] /\ expected[w] = NextRequest(w)
        /\ pc[w] \in {"write", "publish"} => received[w].good
        /\ pc[w] = "publish" => disk[completing[w]] = "good"

\* The manager's state of a piece agrees with the worker that answers for it.
HolderAgrees ==
    \A w \in Workers :
        /\ currentPiece[w] # Nil => state[currentPiece[w]] = Downloading
        /\ pc[w] = "complete" => state[completing[w]] = Downloading
        /\ pc[w] \in {"verify", "write", "publish"}
               => state[completing[w]] = Verifying

HolderUnique ==
    \A v, w \in Workers : v # w /\ Held(v) = Held(w) => Held(w) = Nil

HolderExists ==
    \A p \in Pieces : state[p] \in {Downloading, Verifying}
                         => \E w \in Workers : Held(w) = p

NotYetRestored == \A p \in Pieces : restored <= p => state[p] = Missing

OwnerInv == HolderAgrees /\ HolderUnique /\ HolderExists /\ NotYetRestored

IInv == TypeOK /\ ControlInv /\ OwnerInv /\ CompleteIsStored

=============================================================================
