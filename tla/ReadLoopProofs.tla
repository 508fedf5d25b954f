--------------------------- MODULE ReadLoopProofs ---------------------------
(***************************************************************************)
(* Proofs about ReadLoop, for any number of messages: the reader, the      *)
(* watcher and the worker together implement MessageStream, the end of the *)
(* stream is reported only after its last message, and the channels are    *)
(* not closed on a living worker without a word.                           *)
(***************************************************************************)
EXTENDS ReadLoop, SequenceTheorems, TLAPS

\* How many messages have left the inbox, as long as the reader is still in its
\* loop: those that were handled and the one that is being offered.
Taken == Len(got) + (IF reader = "offer" THEN 1 ELSE 0)

\* The messages handled, the one offered and those in the inbox follow each
\* other without a gap.
OrderInv ==
    /\ \A i \in 1 .. Len(got) : got[i] = i
    /\ reader \in {"arm", "read", "offer"} =>
           /\ Taken + Len(inbox) = sent
           /\ \A i \in 1 .. Len(inbox) : inbox[i] = Taken + i
    /\ reader = "offer" => offered = Len(got) + 1

\* Whoever holds the error "eof" has it from a stream that is over and handled.
EOFInv ==
    /\ reader = "sendError" => failure \in ErrorKinds
    /\ (failure = "eof" \/ errors = <<"eof">> \/ ending = "eof")
           => eof /\ Len(got) = sent

Alive == worker \in {"busy", "select"}

\* A reader that has left its loop told the worker why, or need not.
TellInv ==
    /\ Alive => ending = "none"
    /\ open # Channels => reader \in {"return", "ended"}
    /\ reader \in {"return", "ended"} /\ Alive => ctxDone \/ errors # <<>>
    /\ "errors" \notin seen /\ Alive => ctxDone
    /\ NoSilentEnd

ReadLoopInv == TypeOK /\ OrderInv /\ EOFInv /\ TellInv

-----------------------------------------------------------------------------

\* A connection that has just been set up.
LEMMA InitReadLoopInv == Init => ReadLoopInv
  <1> SUFFICES ASSUME Init PROVE ReadLoopInv
    OBVIOUS
  <1> USE ReadLoopAssumption DEF Init
  <1>1. TypeOK
    <2>1. /\ inbox \in Seq(1 .. MaxMessages) /\ got \in Seq(1 .. MaxMessages)
          /\ errors \in Seq(ErrorKinds) /\ Len(errors) <= 1 /\ Len(got) <= sent
      OBVIOUS
    <2>2. sent \in 0 .. MaxMessages /\ offered \in 0 .. MaxMessages
      OBVIOUS
    <2>3. open \in SUBSET Channels /\ seen \in SUBSET {"messages", "errors"}
      OBVIOUS
    <2>4. QED
      BY <2>1, <2>2, <2>3 DEF TypeOK
  <1>2. OrderInv
    BY DEF OrderInv, Taken
  <1>3. EOFInv
    BY DEF EOFInv
  <1>4. TellInv
    BY DEF TellInv, Alive, NoSilentEnd
  <1>5. QED
    BY <1>1, <1>2, <1>3, <1>4 DEF ReadLoopInv

\* The peer sends a message or ends the stream, or the user interrupts.
LEMMA EnvironmentStep ==
    ReadLoopInv /\ (PeerSends \/ PeerEnds \/ Interrupt) => ReadLoopInv'
  <1> SUFFICES ASSUME ReadLoopInv, PeerSends \/ PeerEnds \/ Interrupt
               PROVE  ReadLoopInv'
    OBVIOUS
  <1>1. TypeOK'
    <2>1. /\ sent \in 0 .. MaxMessages /\ Len(got) \in Nat /\ Len(got) <= sent
          /\ inbox \in Seq(1 .. MaxMessages)
      BY DEF ReadLoopInv, TypeOK
    <2>2. CASE PeerSends
      <3>1. sent + 1 \in 1 .. MaxMessages /\ sent + 1 \in 0 .. MaxMessages
        BY <2>1, <2>2, ReadLoopAssumption DEF PeerSends
      <3>2. Append(inbox, sent + 1) \in Seq(1 .. MaxMessages)
        BY <2>1, <3>1, AppendProperties
      <3>3. Len(got) <= sent + 1
        BY <2>1, ReadLoopAssumption
      <3>4. QED
        BY <2>2, <3>1, <3>2, <3>3
        DEF PeerSends, ReadLoopInv, TypeOK, connVars, ctxVars, readerVars,
            workerVars
    <2>3. CASE PeerEnds
      BY <2>3 DEF PeerEnds, ReadLoopInv, TypeOK, connVars, ctxVars, readerVars,
                  workerVars
    <2>4. CASE Interrupt
      BY <2>4 DEF Interrupt, ReadLoopInv, TypeOK, peerVars, connVars, readerVars,
                  workerVars
    <2>5. QED
      BY <2>2, <2>3, <2>4
  <1> USE ReadLoopAssumption
      DEF ReadLoopInv, PeerSends, PeerEnds, Interrupt, peerVars, connVars,
          ctxVars, readerVars, workerVars
  <1>2. OrderInv'
    <2>1. CASE PeerSends
      <3>1. /\ inbox \in Seq(1 .. MaxMessages) /\ Len(inbox) \in Nat
            /\ Len(inbox') = Len(inbox) + 1
            /\ \A i \in 1 .. Len(inbox) : inbox'[i] = inbox[i]
            /\ inbox'[Len(inbox) + 1] = sent + 1
        BY <2>1 DEF TypeOK
      <3>2. sent \in Nat /\ Taken \in Nat /\ Taken' = Taken
        BY <2>1 DEF TypeOK, Taken
      <3>3. QED
        BY <2>1, <3>1, <3>2 DEF OrderInv
    <2>2. CASE PeerEnds \/ Interrupt
      BY <2>2 DEF OrderInv, Taken
    <2>3. QED
      BY <2>1, <2>2
  <1>3. EOFInv'
    BY DEF EOFInv
  <1>4. TellInv'
    BY DEF TellInv, Alive, NoSilentEnd, ctxDone
  <1>5. QED
    BY <1>1, <1>2, <1>3, <1>4

\* Consecutive numbers stay consecutive when the first one is taken.
LEMMA TailOfRun ==
    ASSUME NEW S, NEW q \in Seq(S), q # <<>>, NEW n \in Nat, NEW total \in Nat,
           n + Len(q) = total, \A i \in 1 .. Len(q) : q[i] = n + i
    PROVE  /\ Head(q) = n + 1
           /\ n + 1 + Len(Tail(q)) = total
           /\ \A i \in 1 .. Len(Tail(q)) : Tail(q)[i] = n + 1 + i
  <1>1. /\ Len(q) \in Nat \ {0} /\ Head(q) = q[1]
        /\ Len(Tail(q)) = Len(q) - 1
        /\ \A i \in 1 .. (Len(q) - 1) : Tail(q)[i] = q[i + 1]
    OBVIOUS
  <1>2. QED
    BY <1>1

\* The reader reads: the next message in order, or an error.
LEMMA ReadsStep == ReadLoopInv /\ ReaderReads => ReadLoopInv'
  <1> SUFFICES ASSUME ReadLoopInv, ReaderReads PROVE ReadLoopInv'
    OBVIOUS
  <1>1. CASE ReadMessage
    <2>1. /\ reader = "read" /\ inbox # <<>> /\ reader' = "offer"
          /\ offered' = Head(inbox) /\ inbox' = Tail(inbox)
          /\ UNCHANGED <<peerVars, connVars, ctxVars, failure, watcher, errors,
                         open, workerVars>>
      BY <1>1 DEF ReaderReads, ReadMessage
    <2>2. inbox \in Seq(1 .. MaxMessages)
      BY DEF ReadLoopInv, TypeOK
    <2>3. Head(inbox) \in 1 .. MaxMessages /\ Tail(inbox) \in Seq(1 .. MaxMessages)
      BY <2>1, <2>2, HeadTailProperties
    <2>4. Head(inbox) \in 0 .. MaxMessages
      BY <2>3, ReadLoopAssumption
    <2>5. TypeOK'
      <3>1. /\ inbox' \in Seq(1 .. MaxMessages) /\ offered' \in 0 .. MaxMessages
            /\ reader' \in {"arm", "read", "offer", "sendError", "return", "ended"}
        BY <2>1, <2>3, <2>4
      <3>2. UNCHANGED <<sent, eof, deadline, closed, parent, cancelled, failure,
                        watcher, errors, open, worker, seen, got, ending>>
        BY <2>1 DEF peerVars, connVars, ctxVars, workerVars
      <3>3. TypeOK
        BY DEF ReadLoopInv
      <3>4. QED
        BY <3>1, <3>2, <3>3 DEF TypeOK
    <2> USE DEF peerVars, connVars, ctxVars, workerVars
    <2>6. OrderInv'
      <3>1. /\ Len(got) \in Nat /\ sent \in Nat /\ Taken = Len(got)
            /\ Taken' = Len(got) + 1
        BY <2>1, ReadLoopAssumption DEF ReadLoopInv, TypeOK, Taken
      <3>2. /\ Len(got) + Len(inbox) = sent
            /\ \A i \in 1 .. Len(inbox) : inbox[i] = Len(got) + i
        BY <2>1, <3>1 DEF ReadLoopInv, OrderInv
      <3>3. /\ Head(inbox) = Len(got) + 1
            /\ Len(got) + 1 + Len(Tail(inbox)) = sent
            /\ \A i \in 1 .. Len(Tail(inbox)) : Tail(inbox)[i] = Len(got) + 1 + i
        <4>1. inbox # <<>> /\ Len(got) \in Nat /\ sent \in Nat
          BY <2>1, <3>1
        <4>2. QED
          BY <2>2, <3>2, <4>1, TailOfRun
      <3>4. QED
        BY <2>1, <3>1, <3>3 DEF ReadLoopInv, OrderInv
    <2>7. EOFInv'
      BY <2>1 DEF ReadLoopInv, EOFInv
    <2>8. TellInv'
      BY <2>1 DEF ReadLoopInv, TellInv, Alive, NoSilentEnd, ctxDone
    <2>9. QED
      BY <2>5, <2>6, <2>7, <2>8 DEF ReadLoopInv
  <1>2. CASE ReadFails /\ ReadError /\ UNCHANGED <<inbox, offered>>
    <2> USE <1>2 DEF ReadLoopInv, ReaderReads, ReadFails, ReadError, peerVars,
                     connVars, ctxVars, workerVars
    <2>1. TypeOK'
      BY DEF TypeOK, ErrorKinds
    <2>2. OrderInv'
      BY DEF OrderInv
    <2>3. failure' \in ErrorKinds
      BY DEF ErrorKinds
    <2>4. failure' = "eof" => eof /\ Len(got) = sent
      BY DEF OrderInv, Taken, TypeOK
    <2>5. EOFInv'
      BY <2>3, <2>4 DEF EOFInv
    <2>6. TellInv'
      BY DEF TellInv, Alive, NoSilentEnd, ctxDone
    <2>7. QED
      BY <2>1, <2>2, <2>5, <2>6
  <1>3. QED
    BY <1>1, <1>2 DEF ReaderReads

\* The worker takes the message that is offered to it.
LEMMA HandOverStep == ReadLoopInv /\ HandOver => ReadLoopInv'
  <1> SUFFICES ASSUME ReadLoopInv, HandOver PROVE ReadLoopInv'
    OBVIOUS
  <1> USE DEF ReadLoopInv, HandOver, peerVars, connVars, ctxVars
  <1>1. /\ Len(got) \in Nat /\ Len(inbox) \in Nat /\ sent \in 0 .. MaxMessages
        /\ offered = Len(got) + 1 /\ Taken = Len(got) + 1
        /\ Len(got) + 1 + Len(inbox) = sent
    BY DEF TypeOK, OrderInv, Taken
  <1>2. /\ got' \in Seq(1 .. MaxMessages) /\ Len(got') = Len(got) + 1
        /\ \A i \in 1 .. Len(got) : got'[i] = got[i]
        /\ got'[Len(got) + 1] = offered
    BY <1>1, ReadLoopAssumption DEF TypeOK
  <1>3. TypeOK'
    BY <1>1, <1>2, ReadLoopAssumption DEF TypeOK
  <1>4. OrderInv'
    BY <1>1, <1>2 DEF OrderInv, Taken
  <1>5. EOFInv'
    BY <1>1 DEF EOFInv
  <1>6. TellInv'
    BY DEF TellInv, Alive, NoSilentEnd, ctxDone
  <1>7. QED
    BY <1>3, <1>4, <1>5, <1>6

\* The reader outside its read, and the clock.
LEMMA ReaderStepInv ==
    ASSUME ReadLoopInv,
           ReaderArms \/ ReadTimeout \/ GiveUpOffer \/ sendError \/ ReaderCloses
    PROVE  ReadLoopInv'
  <1>0. TypeOK
    BY DEF ReadLoopInv
  <1>1. TypeOK'
    <2> USE DEF ReadLoopInv, ReaderArms, ReadTimeout, GiveUpOffer, sendError,
                ReaderCloses, peerVars, connVars, ctxVars, readerVars, workerVars
    <2>1. /\ reader' \in {"arm", "read", "offer", "sendError", "return", "ended"}
          /\ deadline' \in {"future", "past"}
      BY DEF TypeOK
    <2>2. offered' \in 0 .. MaxMessages /\ failure' \in {"none"} \cup ErrorKinds
      BY ReadLoopAssumption DEF TypeOK, ErrorKinds
    <2>3. errors' \in Seq(ErrorKinds) /\ Len(errors') <= 1
      <3>1. CASE sendError /\ errors' = <<failure>>
        <4>1. failure \in ErrorKinds
          BY <3>1 DEF EOFInv
        <4>2. QED
          BY <3>1, <4>1
      <3>2. CASE errors' = errors
        BY <3>2 DEF TypeOK
      <3>3. QED
        BY <3>1, <3>2
    <2>4. open' \in SUBSET Channels
      BY DEF TypeOK, Channels
    <2>5. UNCHANGED <<sent, eof, inbox, closed, parent, cancelled, watcher,
                      worker, seen, got, ending>>
      OBVIOUS
    <2> HIDE DEF ReadLoopInv, ReaderArms, ReadTimeout, GiveUpOffer, sendError,
                 ReaderCloses
    <2>6. QED
      BY <1>0, <2>1, <2>2, <2>3, <2>4, <2>5, Zenon DEF TypeOK
  <1> USE DEF ReadLoopInv, ReaderArms, ReadTimeout, GiveUpOffer, sendError,
              ReaderCloses, peerVars, connVars, ctxVars, readerVars, workerVars
  <1>2. OrderInv'
    BY DEF OrderInv, Taken
  <1>3. EOFInv'
    BY DEF EOFInv, ErrorKinds
  <1>4. TellInv'
    BY DEF TellInv, Alive, NoSilentEnd, ctxDone, Channels, TypeOK
  <1>5. QED
    BY <1>1, <1>2, <1>3, <1>4

\* The watcher only moves the deadline.
LEMMA WatcherStepInv == ReadLoopInv /\ WatcherStep => ReadLoopInv'
  <1> SUFFICES ASSUME ReadLoopInv, WatcherStep PROVE ReadLoopInv'
    OBVIOUS
  <1>0. TypeOK
    BY DEF ReadLoopInv
  <1>1. TypeOK'
    <2> USE DEF ReadLoopInv, WatcherStep, WatcherWakes, WatcherInterrupts,
                peerVars, connVars, ctxVars, readerVars, workerVars
    <2>1. watcher' \in {"wait", "interrupt", "ended"}
      OBVIOUS
    <2>2. deadline' \in {"future", "past"}
      BY DEF TypeOK
    <2>3. UNCHANGED <<sent, eof, inbox, closed, parent, cancelled, reader, offered,
                      failure, errors, open, worker, seen, got, ending>>
      OBVIOUS
    <2> HIDE DEF ReadLoopInv, WatcherStep
    <2>4. QED
      BY <1>0, <2>1, <2>2, <2>3 DEF TypeOK
  <1> USE DEF ReadLoopInv, WatcherStep, WatcherWakes, WatcherInterrupts,
              peerVars, connVars, ctxVars, readerVars, workerVars
  <1>2. OrderInv' /\ EOFInv'
    BY DEF OrderInv, Taken, EOFInv
  <1>3. TellInv'
    BY DEF TellInv, Alive, NoSilentEnd, ctxDone
  <1>4. QED
    BY <1>1, <1>2, <1>3

\* The worker goes on, leaves its loop, cancels and closes.
LEMMA WorkerStepInv ==
    ASSUME ReadLoopInv,
           WorkerContinues \/ WorkerStops \/ WorkerCancels \/ WorkerCloses
    PROVE  ReadLoopInv'
  <1>0. TypeOK
    BY DEF ReadLoopInv
  <1>1. TypeOK'
    <2> USE DEF ReadLoopInv, WorkerContinues, WorkerStops, WorkerCancels,
                WorkerCloses, Close, Leave, peerVars, connVars, ctxVars, readerVars
    <2>1. closed' \in BOOLEAN /\ cancelled' \in BOOLEAN
      BY Zenon DEF TypeOK
    <2>2. /\ worker' \in {"busy", "select", "cancel", "close", "done"}
          /\ ending' \in {"none", "channelsClosed", "other"} \cup ErrorKinds
      BY DEF TypeOK
    <2>3. UNCHANGED <<sent, eof, inbox, deadline, parent, reader, offered, failure,
                      watcher, errors, open, seen, got>>
      OBVIOUS
    <2> HIDE DEF ReadLoopInv, WorkerContinues, WorkerStops, WorkerCancels,
                 WorkerCloses
    <2>4. QED
      BY <1>0, <2>1, <2>2, <2>3, Zenon DEF TypeOK
  <1> USE DEF ReadLoopInv, WorkerContinues, WorkerStops, WorkerCancels,
              WorkerCloses, Close, Leave, peerVars, connVars, ctxVars, readerVars
  <1>2. OrderInv' /\ EOFInv'
    BY DEF OrderInv, Taken, EOFInv
  <1>3. TellInv'
    BY DEF TellInv, Alive, NoSilentEnd, ctxDone
  <1>4. QED
    BY <1>1, <1>2, <1>3

\* A channel with room for one error holds that error or nothing.
LEMMA SingleElement ==
    ASSUME NEW S, NEW s \in Seq(S), s # <<>>, Len(s) <= 1
    PROVE  Head(s) \in S /\ s = <<Head(s)>> /\ Tail(s) = <<>>
  <1> DEFINE n == Len(s)
  <1>1. n \in Nat \ {0} /\ n <= 1
    BY EmptySeq, Zenon
  <1> HIDE DEF n
  <1>2. n = 1
    BY <1>1
  <1>3. Len(s) = 1 /\ Head(s) \in S /\ Head(s) = s[1]
    BY <1>2 DEF n
  <1>4. s = <<Head(s)>>
    BY <1>3
  <1>5. Tail(s) = <<>>
    <2>1. Tail(s) \in Seq(S) /\ Len(Tail(s)) = 0
      BY <1>3
    <2>2. QED
      BY <2>1
  <1>6. QED
    BY <1>3, <1>4, <1>5

\* The worker is told an error.
LEMMA ReceiveErrorStep == ReadLoopInv /\ ReceiveError => ReadLoopInv'
  <1> SUFFICES ASSUME ReadLoopInv, ReceiveError PROVE ReadLoopInv'
    OBVIOUS
  <1>1. /\ Head(errors) \in ErrorKinds /\ errors = <<Head(errors)>>
        /\ errors' = <<>>
    <2>1. /\ errors \in Seq(ErrorKinds) /\ Len(errors) <= 1 /\ errors # <<>>
          /\ errors' = Tail(errors)
      BY DEF ReadLoopInv, TypeOK, ReceiveError
    <2>2. QED
      BY <2>1, SingleElement
  <1> USE DEF ReadLoopInv, ReceiveError, Leave, peerVars, connVars, ctxVars,
              readerVars
  <1>2. TypeOK'
    BY <1>1 DEF TypeOK
  <1>3. OrderInv'
    BY DEF OrderInv, Taken
  <1>4. EOFInv'
    BY <1>1 DEF EOFInv
  <1>5. TellInv'
    BY <1>1 DEF TellInv, Alive, NoSilentEnd, ctxDone, ErrorKinds
  <1>6. QED
    BY <1>2, <1>3, <1>4, <1>5

\* The worker finds a channel closed.
LEMMA ReceiveClosedStep ==
    ASSUME ReadLoopInv, NEW channel \in {"messages", "errors"},
           ReceiveClosed(channel)
    PROVE  ReadLoopInv'
  <1> USE DEF ReadLoopInv, ReceiveClosed, Leave, peerVars, connVars, ctxVars,
              readerVars
  <1>1. TypeOK'
    BY DEF TypeOK
  <1>2. OrderInv' /\ EOFInv'
    BY DEF OrderInv, Taken, EOFInv
  <1>3. channel = "errors" => ctxDone
    BY DEF TellInv, Alive, Channels
  <1>4. TellInv'
    BY <1>3 DEF TellInv, Alive, NoSilentEnd, ctxDone, TypeOK
  <1>5. QED
    BY <1>1, <1>2, <1>4

-----------------------------------------------------------------------------

\* Every step of the peer, the reader, the watcher and the worker keeps
\* ReadLoopInv.
THEOREM ReadLoopInvariance == Spec => []ReadLoopInv
  <1>1. ReadLoopInv /\ [Next]_vars => ReadLoopInv'
    <2> SUFFICES ASSUME ReadLoopInv, [Next]_vars PROVE ReadLoopInv'
      OBVIOUS
    <2>1. CASE PeerSends \/ PeerEnds \/ Interrupt
      BY <2>1, EnvironmentStep
    <2>2. CASE ReaderStep \/ ReadTimeout
      BY <2>2, ReadsStep, ReaderStepInv DEF ReaderStep
    <2>3. CASE HandOver
      BY <2>3, HandOverStep
    <2>4. CASE WatcherStep
      BY <2>4, WatcherStepInv
    <2>5. CASE WorkerContinues \/ WorkerStops \/ WorkerCancels \/ WorkerCloses
      BY <2>5, WorkerStepInv
    <2>6. CASE ReceiveError
      BY <2>6, ReceiveErrorStep
    <2>7. CASE \E channel \in {"messages", "errors"} : ReceiveClosed(channel)
      BY <2>7, ReceiveClosedStep
    <2>8. CASE UNCHANGED vars
      BY <2>8 DEF vars, ReadLoopInv, TypeOK, OrderInv, Taken, EOFInv, TellInv,
                  Alive, NoSilentEnd, ctxDone
    <2>9. QED
      BY <2>1, <2>2, <2>3, <2>4, <2>5, <2>6, <2>7, <2>8 DEF Next
  <1>2. QED
    BY <1>1, InitReadLoopInv, PTL DEF Spec

\* A worker that is told "eof" has handled every message of the stream.
THEOREM EOFComesLast == Spec => []EOFAfterMessages
  <1>1. ReadLoopInv => EOFAfterMessages
    BY DEF ReadLoopInv, EOFInv, EOFAfterMessages
  <1>2. QED
    BY <1>1, ReadLoopInvariance, PTL

\* The worker's loop ends on closed channels only if its context is done.
THEOREM EndIsNeverSilent == Spec => []NoSilentEnd
  <1>1. ReadLoopInv => NoSilentEnd
    BY DEF ReadLoopInv, TellInv
  <1>2. QED
    BY <1>1, ReadLoopInvariance, PTL

\* A step hands over the next message, sends one, or is invisible to both.
LEMMA StreamStep ==
    ReadLoopInv /\ [Next]_vars
        => [Stream!Next]_<<[i \in 1 .. sent |-> i], got>>
  <1> SUFFICES ASSUME ReadLoopInv, [Next]_vars
               PROVE  [Stream!Next]_<<[i \in 1 .. sent |-> i], got>>
    OBVIOUS
  <1> DEFINE s == [i \in 1 .. sent |-> i]
  <1>1. sent \in 0 .. MaxMessages /\ sent \in Nat /\ Len(got) \in Nat
    BY ReadLoopAssumption DEF ReadLoopInv, TypeOK
  <1>2. s \in Seq(Nat) /\ Len(s) = sent /\ \A i \in 1 .. sent : s[i] = i
    BY <1>1
  <1>3. CASE PeerSends
    <2>1. /\ sent' = sent + 1 /\ sent + 1 \in 1 .. MaxMessages /\ got' = got
      BY <1>1, <1>3, ReadLoopAssumption DEF PeerSends, workerVars
    <2>2. s' = Append(s, sent + 1)
      BY <1>1, <1>2, <2>1
    <2>3. QED
      BY <2>1, <2>2 DEF Stream!Next, Stream!Send
  <1>4. CASE HandOver
    <2>1. sent' = sent /\ got' = Append(got, offered)
      BY <1>4 DEF HandOver, peerVars
    <2>2. Len(got) + 1 \in 1 .. sent /\ offered = Len(got) + 1
      BY <1>1, <1>4 DEF HandOver, ReadLoopInv, TypeOK, OrderInv, Taken
    <2>3. QED
      BY <1>1, <1>2, <2>1, <2>2 DEF Stream!Next, Stream!Deliver
  <1>5. CASE sent' = sent /\ got' = got
    BY <1>5
  <1>6. QED
    BY <1>3, <1>4, <1>5
    DEF Next, PeerEnds, Interrupt, ReaderStep, ReaderArms, ReaderReads,
        ReadTimeout, GiveUpOffer, sendError, ReaderCloses, WatcherStep,
        WatcherWakes, WatcherInterrupts, WorkerContinues, WorkerStops,
        ReceiveError, ReceiveClosed, WorkerCancels, WorkerCloses, peerVars,
        workerVars, vars

\* ReadLoop and the worker behind it implement MessageStream: the messages are
\* handled in the order they were sent, none twice and none left out.
THEOREM ReadLoopRefinesStream == Spec => ImplementsMessageStream
  <1>1. Init => Stream!Init
    BY DEF Init, Stream!Init
  <1>2. QED
    BY <1>1, StreamStep, ReadLoopInvariance, PTL
    DEF Spec, ImplementsMessageStream, Stream!Spec

=============================================================================
