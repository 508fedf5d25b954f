------------------------------ MODULE ReadLoop ------------------------------
(***************************************************************************)
(* One peer connection: the goroutine ReadLoop starts (the reader), the    *)
(* one it starts in turn to watch the context (the watcher), and the       *)
(* worker that consumes their two channels and closes the connection       *)
(* (RunClient, of which only what concerns the channels is kept here).     *)
(*                                                                         *)
(* The messages channel is unbuffered: a message moves when the reader     *)
(* offers it and the worker is at its select.  The errors channel holds    *)
(* one error.  The read deadline is set by reader and watcher alike, and   *)
(* the last one wins.                                                      *)
(***************************************************************************)
EXTENDS Integers, Sequences

CONSTANT MaxMessages    \* bound: messages the peer sends

ASSUME ReadLoopAssumption == MaxMessages \in Nat

VARIABLES
    sent,       \* messages the peer has sent, numbered 1, 2, ...
    eof,        \* the peer has closed, or what follows is malformed
    inbox,      \* sent and not yet read
    deadline,   \* of reads on the connection
    closed,     \* the connection is closed
    parent,     \* ctx, the worker's context, is done
    cancelled,  \* workerContext's own cancel has been called
    reader,     \* where the reader is
    offered,    \* the message it holds, 0 if none
    failure,    \* the error it holds
    watcher,    \* where the watcher is
    errors,     \* the contents of the errors channel
    open,       \* the channels not yet closed by the reader
    worker,     \* where the worker is
    seen,       \* the channels the worker still receives from
    got,        \* the messages the worker handled
    ending      \* why the worker left its loop

peerVars   == <<sent, eof>>
connVars   == <<deadline, closed>>
ctxVars    == <<parent, cancelled>>
readerVars == <<reader, offered, failure>>
workerVars == <<worker, seen, got, ending>>
vars == <<sent, eof, inbox, deadline, closed, parent, cancelled, reader,
          offered, failure, watcher, errors, open, worker, seen, got, ending>>

Channels == {"messages", "errors", "stop"}
ErrorKinds == {"eof", "failure"}

TypeOK ==
    /\ sent \in 0 .. MaxMessages
    /\ eof \in BOOLEAN
    /\ inbox \in Seq(1 .. MaxMessages)
    /\ deadline \in {"future", "past"}
    /\ closed \in BOOLEAN
    /\ parent \in BOOLEAN
    /\ cancelled \in BOOLEAN
    /\ reader \in {"arm", "read", "offer", "sendError", "return", "ended"}
    /\ offered \in 0 .. MaxMessages
    /\ failure \in {"none"} \cup ErrorKinds
    /\ watcher \in {"wait", "interrupt", "ended"}
    /\ errors \in Seq(ErrorKinds) /\ Len(errors) <= 1
    /\ open \in SUBSET Channels
    /\ worker \in {"busy", "select", "cancel", "close", "done"}
    /\ seen \in SUBSET {"messages", "errors"}
    /\ got \in Seq(1 .. MaxMessages) /\ Len(got) <= sent
    /\ ending \in {"none", "channelsClosed", "other"} \cup ErrorKinds

\* The worker has just called ReadLoop and is sending "interested".
Init ==
    /\ sent = 0 /\ eof = FALSE /\ inbox = <<>>
    /\ deadline = "future" /\ closed = FALSE
    /\ parent = FALSE /\ cancelled = FALSE
    /\ reader = "arm" /\ offered = 0 /\ failure = "none"
    /\ watcher = "wait"
    /\ errors = <<>> /\ open = Channels
    /\ worker = "busy" /\ seen = {"messages", "errors"}
    /\ got = <<>> /\ ending = "none"

ctxDone == parent \/ cancelled

-----------------------------------------------------------------------------
(* The peer and the user.                                                  *)

PeerSends ==
    /\ ~eof /\ sent < MaxMessages
    /\ sent' = sent + 1
    /\ inbox' = Append(inbox, sent + 1)
    /\ UNCHANGED <<eof, connVars, ctxVars, readerVars, watcher, errors, open,
                   workerVars>>

PeerEnds ==
    /\ ~eof
    /\ eof' = TRUE
    /\ UNCHANGED <<sent, inbox, connVars, ctxVars, readerVars, watcher, errors,
                   open, workerVars>>

Interrupt ==
    /\ ~parent
    /\ parent' = TRUE
    /\ UNCHANGED <<peerVars, inbox, connVars, cancelled, readerVars, watcher,
                   errors, open, workerVars>>

-----------------------------------------------------------------------------
(* The reader.                                                             *)

\* SetReadDeadline fails only on a closed connection.
ReaderArms ==
    /\ reader = "arm"
    /\ IF closed
       THEN /\ reader' = "sendError"
            /\ failure' = "failure"
            /\ UNCHANGED deadline
       ELSE /\ reader' = "read"
            /\ deadline' = "future"
            /\ UNCHANGED failure
    /\ UNCHANGED <<peerVars, inbox, closed, ctxVars, offered, watcher, errors,
                   open, workerVars>>

\* MUTANT of ReadMessage: the latest message comes first.
ReadMessageNewest ==
    /\ inbox # <<>> /\ ~closed /\ deadline = "future"
    /\ reader' = "offer"
    /\ offered' = inbox[Len(inbox)]
    /\ inbox' = SubSeq(inbox, 1, Len(inbox) - 1)
    /\ UNCHANGED failure

ReadMessage ==
    /\ inbox # <<>> /\ ~closed /\ deadline = "future"
    /\ reader' = "offer"
    /\ offered' = Head(inbox)
    /\ inbox' = Tail(inbox)
    /\ UNCHANGED failure

\* Why a read fails: the connection is closed, its deadline has passed, or the
\* stream is over.
ReadFails ==
    \/ (closed \/ deadline = "past") /\ failure' = "failure"
    \/ /\ eof /\ inbox = <<>> /\ ~closed /\ deadline = "future"
       /\ failure' = "eof"

\* MUTANT of ReadError: no error is reported.
ReadErrorSilent == reader' = "return"

\* An error that the context explains is not reported.
ReadError == reader' = IF ctxDone THEN "return" ELSE "sendError"

ReaderReads ==
    /\ reader = "read"
    /\ \/ ReadMessage
       \/ /\ ReadFails
          /\ ReadError
          /\ UNCHANGED <<inbox, offered>>
    /\ UNCHANGED <<peerVars, connVars, ctxVars, watcher, errors, open,
                   workerVars>>

\* Nothing came for the whole read timeout: the deadline passes by itself.
ReadTimeout ==
    /\ reader = "read" /\ deadline = "future" /\ ~closed
    /\ deadline' = "past"
    /\ UNCHANGED <<peerVars, inbox, closed, ctxVars, readerVars, watcher, errors,
                   open, workerVars>>

\* The two cases of the reader's select.
HandOver ==
    /\ reader = "offer"
    /\ worker = "select" /\ "messages" \in seen
    /\ got' = Append(got, offered)
    /\ worker' = "busy"
    /\ reader' = "arm"
    /\ offered' = 0
    /\ UNCHANGED <<peerVars, inbox, connVars, ctxVars, failure, watcher, errors,
                   open, seen, ending>>

\* MUTANT of GiveUpOffer: a message the worker is not waiting for is dropped.
GiveUpOfferEarly ==
    /\ reader = "offer"
    /\ reader' = "arm"
    /\ offered' = 0
    /\ UNCHANGED <<peerVars, inbox, connVars, ctxVars, failure, watcher, errors,
                   open, workerVars>>

GiveUpOffer ==
    /\ reader = "offer"
    /\ ctxDone
    /\ reader' = "return"
    /\ offered' = 0
    /\ UNCHANGED <<peerVars, inbox, connVars, ctxVars, failure, watcher, errors,
                   open, workerVars>>

\* sendError: the buffer has room, or the context is done.
sendError ==
    /\ reader = "sendError"
    /\ \/ errors = <<>> /\ errors' = <<failure>>
       \/ ctxDone /\ UNCHANGED errors
    /\ reader' = "return"
    /\ failure' = "none"
    /\ UNCHANGED <<peerVars, inbox, connVars, ctxVars, offered, watcher, open,
                   workerVars>>

\* The deferred closes, last one first.
ReaderCloses ==
    /\ reader = "return"
    /\ \/ "stop" \in open /\ open' = open \ {"stop"}
       \/ open = {"messages", "errors"} /\ open' = {"messages"}
       \/ open = {"messages"} /\ open' = {}
    /\ reader' = IF open' = {} THEN "ended" ELSE "return"
    /\ UNCHANGED <<peerVars, inbox, connVars, ctxVars, offered, failure, watcher,
                   errors, workerVars>>

-----------------------------------------------------------------------------
(* The watcher.                                                            *)

WatcherWakes ==
    /\ watcher = "wait"
    /\ \/ ctxDone /\ watcher' = "interrupt"
       \/ "stop" \notin open /\ watcher' = "ended"
    /\ UNCHANGED <<peerVars, inbox, connVars, ctxVars, readerVars, errors, open,
                   workerVars>>

WatcherInterrupts ==
    /\ watcher = "interrupt"
    /\ watcher' = "ended"
    /\ deadline' = "past"
    /\ UNCHANGED <<peerVars, inbox, closed, ctxVars, readerVars, errors, open,
                   workerVars>>

-----------------------------------------------------------------------------
(* The worker.                                                             *)

Leave(why) ==
    /\ worker' = "cancel"
    /\ ending' = why

\* A message, or "interested", has been dealt with: back to the select, or out
\* because that failed or the download is complete.
WorkerContinues ==
    /\ worker = "busy"
    /\ \/ worker' = "select" /\ UNCHANGED ending
       \/ Leave("other")
    /\ UNCHANGED <<peerVars, inbox, connVars, ctxVars, readerVars, watcher,
                   errors, open, seen, got>>

\* The context, the block deadline, or an update when all is complete.
WorkerStops ==
    /\ worker = "select"
    /\ Leave("other")
    /\ UNCHANGED <<peerVars, inbox, connVars, ctxVars, readerVars, watcher,
                   errors, open, seen, got>>

ReceiveError ==
    /\ worker = "select" /\ "errors" \in seen
    /\ errors # <<>>
    /\ errors' = Tail(errors)
    /\ Leave(IF parent THEN "other" ELSE Head(errors))
    /\ UNCHANGED <<peerVars, inbox, connVars, ctxVars, readerVars, watcher, open,
                   seen, got>>

\* A closed channel is set to nil; the loop ends when both are.
ReceiveClosed(channel) ==
    /\ worker = "select" /\ channel \in seen
    /\ channel \notin open
    /\ channel = "errors" => errors = <<>>
    /\ seen' = seen \ {channel}
    /\ IF seen' = {} THEN Leave("channelsClosed") ELSE UNCHANGED <<worker, ending>>
    /\ UNCHANGED <<peerVars, inbox, connVars, ctxVars, readerVars, watcher,
                   errors, open, got>>

\* The deferred function: cancel, then Close.
WorkerCancels ==
    /\ worker = "cancel"
    /\ cancelled' = TRUE
    /\ worker' = "close"
    /\ UNCHANGED <<peerVars, inbox, connVars, parent, readerVars, watcher, errors,
                   open, seen, got, ending>>

\* MUTANT of Close: the watcher alone has to stop the reader.
CloseMissing == UNCHANGED closed

Close == closed' = TRUE

WorkerCloses ==
    /\ worker = "close"
    /\ Close
    /\ worker' = "done"
    /\ UNCHANGED <<peerVars, inbox, deadline, ctxVars, readerVars, watcher,
                   errors, open, seen, got, ending>>

-----------------------------------------------------------------------------

ReaderStep ==
    \/ ReaderArms
    \/ ReaderReads
    \/ GiveUpOffer
    \/ sendError
    \/ ReaderCloses

WatcherStep == WatcherWakes \/ WatcherInterrupts

Next ==
    \/ PeerSends
    \/ PeerEnds
    \/ Interrupt
    \/ ReaderStep
    \/ ReadTimeout
    \/ HandOver
    \/ WatcherStep
    \/ WorkerContinues
    \/ WorkerStops
    \/ ReceiveError
    \/ \E channel \in {"messages", "errors"} : ReceiveClosed(channel)
    \/ WorkerCancels
    \/ WorkerCloses

Spec == Init /\ [][Next]_vars

\* The goroutines run.  Nothing is assumed of the peer, of the user, of the
\* worker before it ends, nor of the read timeout.
Fairness ==
    /\ WF_vars(ReaderStep)
    /\ WF_vars(WatcherStep)
    /\ WF_vars(WorkerCancels \/ WorkerCloses)

FairSpec == Spec /\ Fairness

-----------------------------------------------------------------------------
(* Properties.                                                             *)

\* "Preserves wire ordering": the worker handles the peer's messages in the order
\* they were sent, without a gap or a repetition, whatever is lost after the last
\* one it handles.  The reader and its channels implement MessageStream.
Stream == INSTANCE MessageStream WITH
    Messages <- 1 .. MaxMessages,
    sent <- [i \in 1 .. sent |-> i]

ImplementsMessageStream == Stream!Spec

\* "The consumer handles each message before the next read can observe EOF":
\* a worker that is told of the end of the stream has handled all of it.
EOFAfterMessages == ending = "eof" => Len(got) = sent

\* The channels are never just closed on a worker whose context is alive: the
\* reader's last error reaches it first.
NoSilentEnd == ending = "channelsClosed" => ctxDone

\* "The goroutine can always terminate when its worker exits": reader and
\* watcher end, even if the reader overwrites the watcher's deadline and the
\* peer says nothing more.
GoroutinesEnd == worker = "done" ~> (reader = "ended" /\ watcher = "ended")

=============================================================================
