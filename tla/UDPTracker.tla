----------------------------- MODULE UDPTracker -----------------------------
(***************************************************************************)
(* One announce to a UDP tracker: announceUDP of                           *)
(* internal/tracker/announce.go, the goroutine it starts to watch the      *)
(* context, a network that loses, duplicates, delays and reorders          *)
(* datagrams, and a tracker that may answer, refuse or babble.             *)
(*                                                                         *)
(* The exchange is two requests and two replies over one socket, without a *)
(* retransmission: the code reads one datagram per request and gives up if *)
(* it is not the answer.  A datagram is reduced to what the code looks at. *)
(***************************************************************************)
EXTENDS Integers, FiniteSets

CONSTANTS
    Transactions,       \* what randomUint32 may return
    OldTransactions,    \* those of an earlier exchange from the same port
    ConnectionIDs,      \* what a tracker grants
    MaxInFlight,        \* bound on the replies that are under way at a time
    Nil

\* That a new random number is one of an earlier exchange is left out; that the
\* two of one exchange are the same is not.
ASSUME UDPTrackerAssumption ==
    /\ Transactions \cap OldTransactions = {}
    /\ Nil \notin Transactions \cup ConnectionIDs
    /\ MaxInFlight \in Nat

ConnectAction  == 0
AnnounceAction == 1
ErrorAction    == 3

VARIABLES
    pc,             \* where announceUDP is
    outcome,        \* what it returns
    transaction,    \* of the request it waits for an answer to
    connectionID,
    deadline,       \* of the socket
    stopped,        \* stopCancellationWatch is closed
    closed,         \* the socket is closed
    cancelled,      \* ctx is done: "no", or "early" or "late"
    watcher,        \* where the cancellation watcher is
    requests,       \* requests the tracker may still receive
    replies,        \* replies that may still arrive
    granted,        \* connection IDs granted to this exchange
    accepted        \* the reply the returned peers come from

callVars   == <<pc, outcome, transaction, connectionID, accepted>>
socketVars == <<deadline, closed>>
netVars    == <<requests, replies, granted>>
vars == <<pc, outcome, transaction, connectionID, deadline, stopped, closed,
          cancelled, watcher, requests, replies, granted, accepted>>

\* How much of a datagram there is: less than the eight bytes every reply has,
\* less than the reply needs, or enough.
Sizes == {"fragment", "short", "full"}

Requests == [action : {ConnectAction, AnnounceAction},
             transaction : Transactions, connectionID : ConnectionIDs \cup {Nil}]

\* "valid" is about the rest of an announce reply, the interval and the list of
\* peers; "answers" is what the tracker knows and the client does not.
Replies == [action : {ConnectAction, AnnounceAction, ErrorAction},
            transaction : Transactions \cup OldTransactions,
            size : Sizes, valid : BOOLEAN,
            connectionID : ConnectionIDs \cup {Nil},
            answers : {"connect", "announce", "earlier"}]

TypeOK ==
    /\ pc \in {"dial", "arm", "connect", "connectReply", "announce",
               "announceReply", "stop", "close", "done"}
    /\ outcome \in {"none", "ok", "failed"}
    /\ transaction \in Transactions \cup {Nil}
    /\ connectionID \in ConnectionIDs
          \cup (IF pc \in {"announce", "announceReply"} THEN {} ELSE {Nil})
    /\ deadline \in {"none", "future", "past"}
    /\ stopped \in BOOLEAN
    /\ closed \in BOOLEAN
    /\ cancelled \in {"no", "early", "late"}
    /\ watcher \in {"none", "wait", "interrupt", "ended"}
    /\ requests \in SUBSET Requests
    /\ replies \in SUBSET Replies
    /\ granted \in SUBSET ConnectionIDs
    /\ accepted \in Replies \cup {Nil}

Reply(action, tx, size, valid, id, answers) ==
    [action |-> action, transaction |-> tx, size |-> size, valid |-> valid,
     connectionID |-> id, answers |-> answers]

\* Late replies to an earlier exchange from the same port: grants and peers.
EarlierReplies ==
    [action : {ConnectAction, AnnounceAction}, transaction : OldTransactions,
     size : {"full"}, valid : {TRUE}, connectionID : ConnectionIDs,
     answers : {"earlier"}]

Init ==
    /\ pc = "dial" /\ outcome = "none"
    /\ transaction = Nil /\ connectionID = Nil /\ accepted = Nil
    /\ deadline = "none" /\ stopped = FALSE /\ closed = FALSE
    /\ cancelled = "no" /\ watcher = "none"
    /\ requests = {}
    /\ replies \in {r \in SUBSET EarlierReplies : Cardinality(r) < MaxInFlight}
    /\ granted = {}

-----------------------------------------------------------------------------
(* announceUDP.                                                            *)

\* Every return goes through the deferred calls.
Return(result) ==
    /\ pc' = "stop"
    /\ outcome' = result

\* Dialling fails if the context is done; the socket exists otherwise, and the
\* watcher is started.
Dial ==
    /\ pc = "dial"
    /\ \/ /\ pc' = "done"
          /\ outcome' = "failed"
          /\ UNCHANGED watcher
       \/ /\ cancelled = "no"
          /\ pc' = "arm"
          /\ watcher' = "wait"
          /\ UNCHANGED outcome
    /\ UNCHANGED <<transaction, connectionID, accepted, socketVars, stopped,
                   cancelled, netVars>>

\* MUTANT of SetDeadline: the socket has no deadline.
SetDeadlineMissing == UNCHANGED deadline

\* The timeout, or the context's own deadline if that is earlier.  An interrupt
\* by the watcher that came before is undone.
SetDeadline == deadline' = "future"

\* The deadline is set, or the operating system refuses it.
Arm ==
    /\ pc = "arm"
    /\ \/ /\ SetDeadline
          /\ pc' = "connect"
          /\ UNCHANGED outcome
       \/ /\ Return("failed")
          /\ UNCHANGED deadline
    /\ UNCHANGED <<transaction, connectionID, accepted, closed, stopped,
                   cancelled, watcher, netVars>>

\* MUTANT of writeDatagram: the deadline is set anew for every request.
writeDatagramRearms(request, next) ==
    /\ deadline' = "future"
    /\ requests' = requests \cup {request}
    /\ pc' = next
    /\ UNCHANGED outcome

\* The request is on its way, or writing fails; after the deadline it does.
writeDatagram(request, next) ==
    /\ UNCHANGED deadline
    /\ \/ /\ deadline # "past"
          /\ requests' = requests \cup {request}
          /\ pc' = next
          /\ UNCHANGED outcome
       \/ /\ Return("failed")
          /\ UNCHANGED requests

SendConnect ==
    /\ pc = "connect"
    /\ \E tx \in Transactions :
           /\ transaction' = tx
           /\ writeDatagram([action |-> ConnectAction, transaction |-> tx,
                             connectionID |-> Nil], "connectReply")
    /\ UNCHANGED <<connectionID, accepted, closed, stopped, cancelled, watcher,
                   replies, granted>>

\* MUTANT of validateUDPResponse: the transaction is not compared.
validateUDPResponseAnyTransaction(data, expectedAction) ==
    data.size = "full" /\ data.action = expectedAction

validateUDPResponse(data, expectedAction) ==
    /\ data.size # "fragment"
    /\ data.transaction = transaction
    /\ data.action # ErrorAction
    /\ data.action = expectedAction
    /\ data.size # "short"

\* One datagram is read; a copy of it may come again.
readUDPResponse(data) ==
    /\ data \in replies
    /\ deadline # "past"
    /\ \E copies \in {{}, {data}} : replies' = (replies \ {data}) \cup copies

\* A read that fails ends the call, whatever the reason.
readFails ==
    /\ pc \in {"connectReply", "announceReply"}
    /\ Return("failed")
    /\ UNCHANGED <<transaction, connectionID, accepted, socketVars, stopped,
                   cancelled, watcher, netVars>>

ReadTimeout == deadline = "past" /\ readFails

\* The network reports an error, say that nobody listens at the tracker's port.
ReadError == deadline # "past" /\ readFails

ReadConnectReply ==
    /\ pc = "connectReply"
    /\ \E data \in replies :
           /\ readUDPResponse(data)
           /\ IF validateUDPResponse(data, ConnectAction)
              THEN /\ connectionID' = data.connectionID
                   /\ pc' = "announce"
                   /\ UNCHANGED outcome
              ELSE /\ Return("failed")
                   /\ UNCHANGED connectionID
    /\ UNCHANGED <<transaction, accepted, socketVars, stopped, cancelled, watcher,
                   requests, granted>>

SendAnnounce ==
    /\ pc = "announce"
    /\ \E tx \in Transactions :
           /\ transaction' = tx
           /\ writeDatagram([action |-> AnnounceAction, transaction |-> tx,
                             connectionID |-> connectionID], "announceReply")
    /\ UNCHANGED <<connectionID, accepted, closed, stopped, cancelled, watcher,
                   replies, granted>>

ReadAnnounceReply ==
    /\ pc = "announceReply"
    /\ \E data \in replies :
           /\ readUDPResponse(data)
           /\ IF validateUDPResponse(data, AnnounceAction) /\ data.valid
              THEN /\ Return("ok")
                   /\ accepted' = data
              ELSE /\ Return("failed")
                   /\ UNCHANGED accepted
    /\ UNCHANGED <<transaction, connectionID, socketVars, stopped, cancelled,
                   watcher, requests, granted>>

\* MUTANT of StopWatch: the watcher is not told.
StopWatchMissing == UNCHANGED stopped

StopWatch == stopped' = TRUE

\* The deferred calls, last one first.
Deferred ==
    /\ \/ /\ pc = "stop" /\ pc' = "close"
          /\ StopWatch
          /\ UNCHANGED closed
       \/ /\ pc = "close" /\ pc' = "done"
          /\ closed' = TRUE
          /\ UNCHANGED stopped
    /\ UNCHANGED <<outcome, transaction, connectionID, accepted, deadline,
                   cancelled, watcher, netVars>>

-----------------------------------------------------------------------------
(* The watcher, the user and the clock.                                    *)

WatcherWakes ==
    /\ watcher = "wait"
    /\ \/ cancelled # "no" /\ watcher' = "interrupt"
       \/ stopped /\ watcher' = "ended"
    /\ UNCHANGED <<callVars, socketVars, stopped, cancelled, netVars>>

\* On a closed socket this is an error that nobody looks at.
WatcherInterrupts ==
    /\ watcher = "interrupt"
    /\ watcher' = "ended"
    /\ deadline' = IF closed THEN deadline ELSE "past"
    /\ UNCHANGED <<callVars, closed, stopped, cancelled, netVars>>

Cancel ==
    /\ cancelled = "no"
    /\ cancelled' = IF pc \in {"dial", "arm"} THEN "early" ELSE "late"
    /\ UNCHANGED <<callVars, socketVars, stopped, watcher, netVars>>

DeadlinePasses ==
    /\ deadline = "future"
    /\ deadline' = "past"
    /\ UNCHANGED <<callVars, closed, stopped, cancelled, watcher, netVars>>

-----------------------------------------------------------------------------
(* The tracker.  It may receive a request more than once, or never.        *)

\* What the tracker does after the last read of the exchange is left out: nobody
\* would see it.
Send(reply) ==
    /\ pc \notin {"stop", "close", "done"}
    /\ Cardinality(replies \cup {reply}) <= MaxInFlight
    /\ replies' = replies \cup {reply}

TrackerGrants ==
    \E request \in requests, id \in ConnectionIDs :
        /\ request.action = ConnectAction
        /\ granted' = granted \cup {id}
        /\ Send(Reply(ConnectAction, request.transaction, "full", TRUE, id,
                      "connect"))
        /\ UNCHANGED <<callVars, socketVars, stopped, cancelled, watcher,
                       requests>>

TrackerAnnounces ==
    \E request \in requests, valid \in BOOLEAN :
        /\ request.action = AnnounceAction
        /\ request.connectionID \in granted
        /\ Send(Reply(AnnounceAction, request.transaction, "full", valid, Nil,
                      "announce"))
        /\ UNCHANGED <<callVars, socketVars, stopped, cancelled, watcher,
                       requests, granted>>

\* A refusal, or a reply cut short somewhere.
TrackerRefuses ==
    \E request \in requests, size \in Sizes :
        /\ Send(Reply(IF size = "full" THEN ErrorAction ELSE request.action,
                      request.transaction, size, FALSE, Nil,
                      IF request.action = ConnectAction THEN "connect"
                                                        ELSE "announce"))
        /\ UNCHANGED <<callVars, socketVars, stopped, cancelled, watcher,
                       requests, granted>>

-----------------------------------------------------------------------------

CallStep ==
    \/ Dial
    \/ Arm
    \/ SendConnect
    \/ ReadTimeout
    \/ ReadConnectReply
    \/ SendAnnounce
    \/ ReadAnnounceReply
    \/ Deferred

WatcherStep == WatcherWakes \/ WatcherInterrupts

TrackerStep == TrackerGrants \/ TrackerAnnounces \/ TrackerRefuses

Next ==
    \/ CallStep
    \/ ReadError
    \/ WatcherStep
    \/ Cancel
    \/ DeadlinePasses
    \/ TrackerStep

Spec == Init /\ [][Next]_vars

\* The goroutines run and time passes.  Nothing is assumed of the network, of
\* the tracker or of the user.
Fairness ==
    /\ WF_vars(CallStep)
    /\ WF_vars(WatcherStep)
    /\ WF_vars(DeadlinePasses)

FairSpec == Spec /\ Fairness

-----------------------------------------------------------------------------
(* Properties.                                                             *)

\* The peers that announceUDP returns are the tracker's answer to the announce
\* of this very exchange, made with a connection ID that was granted to it: not
\* a late reply to an earlier announce, not a copy of the connect reply, not
\* even if the two random transaction numbers of the exchange are the same.
AnswerIsOurs ==
    outcome = "ok" =>
        /\ accepted.answers = "announce"
        /\ accepted.transaction = transaction
        /\ connectionID \in granted

\* A cancellation that comes when the deadline has been set is not undone: once
\* the watcher has acted, no read or write of the exchange can block any more.
\* (One that comes between dialling and setting the deadline may be undone; the
\* call then runs into its timeout.)
LateCancelHeard ==
    (/\ cancelled = "late" /\ watcher = "ended"
     /\ pc \notin {"stop", "close", "done"}) => deadline = "past"

\* "All network phases have deadlines": the announce ends, even if no datagram
\* ever arrives and even if the interrupt of the watcher was undone.
ExchangeEnds == <>(pc = "done")

\* The watcher does not outlive the call.
WatcherEnds == pc = "done" ~> watcher \in {"none", "ended"}

=============================================================================
