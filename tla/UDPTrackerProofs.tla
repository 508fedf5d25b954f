-------------------------- MODULE UDPTrackerProofs --------------------------
(***************************************************************************)
(* Proofs about UDPTracker, for any number of transactions, connection IDs *)
(* and datagrams under way: the peers an announce returns are the answer   *)
(* to that announce, and a cancellation that comes once the deadline is    *)
(* set is heard.                                                           *)
(***************************************************************************)
EXTENDS UDPTracker, TLAPS

BeforeReturn == pc \notin {"stop", "close", "done"}

\* What the replies under way may say, whoever sent them and however often.  A
\* reply to an earlier exchange carries a transaction of that exchange, a reply
\* to the connect request is never an announce, and a connection ID that
\* validateUDPResponse would let through has been granted.
RepliesInv ==
    \A r \in replies :
        /\ r.answers = "earlier" => r.transaction \in OldTransactions
        /\ r.answers = "connect" => r.action # AnnounceAction
        /\ (/\ r.answers # "earlier"
            /\ r.action = ConnectAction
            /\ r.size = "full") => r.connectionID \in granted

\* What announceUDP knows at each of its steps.
CallInv ==
    /\ pc \in {"connectReply", "announceReply"} => transaction \in Transactions
    /\ pc \in {"announce", "announceReply"} => connectionID \in granted
    /\ BeforeReturn => outcome = "none"

\* The watcher ends before the call returns only if the context is done, and
\* nothing moves the deadline back once the call has left "arm".
WatchInv ==
    /\ pc = "dial" => watcher = "none"
    /\ pc \in {"dial", "arm"} => cancelled # "late"
    /\ stopped => pc \in {"close", "done"}
    /\ closed => pc = "done"
    /\ watcher = "interrupt" => cancelled # "no"
    /\ watcher = "ended" /\ BeforeReturn => cancelled # "no"

UDPInv ==
    TypeOK /\ RepliesInv /\ CallInv /\ WatchInv /\ AnswerIsOurs /\ LateCancelHeard

-----------------------------------------------------------------------------

\* Before the call there are only late replies to earlier exchanges.
LEMMA InitUDPInv == Init => UDPInv
  <1> SUFFICES ASSUME Init PROVE UDPInv
    OBVIOUS
  <1> USE UDPTrackerAssumption DEF Init
  <1>0. replies \subseteq EarlierReplies
    OBVIOUS
  <1>1. \A r \in replies : r \in Replies /\ r.answers = "earlier"
                             /\ r.transaction \in OldTransactions
    BY <1>0 DEF EarlierReplies, Replies, Sizes
  <1>2. TypeOK
    BY <1>1 DEF TypeOK
  <1>3. RepliesInv
    BY <1>1 DEF RepliesInv
  <1>4. CallInv /\ WatchInv /\ AnswerIsOurs /\ LateCancelHeard
    BY DEF CallInv, WatchInv, AnswerIsOurs, LateCancelHeard, BeforeReturn
  <1>5. QED
    BY <1>2, <1>3, <1>4 DEF UDPInv

\* Dialling, arming, giving up and the deferred calls touch no datagram.
LEMMA LocalStep ==
    UDPInv /\ (Dial \/ Arm \/ ReadTimeout \/ ReadError \/ Deferred) => UDPInv'
  <1> SUFFICES ASSUME UDPInv, Dial \/ Arm \/ ReadTimeout \/ ReadError \/ Deferred
               PROVE  UDPInv'
    OBVIOUS
  <1> USE DEF UDPInv, Dial, Arm, ReadTimeout, ReadError, readFails, Deferred,
              socketVars, netVars, SetDeadline, StopWatch, Return
  <1>1. TypeOK'
    <2>1. UNCHANGED <<transaction, connectionID, accepted, cancelled, requests,
                      replies, granted>>
      OBVIOUS
    <2>2. /\ pc' \in {"arm", "connect", "stop", "close", "done"}
          /\ outcome' \in {"none", "ok", "failed"}
          /\ deadline' \in {"none", "future", "past"}
          /\ watcher' \in {"none", "wait", "interrupt", "ended"}
      BY DEF TypeOK
    <2>3. stopped' \in BOOLEAN /\ closed' \in BOOLEAN
      BY Zenon DEF TypeOK
    <2>4. QED
      BY <2>1, <2>2, <2>3 DEF TypeOK
  <1>2. RepliesInv'
    BY DEF RepliesInv
  <1>3. CallInv'
    BY DEF CallInv, BeforeReturn, TypeOK
  <1>4. WatchInv'
    BY DEF WatchInv, BeforeReturn, TypeOK
  <1>5. AnswerIsOurs'
    BY DEF AnswerIsOurs, CallInv, BeforeReturn
  <1>6. LateCancelHeard'
    BY DEF LateCancelHeard, WatchInv, BeforeReturn
  <1>7. QED
    BY <1>1, <1>2, <1>3, <1>4, <1>5, <1>6

\* A request is sent under a new transaction; the deadline stays where it is.
LEMMA SendStep == UDPInv /\ (SendConnect \/ SendAnnounce) => UDPInv'
  <1> SUFFICES ASSUME UDPInv, SendConnect \/ SendAnnounce PROVE UDPInv'
    OBVIOUS
  <1> USE DEF UDPInv, SendConnect, SendAnnounce, writeDatagram, Return
  <1>1. TypeOK'
    BY DEF TypeOK, Requests, ConnectAction, AnnounceAction
  <1>2. RepliesInv'
    BY DEF RepliesInv
  <1>3. CallInv'
    BY DEF CallInv, BeforeReturn
  <1>4. WatchInv'
    BY DEF WatchInv, BeforeReturn
  <1>5. AnswerIsOurs'
    BY DEF AnswerIsOurs, CallInv, BeforeReturn
  <1>6. LateCancelHeard'
    BY DEF LateCancelHeard
  <1>7. QED
    BY <1>1, <1>2, <1>3, <1>4, <1>5, <1>6

\* A reply whose transaction is the one of this exchange answers this exchange.
LEMMA ValidatedIsOurs ==
    ASSUME UDPInv, pc \in {"connectReply", "announceReply"},
           NEW data \in replies, NEW action,
           validateUDPResponse(data, action)
    PROVE  /\ data \in Replies
           /\ data.answers # "earlier"
           /\ data.size = "full"
           /\ data.action = action
           /\ data.transaction = transaction
  BY UDPTrackerAssumption
  DEF UDPInv, TypeOK, RepliesInv, CallInv, validateUDPResponse, Replies, Sizes

\* The connect reply: what is kept of it is a connection ID that was granted.
LEMMA ConnectReplyStep == UDPInv /\ ReadConnectReply => UDPInv'
  <1> SUFFICES ASSUME UDPInv, ReadConnectReply PROVE UDPInv'
    OBVIOUS
  <1>1. PICK data \in replies :
            /\ readUDPResponse(data)
            /\ IF validateUDPResponse(data, ConnectAction)
               THEN /\ connectionID' = data.connectionID
                    /\ pc' = "announce"
                    /\ UNCHANGED outcome
               ELSE /\ Return("failed")
                    /\ UNCHANGED connectionID
    BY DEF ReadConnectReply
  <1>2. replies' \subseteq replies
    BY <1>1 DEF readUDPResponse
  <1>3. validateUDPResponse(data, ConnectAction) => data.connectionID \in granted
    BY ValidatedIsOurs DEF UDPInv, RepliesInv, ReadConnectReply
  <1>4. granted \subseteq ConnectionIDs
    BY DEF UDPInv, TypeOK
  <1> USE DEF UDPInv, ReadConnectReply, Return, socketVars
  <1>5. TypeOK'
    BY <1>1, <1>2, <1>3, <1>4 DEF TypeOK
  <1>6. RepliesInv'
    BY <1>2 DEF RepliesInv
  <1>7. CallInv'
    BY <1>1, <1>3 DEF CallInv, BeforeReturn
  <1>8. WatchInv'
    BY <1>1 DEF WatchInv, BeforeReturn
  <1>9. AnswerIsOurs'
    BY <1>1 DEF AnswerIsOurs, CallInv, BeforeReturn
  <1>10. LateCancelHeard'
    BY <1>1 DEF LateCancelHeard
  <1>11. QED
    BY <1>5, <1>6, <1>7, <1>8, <1>9, <1>10

\* The announce reply: the one that is accepted answers this announce.
LEMMA AnnounceReplyStep == UDPInv /\ ReadAnnounceReply => UDPInv'
  <1> SUFFICES ASSUME UDPInv, ReadAnnounceReply PROVE UDPInv'
    OBVIOUS
  <1>1. PICK data \in replies :
            /\ readUDPResponse(data)
            /\ IF validateUDPResponse(data, AnnounceAction) /\ data.valid
               THEN /\ Return("ok")
                    /\ accepted' = data
               ELSE /\ Return("failed")
                    /\ UNCHANGED accepted
    BY DEF ReadAnnounceReply
  <1>2. replies' \subseteq replies
    BY <1>1 DEF readUDPResponse
  <1>3. validateUDPResponse(data, AnnounceAction)
            => /\ data.answers = "announce"
               /\ data.transaction = transaction
    BY ValidatedIsOurs DEF UDPInv, RepliesInv, ReadAnnounceReply, Replies
  <1>4. data \in Replies
    BY DEF UDPInv, TypeOK
  <1> USE DEF UDPInv, ReadAnnounceReply, Return, socketVars
  <1>5. TypeOK'
    BY <1>1, <1>2, <1>4 DEF TypeOK
  <1>6. RepliesInv'
    BY <1>2 DEF RepliesInv
  <1>7. CallInv'
    BY <1>1 DEF CallInv, BeforeReturn
  <1>8. WatchInv'
    BY <1>1 DEF WatchInv, BeforeReturn
  <1>9. AnswerIsOurs'
    BY <1>1, <1>3 DEF AnswerIsOurs, CallInv
  <1>10. LateCancelHeard'
    BY <1>1 DEF LateCancelHeard
  <1>11. QED
    BY <1>5, <1>6, <1>7, <1>8, <1>9, <1>10

\* The watcher, the user and the clock: the deadline only comes nearer.
LEMMA WatchStep ==
    UDPInv /\ (WatcherStep \/ Cancel \/ DeadlinePasses) => UDPInv'
  <1> SUFFICES ASSUME UDPInv, WatcherStep \/ Cancel \/ DeadlinePasses
               PROVE  UDPInv'
    OBVIOUS
  <1> USE DEF UDPInv, WatcherStep, WatcherWakes, WatcherInterrupts, Cancel,
              DeadlinePasses, callVars, socketVars, netVars
  <1>1. TypeOK'
    BY DEF TypeOK
  <1>2. RepliesInv'
    BY DEF RepliesInv
  <1>3. CallInv'
    BY DEF CallInv, BeforeReturn
  <1>4. WatchInv'
    BY DEF WatchInv, BeforeReturn
  <1>5. AnswerIsOurs'
    BY DEF AnswerIsOurs
  <1>6. LateCancelHeard'
    BY DEF LateCancelHeard, WatchInv, BeforeReturn, TypeOK
  <1>7. QED
    BY <1>1, <1>2, <1>3, <1>4, <1>5, <1>6

\* A reply more: nothing is assumed of it but what RepliesInv says.
LEMMA ReplyStep ==
    ASSUME UDPInv, NEW reply \in Replies, Send(reply),
           granted \subseteq granted', granted' \subseteq ConnectionIDs,
           reply.answers # "earlier",
           reply.answers = "connect" => reply.action # AnnounceAction,
           reply.action = ConnectAction /\ reply.size = "full"
               => reply.connectionID \in granted',
           UNCHANGED <<callVars, socketVars, stopped, cancelled, watcher,
                       requests>>
    PROVE  UDPInv'
  <1> USE DEF UDPInv, Send, callVars, socketVars
  <1>1. TypeOK'
    BY DEF TypeOK
  <1>2. RepliesInv'
    BY DEF RepliesInv
  <1>3. CallInv' /\ AnswerIsOurs'
    BY DEF CallInv, BeforeReturn, AnswerIsOurs
  <1>4. WatchInv' /\ LateCancelHeard'
    BY DEF WatchInv, BeforeReturn, LateCancelHeard
  <1>5. QED
    BY <1>1, <1>2, <1>3, <1>4

\* Whatever the tracker answers, it keeps to RepliesInv.
LEMMA TrackerStepInv == UDPInv /\ TrackerStep => UDPInv'
  <1> SUFFICES ASSUME UDPInv, TrackerStep PROVE UDPInv'
    OBVIOUS
  <1> USE DEF ConnectAction, AnnounceAction, ErrorAction
  <1>1. \A request \in requests : request \in Requests
    BY DEF UDPInv, TypeOK
  <1>2. granted \subseteq ConnectionIDs
    BY DEF UDPInv, TypeOK
  <1>3. CASE TrackerGrants
    <2>1. PICK request \in requests, id \in ConnectionIDs :
              /\ granted' = granted \cup {id}
              /\ Send(Reply(ConnectAction, request.transaction, "full", TRUE, id,
                            "connect"))
              /\ UNCHANGED <<callVars, socketVars, stopped, cancelled, watcher,
                             requests>>
      BY <1>3 DEF TrackerGrants
    <2> DEFINE r == Reply(ConnectAction, request.transaction, "full", TRUE, id,
                          "connect")
    <2>2. /\ r \in Replies /\ r.answers = "connect" /\ r.action = ConnectAction
          /\ r.connectionID = id
      BY <1>1 DEF Reply, Replies, Requests, Sizes
    <2>3. Send(r)
      BY <2>1
    <2> HIDE DEF r
    <2>4. QED
      BY <1>2, <2>1, <2>2, <2>3, ReplyStep
  <1>4. CASE TrackerAnnounces
    <2>1. PICK request \in requests, valid \in BOOLEAN :
              /\ Send(Reply(AnnounceAction, request.transaction, "full", valid,
                            Nil, "announce"))
              /\ UNCHANGED <<callVars, socketVars, stopped, cancelled, watcher,
                             requests, granted>>
      BY <1>4 DEF TrackerAnnounces
    <2> DEFINE r == Reply(AnnounceAction, request.transaction, "full", valid,
                          Nil, "announce")
    <2>2. /\ r \in Replies /\ r.answers = "announce"
          /\ r.action = AnnounceAction
      BY <1>1 DEF Reply, Replies, Requests, Sizes
    <2>3. Send(r)
      BY <2>1
    <2> HIDE DEF r
    <2>4. QED
      BY <1>2, <2>1, <2>2, <2>3, ReplyStep
  <1>5. CASE TrackerRefuses
    <2>1. PICK request \in requests, size \in Sizes :
              /\ Send(Reply(IF size = "full" THEN ErrorAction
                                             ELSE request.action,
                            request.transaction, size, FALSE, Nil,
                            IF request.action = ConnectAction THEN "connect"
                                                              ELSE "announce"))
              /\ UNCHANGED <<callVars, socketVars, stopped, cancelled, watcher,
                             requests, granted>>
      BY <1>5 DEF TrackerRefuses
    <2> DEFINE r == Reply(IF size = "full" THEN ErrorAction ELSE request.action,
                          request.transaction, size, FALSE, Nil,
                          IF request.action = ConnectAction THEN "connect"
                                                            ELSE "announce")
    <2>2. /\ r \in Replies /\ r.answers # "earlier"
          /\ r.answers = "connect" => r.action # AnnounceAction
          /\ r.size = "full" => r.action = ErrorAction
      BY <1>1 DEF Reply, Replies, Requests, Sizes
    <2>3. Send(r)
      BY <2>1
    <2> HIDE DEF r
    <2>4. QED
      BY <1>2, <2>1, <2>2, <2>3, ReplyStep
  <1>6. QED
    BY <1>3, <1>4, <1>5 DEF TrackerStep

-----------------------------------------------------------------------------

\* Every step of the call, of the watcher and of the tracker keeps UDPInv.
THEOREM UDPInvariance == Spec => []UDPInv
  <1>1. UDPInv /\ [Next]_vars => UDPInv'
    <2> SUFFICES ASSUME UDPInv, [Next]_vars PROVE UDPInv'
      OBVIOUS
    <2>1. CASE CallStep \/ ReadError
      BY <2>1, LocalStep, SendStep, ConnectReplyStep, AnnounceReplyStep
      DEF CallStep
    <2>2. CASE WatcherStep \/ Cancel \/ DeadlinePasses
      BY <2>2, WatchStep
    <2>3. CASE TrackerStep
      BY <2>3, TrackerStepInv
    <2>4. CASE UNCHANGED vars
      BY <2>4 DEF vars, UDPInv, TypeOK, RepliesInv, CallInv, WatchInv,
                  BeforeReturn, AnswerIsOurs, LateCancelHeard
    <2>5. QED
      BY <2>1, <2>2, <2>3, <2>4 DEF Next
  <1>2. QED
    BY <1>1, InitUDPInv, PTL DEF Spec

\* The peers announceUDP returns are the tracker's answer to the announce of
\* this exchange, under a connection ID granted to it: validateUDPResponse's
\* two comparisons are enough, even against late, repeated and reordered
\* datagrams and against one transaction number drawn twice.
THEOREM AnswersAreOurs == Spec => []AnswerIsOurs
  BY UDPInvariance, PTL DEF UDPInv

\* The watcher's deadline in the past is final once announceUDP has set its own.
THEOREM LateCancelsAreHeard == Spec => []LateCancelHeard
  BY UDPInvariance, PTL DEF UDPInv

=============================================================================
