-------------------------- MODULE DownloaderProofs --------------------------
(***************************************************************************)
(* Proofs about Downloader, for any number of peers, pieces and workers:   *)
(* no peer is connected to twice, a worker that is done never waits for    *)
(* room in the results channel, downloadTorrent returns only when every    *)
(* goroutine is gone, and its verdict is true.                             *)
(***************************************************************************)
EXTENDS Downloader, FiniteSetTheorems, SequenceTheorems, TLAPS

\* The map active holds the peers of the goroutines and of the results that
\* are under way, each of them once.
ActiveInv ==
    /\ running \cap sending = {}
    /\ \A g, h \in Live : g[1] = h[1] => g = h
    /\ \A g \in Live : g[1] \in active \ Range(results)
    /\ IsInjective(results)
    /\ Range(results) \subseteq active

\* The slice pending holds peers of the map queued, each of them once; they
\* have attempts left and no worker.
QueueInv ==
    /\ IsInjective(pending)
    /\ Range(pending) \subseteq queued
    /\ queued \cap active = {}
    /\ \A p \in queued : attempts[p] < MaxAttempts

\* Every peer in active has one goroutine or one result.
CountInv ==
    /\ IsFiniteSet(Live)
    /\ Cardinality(Live) + Len(results) = Cardinality(active)
    /\ Cardinality(active) <= MaxWorkers

\* Only a goroutine that is still inside StartWorker works on a piece.
ClaimInv == \A g \in Workers : claim[g] # Nil => g \in running

\* What the main goroutine has found out when it decides.
VerdictInv ==
    /\ pc = "announce" => active = {} /\ ~IsComplete
    /\ pc = "finish" => /\ verdict \in {"ok", "idle", "cancelled"}
                        /\ verdict = "ok" => IsComplete
    /\ pc = "returned" => active = {}
    /\ VerdictTruthful

DownloaderInv ==
    TypeOK /\ ActiveInv /\ QueueInv /\ CountInv /\ ClaimInv /\ VerdictInv

-----------------------------------------------------------------------------
(* Queues without repetitions.                                             *)

\* Taking the first element of such a queue takes it out of the queue.
LEMMA TailOfInjective ==
    ASSUME NEW S, NEW s \in Seq(S), IsInjective(s), s # <<>>
    PROVE  /\ Head(s) \in S /\ Head(s) \in Range(s)
           /\ Tail(s) \in Seq(S) /\ Len(Tail(s)) = Len(s) - 1
           /\ IsInjective(Tail(s))
           /\ Range(Tail(s)) = Range(s) \ {Head(s)}
  <1>1. /\ Len(s) \in Nat \ {0} /\ DOMAIN s = 1 .. Len(s) /\ Head(s) = s[1]
        /\ Tail(s) \in Seq(S) /\ Len(Tail(s)) = Len(s) - 1
        /\ DOMAIN Tail(s) = 1 .. (Len(s) - 1)
        /\ \A i \in 1 .. (Len(s) - 1) : Tail(s)[i] = s[i + 1]
    OBVIOUS
  <1>2. Head(s) \in S /\ Head(s) \in Range(s)
    BY <1>1 DEF Range
  <1>3. IsInjective(Tail(s))
    BY <1>1 DEF IsInjective
  <1>4. ASSUME NEW x \in Range(Tail(s)) PROVE x \in Range(s) \ {Head(s)}
    BY <1>1 DEF Range, IsInjective
  <1>5. ASSUME NEW x \in Range(s), x # Head(s) PROVE x \in Range(Tail(s))
    <2>1. PICK i \in 1 .. Len(s) : x = s[i]
      BY <1>1 DEF Range
    <2>2. i - 1 \in 1 .. (Len(s) - 1) /\ Tail(s)[i - 1] = x
      BY <1>1, <1>5, <2>1
    <2>3. QED
      BY <1>1, <2>2 DEF Range
  <1>6. QED
    BY <1>1, <1>2, <1>3, <1>4, <1>5

\* A new element at the end.
LEMMA AppendToInjective ==
    ASSUME NEW S, NEW s \in Seq(S), IsInjective(s), NEW e \in S,
           e \notin Range(s)
    PROVE  /\ Append(s, e) \in Seq(S) /\ Len(Append(s, e)) = Len(s) + 1
           /\ IsInjective(Append(s, e))
           /\ Range(Append(s, e)) = Range(s) \cup {e}
  <1>1. /\ Len(s) \in Nat /\ DOMAIN s = 1 .. Len(s)
        /\ Append(s, e) \in Seq(S) /\ Len(Append(s, e)) = Len(s) + 1
        /\ DOMAIN Append(s, e) = 1 .. (Len(s) + 1)
        /\ \A i \in 1 .. Len(s) : Append(s, e)[i] = s[i]
        /\ Append(s, e)[Len(s) + 1] = e
    OBVIOUS
  <1>2. IsInjective(Append(s, e))
    BY <1>1 DEF IsInjective, Range
  <1>3. Range(Append(s, e)) = Range(s) \cup {e}
    BY <1>1 DEF Range
  <1>4. QED
    BY <1>1, <1>2, <1>3

\* New elements at the end, in any order.
LEMMA ConcatToInjective ==
    ASSUME NEW S, NEW s \in Seq(S), IsInjective(s),
           NEW new \in SUBSET S, new \cap Range(s) = {}, NEW n \in Nat,
           NEW order \in Injection(1 .. n, new)
    PROVE  /\ s \o order \in Seq(S)
           /\ IsInjective(s \o order)
           /\ Range(s \o order) \subseteq Range(s) \cup new
  <1>1. order \in [1 .. n -> new] /\ IsInjective(order)
    BY DEF Injection
  <1>2. order \in Seq(S) /\ Len(order) = n
    BY <1>1
  <1>3. /\ Len(s) \in Nat /\ DOMAIN s = 1 .. Len(s)
        /\ s \o order \in Seq(S)
        /\ DOMAIN (s \o order) = 1 .. (Len(s) + n)
        /\ \A i \in 1 .. Len(s) : (s \o order)[i] = s[i]
        /\ \A i \in (Len(s) + 1) .. (Len(s) + n) :
               /\ i - Len(s) \in 1 .. n
               /\ (s \o order)[i] = order[i - Len(s)]
    BY <1>2
  <1>4. IsInjective(s \o order)
    BY <1>1, <1>3 DEF IsInjective, Range
  <1>5. Range(s \o order) \subseteq Range(s) \cup new
    BY <1>1, <1>3 DEF Range
  <1>6. QED
    BY <1>3, <1>4, <1>5

-----------------------------------------------------------------------------
(* The steps.                                                              *)

\* Nobody is left when active is empty, and no piece is being worked on.
LEMMA InactiveMeansIdle ==
    ASSUME DownloaderInv, active = {}
    PROVE  Live = {} /\ results = <<>> /\ \A g \in Workers : claim[g] = Nil
  <1>1. Live = {}
    BY DEF DownloaderInv, ActiveInv
  <1>2. results = <<>>
    BY TailOfInjective DEF DownloaderInv, ActiveInv, TypeOK
  <1>3. \A g \in Workers : claim[g] = Nil
    BY <1>1 DEF DownloaderInv, ClaimInv, Live
  <1>4. QED
    BY <1>1, <1>2, <1>3

\* The loop begins with nothing but pieces from an earlier run.
LEMMA InitDownloaderInv == Init => DownloaderInv
  <1> SUFFICES ASSUME Init PROVE DownloaderInv
    OBVIOUS
  <1> USE DownloaderAssumption DEF Init, PXInit
  <1>1. Cardinality(have) \in 0 .. Cardinality(Pieces)
    BY FS_Subset, FS_CardinalityType
  <1>2. TypeOK
    <2>1. attempts \in [Peers -> 0 .. MaxAttempts]
      BY DEF MaxAttempts
    <2>2. PXTypeOK
      BY DEF PXTypeOK
    <2>3. idleLeft \in 0 .. Limit
      OBVIOUS
    <2>4. pc \in PC /\ verdict \in Verdicts
      BY DEF PC, Verdicts
    <2>5. active \in SUBSET Peers /\ queued \in SUBSET Peers
      OBVIOUS
    <2>6. running \in SUBSET Workers /\ sending \in SUBSET Workers
      OBVIOUS
    <2>7. pending \in Seq(Peers) /\ results \in Seq(Peers)
      OBVIOUS
    <2>8. QED
      BY <1>1, <2>1, <2>2, <2>3, <2>4, <2>5, <2>6, <2>7 DEF TypeOK
  <1>3. ActiveInv /\ QueueInv
    BY DEF ActiveInv, QueueInv, Live, Range, IsInjective
  <1>4. CountInv
    BY FS_EmptySet DEF CountInv, Live
  <1>5. ClaimInv
    BY DEF ClaimInv
  <1>6. VerdictInv
    BY DEF VerdictInv, VerdictTruthful
  <1>7. QED
    BY <1>2, <1>3, <1>4, <1>5, <1>6 DEF DownloaderInv

\* Steps that leave the pieces, the queue and the goroutines alone.
LEMMA FrameStep ==
    ASSUME DownloaderInv, UNCHANGED <<pxVars, launchVars, sending, results>>,
           TypeOK', VerdictInv'
    PROVE  DownloaderInv'
  <1> USE DEF DownloaderInv, pxVars, launchVars, queueVars
  <1>1. ActiveInv'
    BY DEF ActiveInv, Live
  <1>2. QueueInv'
    BY DEF QueueInv
  <1>3. CountInv'
    BY DEF CountInv, Live
  <1>4. ClaimInv'
    BY DEF ClaimInv
  <1>5. QED
    BY <1>1, <1>2, <1>3, <1>4

\* The select, the timers and the user.
LEMMA QuietStep ==
    ASSUME DownloaderInv,
           \/ FetchUpdates \/ ContextDone \/ IdleTimeout \/ ReannounceDue
           \/ Interrupt \/ Tick
    PROVE  DownloaderInv'
  <1> USE DownloaderAssumption
      DEF DownloaderInv, FetchUpdates, ContextDone, IdleTimeout,
          ReannounceDue, Interrupt, Tick, StartFinish, mainVars, timeVars,
          launchVars, queueVars, pxVars
  <1>1. TypeOK'
    <2>1. PXTypeOK'
      BY DEF TypeOK, PXTypeOK
    <2>2. pc' \in PC /\ verdict' \in Verdicts
      BY DEF TypeOK, PC, Verdicts
    <2>3. idleLeft' \in 0 .. Limit
      BY DEF TypeOK
    <2>4. QED
      BY <2>1, <2>2, <2>3 DEF TypeOK
  <1>2. VerdictInv'
    BY DEF VerdictInv, VerdictTruthful, IsComplete
  <1>3. QED
    BY <1>1, <1>2, FrameStep

\* An update is noted; the number of pieces stays within bounds.
LEMMA UpdateStep == DownloaderInv /\ UpdateReady => DownloaderInv'
  <1> SUFFICES ASSUME DownloaderInv, UpdateReady PROVE DownloaderInv'
    OBVIOUS
  <1>1. Cardinality(have) \in 0 .. Cardinality(Pieces)
    BY DownloaderAssumption, FS_Subset, FS_CardinalityType
    DEF DownloaderInv, TypeOK, PXTypeOK
  <1> USE DownloaderAssumption
      DEF DownloaderInv, UpdateReady, NoteProgress, launchVars, queueVars,
          pxVars
  <1>2. TypeOK'
    BY <1>1 DEF TypeOK, PXTypeOK, PC
  <1>3. VerdictInv'
    BY DEF VerdictInv, VerdictTruthful, IsComplete
  <1>4. QED
    BY <1>2, <1>3, FrameStep

\* The head of the loop: the verdict "exhausted" is given only when a piece is
\* missing and nobody is left who could still deliver it.
LEMMA LoopHeadStep == DownloaderInv /\ LoopHead => DownloaderInv'
  <1> SUFFICES ASSUME DownloaderInv, LoopHead PROVE DownloaderInv'
    OBVIOUS
  <1> USE DEF DownloaderInv, LoopHead, StartFinish, Return, timeVars,
              launchVars, queueVars, pxVars
  <1>1. TypeOK'
    BY DEF TypeOK, PXTypeOK, PC, Verdicts
  <1>2. VerdictInv'
    BY DEF VerdictInv, VerdictTruthful, IsComplete
  <1>3. QED
    BY <1>1, <1>2, FrameStep

\* The peers of a tracker's answer join the queue at most once.
LEMMA AddPeersKeepsQueue ==
    ASSUME DownloaderInv, NEW peers \in SUBSET Peers, addPeers(peers),
           UNCHANGED <<active, attempts>>
    PROVE  /\ queued' \in SUBSET Peers
           /\ pending' \in Seq(Peers)
           /\ QueueInv'
  <1> DEFINE new == {p \in peers : Eligible(p)}
  <1>1. new \in SUBSET Peers /\ Cardinality(new) \in Nat
    BY DownloaderAssumption, FS_Subset, FS_CardinalityType
  <1>2. PICK order \in Injection(1 .. Cardinality(new), new) :
            pending' = pending \o order
    BY DEF addPeers
  <1>3. queued' = queued \cup new
    BY DEF addPeers
  <1>4. /\ new \cap queued = {} /\ new \cap active = {}
        /\ \A p \in new : attempts[p] < MaxAttempts
    BY DEF Eligible
  <1> HIDE DEF new
  <1>5. /\ pending \in Seq(Peers) /\ IsInjective(pending)
        /\ new \cap Range(pending) = {}
    BY <1>4 DEF DownloaderInv, QueueInv, TypeOK
  <1>6. /\ pending' \in Seq(Peers) /\ IsInjective(pending')
        /\ Range(pending') \subseteq Range(pending) \cup new
    BY <1>1, <1>2, <1>5, ConcatToInjective
  <1>7. QueueInv'
    BY <1>3, <1>4, <1>6 DEF DownloaderInv, QueueInv
  <1>8. QED
    BY <1>1, <1>3, <1>6, <1>7 DEF DownloaderInv, TypeOK

\* The first announce and the later ones.
LEMMA AnnounceStep == DownloaderInv /\ (Announce \/ Reannounce) => DownloaderInv'
  <1> SUFFICES ASSUME DownloaderInv, Announce \/ Reannounce
               PROVE  DownloaderInv'
    OBVIOUS
  <1>1. UNCHANGED <<pxVars, active, attempts, running, sending, results,
                    listening, timeVars, interrupted>>
    BY DEF Announce, Reannounce
  <1>2. queued' \in SUBSET Peers /\ pending' \in Seq(Peers) /\ QueueInv'
    <2>1. CASE UNCHANGED queueVars
      BY <1>1, <2>1 DEF DownloaderInv, TypeOK, QueueInv, queueVars
    <2>2. CASE \E peers \in SUBSET Peers : addPeers(peers)
      BY <1>1, <2>2, AddPeersKeepsQueue
    <2>3. QED
      BY <2>1, <2>2 DEF Announce, Reannounce
  <1>3. /\ pc' \in PC /\ verdict' \in Verdicts /\ stopped' \in BOOLEAN
    BY DEF Announce, Reannounce, Return, PC, Verdicts, DownloaderInv, TypeOK
  <1> USE DEF DownloaderInv, pxVars, timeVars
  <1>4. TypeOK'
    BY <1>1, <1>2, <1>3 DEF TypeOK, PXTypeOK
  <1>5. ActiveInv' /\ CountInv' /\ ClaimInv'
    BY <1>1 DEF ActiveInv, CountInv, ClaimInv, Live
  <1>6. VerdictInv'
    BY <1>1 DEF VerdictInv, VerdictTruthful, IsComplete, Announce, Reannounce,
                Return
  <1>7. QED
    BY <1>2, <1>4, <1>5, <1>6

\* A worker is launched for the first peer of the queue: the peer is in no other
\* goroutine and in no result, so one peer and one goroutine are added.
LEMMA LaunchStep ==
    ASSUME DownloaderInv, CanLaunch, pc \in {"start", "launch"},
           queued' = queued \ {Head(pending)}, pending' = Tail(pending),
           Launch(Head(pending)),
           UNCHANGED <<pxVars, pc, verdict, sending, results, timeVars,
                       listening, interrupted, stopped>>
    PROVE  DownloaderInv'
  <1> DEFINE p == Head(pending)
             g == <<p, attempts[p] + 1>>
  <1>1. /\ pending \in Seq(Peers) /\ IsInjective(pending) /\ pending # <<>>
        /\ Range(pending) \subseteq queued /\ queued \subseteq Peers
    BY DEF DownloaderInv, TypeOK, QueueInv, CanLaunch
  <1>2. /\ p \in Peers /\ p \in Range(pending) /\ Tail(pending) \in Seq(Peers)
        /\ IsInjective(Tail(pending))
        /\ Range(Tail(pending)) = Range(pending) \ {p}
    BY <1>1, TailOfInjective
  <1>3. /\ attempts \in [Peers -> 0 .. MaxAttempts]
        /\ attempts[p] \in 0 .. (MaxAttempts - 1)
        /\ p \in queued /\ p \notin active
    BY <1>1, <1>2 DEF DownloaderInv, TypeOK, QueueInv, MaxAttempts
  <1>4. g \in Workers /\ g[1] = p
    BY <1>2, <1>3, DownloaderAssumption DEF Goroutines, MaxAttempts
  <1>5. g \notin Live
    BY <1>3, <1>4 DEF DownloaderInv, ActiveInv
  <1>6. /\ active' = active \cup {p} /\ running' = running \cup {g}
        /\ attempts' = [attempts EXCEPT ![p] = @ + 1]
        /\ queued' = queued \ {p} /\ pending' = Tail(pending)
    BY DEF Launch
  <1>7. Live' = Live \cup {g}
    BY <1>6 DEF Live
  <1> HIDE DEF p, g
  <1>8. attempts' \in [Peers -> 0 .. MaxAttempts]
    BY <1>2, <1>3, <1>6 DEF MaxAttempts
  <1>9. TypeOK'
    BY <1>2, <1>4, <1>6, <1>8 DEF DownloaderInv, TypeOK, PXTypeOK, pxVars,
                                  timeVars
  <1>10. ActiveInv'
    BY <1>3, <1>4, <1>5, <1>6, <1>7 DEF DownloaderInv, ActiveInv, Live
  <1>11. QueueInv'
    <2>1. \A q \in queued' : attempts'[q] = attempts[q]
      BY <1>1, <1>3, <1>6
    <2>2. QED
      BY <1>2, <1>3, <1>6, <2>1 DEF DownloaderInv, QueueInv
  <1>12. CountInv'
    <2>1. IsFiniteSet(active) /\ Cardinality(active) \in Nat
      BY DownloaderAssumption, FS_Subset, FS_CardinalityType
      DEF DownloaderInv, TypeOK
    <2>2. Cardinality(active') = Cardinality(active) + 1
      BY <1>3, <1>6, <2>1, FS_AddElement
    <2>3. IsFiniteSet(Live') /\ Cardinality(Live') = Cardinality(Live) + 1
      BY <1>5, <1>7, FS_AddElement DEF DownloaderInv, CountInv
    <2>4. Cardinality(Live) \in Nat /\ Len(results) \in Nat
      BY FS_CardinalityType DEF DownloaderInv, CountInv, TypeOK
    <2>5. QED
      BY <2>1, <2>2, <2>3, <2>4, DownloaderAssumption
      DEF DownloaderInv, CountInv, CanLaunch
  <1>13. ClaimInv'
    BY <1>6 DEF DownloaderInv, ClaimInv, pxVars
  <1>14. VerdictInv'
    BY DEF DownloaderInv, VerdictInv, VerdictTruthful, IsComplete, pxVars
  <1>15. QED
    BY <1>9, <1>10, <1>11, <1>12, <1>13, <1>14 DEF DownloaderInv

\* One turn of launchWorkers, or its end.
LEMMA LaunchWorkersStep == DownloaderInv /\ launchWorkers => DownloaderInv'
  <1> SUFFICES ASSUME DownloaderInv, launchWorkers PROVE DownloaderInv'
    OBVIOUS
  <1>1. CASE CanLaunch
    BY <1>1, LaunchStep DEF launchWorkers, timeVars
  <1>2. CASE ~CanLaunch
    <2> USE <1>2, DownloaderAssumption
        DEF DownloaderInv, launchWorkers, launchVars, queueVars, pxVars
    <2>1. idleLeft' \in 0 .. Limit
      BY DEF TypeOK
    <2>2. TypeOK'
      BY <2>1 DEF TypeOK, PXTypeOK, PC
    <2>3. VerdictInv'
      BY DEF VerdictInv, VerdictTruthful, IsComplete
    <2>4. QED
      BY <2>2, <2>3, FrameStep
  <1>3. QED
    BY <1>1, <1>2

\* The result of a worker that is gone takes its peer out of active, and
\* nothing else of it was left.
LEMMA TakeResultKeeps ==
    ASSUME DownloaderInv, TakeResult,
           UNCHANGED <<queueVars, attempts, running, sending>>
    PROVE  /\ active' \in SUBSET active /\ results' \in Seq(Peers)
           /\ ActiveInv' /\ QueueInv' /\ CountInv'
  <1> DEFINE p == Head(results)
  <1>1. results \in Seq(Peers) /\ IsInjective(results) /\ results # <<>>
    BY DEF DownloaderInv, TypeOK, ActiveInv, TakeResult
  <1>2. /\ p \in Range(results) /\ Tail(results) \in Seq(Peers)
        /\ Len(Tail(results)) = Len(results) - 1
        /\ IsInjective(Tail(results))
        /\ Range(Tail(results)) = Range(results) \ {p}
    BY <1>1, TailOfInjective
  <1>3. active' = active \ {p} /\ results' = Tail(results) /\ Live' = Live
    BY DEF TakeResult, Live
  <1> HIDE DEF p
  <1>4. ActiveInv'
    BY <1>2, <1>3 DEF DownloaderInv, ActiveInv
  <1>5. QueueInv'
    BY <1>3 DEF DownloaderInv, QueueInv, queueVars
  <1>6. CountInv'
    <2>1. IsFiniteSet(active) /\ Cardinality(active) \in Nat
      BY DownloaderAssumption, FS_Subset, FS_CardinalityType
      DEF DownloaderInv, TypeOK
    <2>2. p \in active
      BY <1>2 DEF DownloaderInv, ActiveInv
    <2>3. Cardinality(active') = Cardinality(active) - 1
      BY <1>3, <2>1, <2>2, FS_RemoveElement
    <2>4. Cardinality(Live) \in Nat /\ Len(results) \in Nat
      BY FS_CardinalityType DEF DownloaderInv, CountInv, TypeOK
    <2>5. QED
      BY <1>2, <1>3, <2>1, <2>3, <2>4, DownloaderAssumption
      DEF DownloaderInv, CountInv
  <1>7. QED
    BY <1>2, <1>3, <1>4, <1>5, <1>6

\* A result, in the select or while finishWorkers drains the channel.
LEMMA ResultStep ==
    DownloaderInv /\ (ResultReady \/ finishWorkers) => DownloaderInv'
  <1> SUFFICES ASSUME DownloaderInv, ResultReady \/ finishWorkers
               PROVE  DownloaderInv'
    OBVIOUS
  <1>1. CASE ResultReady \/ (finishWorkers /\ ~Drained)
    <2>1. /\ TakeResult
          /\ UNCHANGED <<pxVars, verdict, queueVars, attempts, running, sending,
                         listening, timeVars, interrupted, stopped>>
          /\ pc' = "launch" \/ (pc = "finish" /\ pc' = pc)
      BY <1>1 DEF ResultReady, finishWorkers
    <2>2. /\ active' \in SUBSET active /\ results' \in Seq(Peers)
          /\ ActiveInv' /\ QueueInv' /\ CountInv'
      BY <2>1, TakeResultKeeps
    <2>3. TypeOK'
      BY <2>1, <2>2 DEF DownloaderInv, TypeOK, PXTypeOK, PC, pxVars, queueVars,
                        timeVars
    <2>4. ClaimInv'
      BY <2>1 DEF DownloaderInv, ClaimInv, pxVars
    <2>5. VerdictInv'
      BY <2>1 DEF DownloaderInv, VerdictInv, VerdictTruthful, IsComplete, pxVars
    <2>6. QED
      BY <2>2, <2>3, <2>4, <2>5 DEF DownloaderInv
  <1>2. CASE finishWorkers /\ Drained
    <2> USE <1>2 DEF DownloaderInv, finishWorkers, Drained, Return, timeVars,
                     queueVars, pxVars
    <2>1. TypeOK'
      BY DEF TypeOK, PXTypeOK, PC, Verdicts, FinalVerdict
    <2>2. VerdictInv'
      BY DEF VerdictInv, VerdictTruthful, IsComplete, FinalVerdict
    <2>3. QED
      BY <2>1, <2>2, FrameStep DEF launchVars
  <1>3. QED
    BY <1>1, <1>2

\* A worker claims a piece, drops it or delivers it.  A delivery comes from a
\* goroutine that is still active, so never after a verdict has been returned.
LEMMA PieceStep ==
    ASSUME DownloaderInv, NEW g \in Workers,
           WorkerClaims(g) \/ WorkerDrops(g) \/ WorkerDelivers(g)
    PROVE  DownloaderInv'
  <1>1. UNCHANGED <<quietVars, running, sending, results>>
    BY DEF WorkerClaims, WorkerDrops, WorkerDelivers
  <1>2. g \in running
    BY DEF DownloaderInv, ClaimInv, WorkerClaims, WorkerDrops, WorkerDelivers,
           Drop, Deliver
  <1>3. /\ PXTypeOK' /\ listening' \in BOOLEAN /\ have \subseteq have'
        /\ \A h \in Workers : h # g => claim'[h] = claim[h]
    BY DEF DownloaderInv, TypeOK, PXTypeOK, WorkerClaims, WorkerDrops,
           WorkerDelivers, Claim, Drop, Deliver
  <1>4. active # {}
    BY <1>2 DEF DownloaderInv, ActiveInv, Live
  <1> USE DEF quietVars, mainVars, queueVars
  <1>5. TypeOK'
    BY <1>1, <1>3 DEF DownloaderInv, TypeOK
  <1>6. ActiveInv' /\ QueueInv' /\ CountInv'
    BY <1>1 DEF DownloaderInv, ActiveInv, QueueInv, CountInv, Live
  <1>7. ClaimInv'
    BY <1>1, <1>2, <1>3 DEF DownloaderInv, ClaimInv
  <1>8. VerdictInv'
    BY <1>1, <1>3, <1>4
    DEF DownloaderInv, VerdictInv, VerdictTruthful, IsComplete, PXTypeOK
  <1>9. QED
    BY <1>5, <1>6, <1>7, <1>8 DEF DownloaderInv

\* StartWorker returns: the goroutine still counts.
LEMMA ReturnsStep ==
    ASSUME DownloaderInv, NEW g \in Workers, WorkerReturns(g)
    PROVE  DownloaderInv'
  <1> USE DEF DownloaderInv, WorkerReturns, quietVars, mainVars, queueVars, pxVars
  <1>1. Live' = Live
    BY DEF Live
  <1>2. TypeOK'
    BY DEF TypeOK, PXTypeOK
  <1>3. ActiveInv'
    BY <1>1 DEF ActiveInv
  <1>4. QueueInv' /\ CountInv'
    BY <1>1 DEF QueueInv, CountInv
  <1>5. ClaimInv'
    BY DEF ClaimInv
  <1>6. VerdictInv'
    BY DEF VerdictInv, VerdictTruthful, IsComplete
  <1>7. QED
    BY <1>2, <1>3, <1>4, <1>5, <1>6

\* The result goes into the channel and the goroutine is gone.
LEMMA SendsStep ==
    ASSUME DownloaderInv, NEW g \in Workers, WorkerSends(g)
    PROVE  DownloaderInv'
  <1>1. /\ g \in Live /\ g[1] \in active \ Range(results) /\ g[1] \in Peers
        /\ g \notin running
    BY DEF DownloaderInv, WorkerSends, ActiveInv, Live, TypeOK
  <1>2. results \in Seq(Peers) /\ IsInjective(results)
    BY DEF DownloaderInv, TypeOK, ActiveInv
  <1>3. /\ results' \in Seq(Peers) /\ Len(results') = Len(results) + 1
        /\ IsInjective(results') /\ Range(results') = Range(results) \cup {g[1]}
    BY <1>1, <1>2, AppendToInjective DEF WorkerSends
  <1>4. Live' = Live \ {g} /\ sending' = sending \ {g} /\ running' = running
    BY <1>1 DEF Live, WorkerSends
  <1> USE DEF DownloaderInv, WorkerSends, quietVars, mainVars, queueVars, pxVars
  <1>5. TypeOK'
    BY <1>3, <1>4 DEF TypeOK, PXTypeOK
  <1>6. ActiveInv'
    BY <1>1, <1>3, <1>4 DEF ActiveInv
  <1>7. QueueInv' /\ ClaimInv'
    BY DEF QueueInv, ClaimInv
  <1>8. CountInv'
    <2>1. IsFiniteSet(Live') /\ Cardinality(Live') = Cardinality(Live) - 1
      BY <1>1, <1>4, FS_RemoveElement DEF CountInv
    <2>2. Cardinality(Live) \in Nat /\ Len(results) \in Nat
      BY <1>2, FS_CardinalityType DEF CountInv
    <2>3. QED
      BY <1>3, <2>1, <2>2 DEF CountInv
  <1>9. VerdictInv'
    BY DEF VerdictInv, VerdictTruthful, IsComplete
  <1>10. QED
    BY <1>5, <1>6, <1>7, <1>8, <1>9

-----------------------------------------------------------------------------

\* Every step of the loop, of a worker, of the clock and of the user keeps
\* DownloaderInv.
THEOREM DownloaderInvariance == Spec => []DownloaderInv
  <1>1. DownloaderInv /\ [Next]_vars => DownloaderInv'
    <2> SUFFICES ASSUME DownloaderInv, [Next]_vars PROVE DownloaderInv'
      OBVIOUS
    <2>1. CASE MainStep
      BY <2>1, AnnounceStep, LaunchWorkersStep, LoopHeadStep, QuietStep,
         ResultStep DEF MainStep
    <2>2. CASE ContextDone \/ IdleTimeout \/ ReannounceDue \/ Interrupt \/ Tick
      BY <2>2, QuietStep
    <2>3. CASE UpdateReady
      BY <2>3, UpdateStep
    <2>4. CASE ResultReady
      BY <2>4, ResultStep
    <2>5. ASSUME NEW g \in Workers,
                 \/ WorkerClaims(g) \/ WorkerDrops(g) \/ WorkerDelivers(g)
                 \/ WorkerReturns(g) \/ WorkerSends(g)
          PROVE  DownloaderInv'
      BY <2>5, PieceStep, ReturnsStep, SendsStep
    <2>6. CASE UNCHANGED vars
      <3> USE <2>6 DEF vars, DownloaderInv
      <3>1. TypeOK'
        BY DEF TypeOK, PXTypeOK
      <3>2. VerdictInv'
        BY DEF VerdictInv, VerdictTruthful, IsComplete
      <3>3. QED
        BY <3>1, <3>2, FrameStep DEF pxVars, launchVars, queueVars
    <2>7. QED
      BY <2>1, <2>2, <2>3, <2>4, <2>5, <2>6 DEF Next
  <1>2. QED
    BY <1>1, InitDownloaderInv, PTL DEF Spec

\* Whatever addresses a tracker repeats, a peer has one goroutine or one result
\* or one place in the queue.
THEOREM OneWorkerPerPeer == Spec => []OnePerPeer
  <1>1. DownloaderInv => OnePerPeer
    BY DEF DownloaderInv, ActiveInv, QueueInv, OnePerPeer, IsInjective
  <1>2. QED
    BY <1>1, DownloaderInvariance, PTL

\* The results channel, made with room for MaxWorkers, is never full when a
\* worker wants to send.
THEOREM ResultsAlwaysFit == Spec => []ResultsNeverBlock
  <1>1. DownloaderInv => ResultsNeverBlock
    BY DEF DownloaderInv, CountInv, ResultsNeverBlock
  <1>2. QED
    BY <1>1, DownloaderInvariance, PTL

\* downloadTorrent leaves no goroutine behind, whichever return it takes.
THEOREM NobodyOutlives == Spec => []NoWorkerOutlives
  <1>1. DownloaderInv => NoWorkerOutlives
    BY InactiveMeansIdle DEF DownloaderInv, VerdictInv, NoWorkerOutlives
  <1>2. QED
    BY <1>1, DownloaderInvariance, PTL

\* The verdict is nil exactly when every piece is there, except after an
\* interrupt.
THEOREM VerdictsAreTrue == Spec => []VerdictTruthful
  <1>1. DownloaderInv => VerdictTruthful
    BY DEF DownloaderInv, VerdictInv
  <1>2. QED
    BY <1>1, DownloaderInvariance, PTL

=============================================================================
