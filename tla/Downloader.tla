----------------------------- MODULE Downloader -----------------------------
(***************************************************************************)
(* The main loop: downloadTorrent of main.go, which asks the tracker for   *)
(* peers, starts one worker goroutine per peer, and returns when every     *)
(* piece is there, the peers run out, nothing completes for too long or    *)
(* the user interrupts.                                                    *)
(*                                                                         *)
(* The workers and the piece manager appear as PieceExchange, which Worker *)
(* implements.  A goroutine is named by its peer and by the number of the  *)
(* attempt to reach that peer.                                             *)
(***************************************************************************)
EXTENDS PieceExchange, Integers, FiniteSets, Sequences, Functions

CONSTANTS
    Peers,          \* the addresses a tracker may return
    MaxWorkers,     \* configuration.MaxWorkers
    Limit           \* configuration.NoProgressLimit, in ticks

MaxAttempts == 2

\* There is a name for one attempt too many, so that it could be seen.
Goroutines == Peers \X (1 .. MaxAttempts + 1)

ASSUME DownloaderAssumption ==
    /\ MaxWorkers \in Nat \ {0}
    /\ Limit \in Nat \ {0}
    /\ Workers = Goroutines
    /\ IsFiniteSet(Peers)
    /\ IsFiniteSet(Pieces)

VARIABLES
    pc,             \* where the main goroutine is
    verdict,        \* what downloadTorrent returns, once that is decided
    active,         \* the map active
    queued,         \* the map queued
    pending,        \* the slice pending
    attempts,       \* the map attempts
    running,        \* goroutines inside StartWorker
    sending,        \* goroutines at "results <- workerResult"
    results,        \* the buffered channel results
    lastCompleted,
    listening,      \* the updates channel held by the loop is still open
    idleLeft,       \* ticks until idleTimer fires; 0: its channel is ready
    interrupted,    \* ctx is done
    stopped         \* cancelWorkers has been called

mainVars   == <<pc, verdict>>
queueVars  == <<queued, pending>>
launchVars == <<active, queueVars, attempts, running>>
timeVars   == <<lastCompleted, idleLeft>>
vars == <<have, claim, pc, verdict, active, queued, pending, attempts, running,
          sending, results, lastCompleted, listening, idleLeft,
          interrupted, stopped>>

PC == {"announce", "start", "launch", "loop", "updates", "select",
       "reannounce", "finish", "returned"}

Verdicts == {"none", "ok", "exhausted", "idle", "cancelled", "announce failed"}

Live == running \cup sending

TypeOK ==
    /\ PXTypeOK
    /\ pc \in PC
    /\ verdict \in Verdicts
    /\ active \in SUBSET Peers
    /\ queued \in SUBSET Peers
    /\ pending \in Seq(Peers)
    /\ attempts \in [Peers -> 0 .. MaxAttempts]
    /\ running \in SUBSET Workers
    /\ sending \in SUBSET Workers
    /\ results \in Seq(Peers)
    /\ lastCompleted \in 0 .. Cardinality(Pieces)
    /\ listening \in BOOLEAN
    /\ idleLeft \in 0 .. Limit
    /\ interrupted \in BOOLEAN
    /\ stopped \in BOOLEAN

IsComplete == have = Pieces

\* run calls downloadTorrent only if something is missing.
Init ==
    /\ PXInit
    /\ ~IsComplete
    /\ pc = "announce"
    /\ verdict = "none"
    /\ active = {}
    /\ queued = {}
    /\ pending = <<>>
    /\ attempts = [p \in Peers |-> 0]
    /\ running = {}
    /\ sending = {}
    /\ results = <<>>
    /\ lastCompleted = Cardinality(have)
    /\ listening = FALSE
    /\ idleLeft = Limit
    /\ interrupted = FALSE
    /\ stopped = FALSE

-----------------------------------------------------------------------------
(* The closures of downloadTorrent.                                        *)

\* MUTANT of Eligible: a peer that waits in the queue is queued again.
EligibleUnlessActive(p) == attempts[p] < MaxAttempts /\ p \notin active

Eligible(p) ==
    /\ attempts[p] < MaxAttempts
    /\ p \notin active
    /\ p \notin queued

\* The peers of a tracker's answer, in whatever order they come.
addPeers(peers) ==
    LET new == {p \in peers : Eligible(p)}
    IN  /\ queued' = queued \cup new
        /\ \E order \in Injection(1 .. Cardinality(new), new) :
               pending' = pending \o order

\* MUTANT of CanLaunch: one worker more than allowed.
CanLaunchOneMore ==
    /\ Cardinality(active) <= MaxWorkers
    /\ pending # <<>>
    /\ ~IsComplete

CanLaunch ==
    /\ Cardinality(active) < MaxWorkers
    /\ pending # <<>>
    /\ ~IsComplete

Launch(p) ==
    /\ active' = active \cup {p}
    /\ attempts' = [attempts EXCEPT ![p] = @ + 1]
    /\ running' = running \cup {<<p, attempts[p] + 1>>}

\* One turn of launchWorkers' loop, and its end.  The first call comes before
\* the idle timer exists.
launchWorkers ==
    /\ pc \in {"start", "launch"}
    /\ IF CanLaunch
       THEN /\ queued' = queued \ {Head(pending)}
            /\ pending' = Tail(pending)
            /\ Launch(Head(pending))
            /\ UNCHANGED <<pc, idleLeft>>
       ELSE /\ pc' = "loop"
            /\ idleLeft' = IF pc = "start" THEN Limit ELSE idleLeft
            /\ UNCHANGED launchVars
    /\ UNCHANGED <<pxVars, verdict, sending, results, lastCompleted, listening,
                   interrupted, stopped>>

\* finishWorkers is entered with the verdict its caller returns afterwards.
StartFinish(result) ==
    /\ pc' = "finish"
    /\ verdict' = result
    /\ stopped' = TRUE

Return(result) ==
    /\ pc' = "returned"
    /\ verdict' = result
    /\ stopped' = TRUE      \* the deferred cancelWorkers

TakeResult ==
    /\ results # <<>>
    /\ active' = active \ {Head(results)}
    /\ results' = Tail(results)

-----------------------------------------------------------------------------
(* The main goroutine.                                                     *)

\* The first announce: an error or no peers, or peers to start with.
Announce ==
    /\ pc = "announce"
    /\ \/ /\ Return("announce failed")
          /\ UNCHANGED queueVars
       \/ \E peers \in SUBSET Peers \ {{}} :
              /\ addPeers(peers)
              /\ pc' = "start"
              /\ UNCHANGED <<verdict, stopped>>
    /\ UNCHANGED <<pxVars, active, attempts, running, sending, results,
                   listening, timeVars, interrupted>>

\* MUTANT of LoopHead: the peers are looked at before the pieces.
LoopHeadExhaustedFirst ==
    /\ pc = "loop"
    /\ IF active = {} /\ pending = <<>> THEN Return("exhausted")
       ELSE IF IsComplete THEN StartFinish("ok")
       ELSE /\ pc' = "updates"
            /\ UNCHANGED <<verdict, stopped>>
    /\ UNCHANGED <<pxVars, launchVars, sending, results, listening, timeVars,
                   interrupted>>

LoopHead ==
    /\ pc = "loop"
    /\ IF IsComplete THEN StartFinish("ok")
       ELSE IF active = {} /\ pending = <<>> THEN Return("exhausted")
       ELSE /\ pc' = "updates"
            /\ UNCHANGED <<verdict, stopped>>
    /\ UNCHANGED <<pxVars, launchVars, sending, results, listening, timeVars,
                   interrupted>>

\* The channel is fetched after the pieces were looked at.
FetchUpdates ==
    /\ pc = "updates"
    /\ listening' = TRUE
    /\ pc' = "select"
    /\ UNCHANGED <<pxVars, verdict, launchVars, sending, results, timeVars,
                   interrupted, stopped>>

ContextDone ==
    /\ pc = "select"
    /\ interrupted
    /\ StartFinish("cancelled")
    /\ UNCHANGED <<pxVars, launchVars, sending, results, listening, timeVars,
                   interrupted>>

\* Whether the verdict is really "idle" is decided when the workers are gone.
IdleTimeout ==
    /\ pc = "select"
    /\ idleLeft = 0
    /\ StartFinish("idle")
    /\ UNCHANGED <<pxVars, launchVars, sending, results, listening, timeVars,
                   interrupted>>

\* MUTANT of NoteProgress: any update restarts the idle timer.
NoteProgressAlways ==
    /\ lastCompleted' = Cardinality(have)
    /\ idleLeft' = Limit

NoteProgress ==
    IF Cardinality(have) > lastCompleted
    THEN /\ lastCompleted' = Cardinality(have)
         /\ idleLeft' = Limit
    ELSE UNCHANGED <<lastCompleted, idleLeft>>

UpdateReady ==
    /\ pc = "select"
    /\ ~listening
    /\ NoteProgress
    /\ pc' = "launch"
    /\ UNCHANGED <<pxVars, verdict, launchVars, sending, results, listening,
                   interrupted, stopped>>

ResultReady ==
    /\ pc = "select"
    /\ TakeResult
    /\ pc' = "launch"
    /\ UNCHANGED <<pxVars, verdict, queueVars, attempts, running, sending,
                   listening, timeVars, interrupted, stopped>>

\* The reannounce timer fires; the loop then waits for the tracker, however
\* long that takes.
ReannounceDue ==
    /\ pc = "select"
    /\ pc' = "reannounce"
    /\ UNCHANGED <<pxVars, verdict, launchVars, sending, results, listening,
                   timeVars, interrupted, stopped>>

Reannounce ==
    /\ pc = "reannounce"
    /\ \/ /\ pc' = "loop"
          /\ UNCHANGED queueVars
       \/ \E peers \in SUBSET Peers :
              /\ addPeers(peers)
              /\ pc' = "launch"
    /\ UNCHANGED <<pxVars, verdict, active, attempts, running, sending, results,
                   listening, timeVars, interrupted, stopped>>

\* MUTANT of Drained: the workers are cancelled but not waited for.
DrainedAtOnce == TRUE

Drained == active = {}

\* What the caller of finishWorkers returns in the end.
FinalVerdict == IF verdict = "idle" /\ IsComplete THEN "ok" ELSE verdict

finishWorkers ==
    /\ pc = "finish"
    /\ IF Drained
       THEN /\ Return(FinalVerdict)
            /\ UNCHANGED <<active, results>>
       ELSE /\ TakeResult
            /\ UNCHANGED <<pc, verdict, stopped>>
    /\ UNCHANGED <<pxVars, queueVars, attempts, running, sending, listening,
                   timeVars, interrupted>>

-----------------------------------------------------------------------------
(* The workers, as Worker's refinement of PieceExchange shows them: every  *)
(* end of a claim closes the updates channel.                              *)

quietVars == <<mainVars, active, queueVars, attempts, lastCompleted, idleLeft,
               interrupted, stopped>>

WorkerClaims(g) ==
    /\ g \in running
    /\ \E p \in Pieces : Claim(g, p)
    /\ UNCHANGED <<quietVars, running, sending, results, listening>>

WorkerDrops(g) ==
    /\ Drop(g)
    /\ listening' = FALSE
    /\ UNCHANGED <<quietVars, running, sending, results>>

WorkerDelivers(g) ==
    /\ Deliver(g)
    /\ listening' = FALSE
    /\ UNCHANGED <<quietVars, running, sending, results>>

\* StartWorker returns, for whatever reason.
WorkerReturns(g) ==
    /\ g \in running
    /\ claim[g] = Nil
    /\ running' = running \ {g}
    /\ sending' = sending \cup {g}
    /\ UNCHANGED <<pxVars, quietVars, results, listening>>

WorkerSends(g) ==
    /\ g \in sending
    /\ Len(results) < MaxWorkers
    /\ sending' = sending \ {g}
    /\ results' = Append(results, g[1])
    /\ UNCHANGED <<pxVars, quietVars, running, listening>>

-----------------------------------------------------------------------------
(* The environment.                                                        *)

Interrupt ==
    /\ ~interrupted
    /\ interrupted' = TRUE
    /\ UNCHANGED <<pxVars, mainVars, launchVars, sending, results, listening,
                   timeVars, stopped>>

\* Time passes, wherever the goroutines are, until the idle timer runs out.
Tick ==
    /\ pc \notin {"announce", "start", "returned"}
    /\ idleLeft > 0
    /\ idleLeft' = idleLeft - 1
    /\ UNCHANGED <<pxVars, mainVars, launchVars, sending, results, lastCompleted,
                   listening, interrupted, stopped>>

\* Steps of the main goroutine outside its select.
MainStep ==
    \/ Announce
    \/ launchWorkers
    \/ LoopHead
    \/ FetchUpdates
    \/ Reannounce
    \/ finishWorkers

Next ==
    \/ MainStep
    \/ ContextDone
    \/ IdleTimeout
    \/ UpdateReady
    \/ ResultReady
    \/ ReannounceDue
    \/ Interrupt
    \/ Tick
    \/ \E g \in Workers :
           \/ WorkerClaims(g)
           \/ WorkerDrops(g)
           \/ WorkerDelivers(g)
           \/ WorkerReturns(g)
           \/ WorkerSends(g)

Spec == Init /\ [][Next]_vars

\* The main goroutine runs, its announces end (the tracker client's timeouts),
\* time passes, and a select case that is ready again and again is picked in
\* the end, since select chooses at random.  Of the workers only what Worker
\* shows is assumed: a claim ends, and a worker whose context is done returns.
\* A peer has one worker at a time and few in all.
Fairness ==
    /\ WF_vars(MainStep)
    /\ WF_vars(Tick)
    /\ SF_vars(IdleTimeout)
    /\ \A p \in Peers :
           LET its == {g \in Workers : g[1] = p}
           IN  /\ WF_vars(\E g \in its : WorkerDrops(g) \/ WorkerDelivers(g))
               /\ SF_vars(/\ stopped \/ interrupted
                          /\ \E g \in its : WorkerReturns(g))
               /\ WF_vars(\E g \in its : WorkerSends(g))

FairSpec == Spec /\ Fairness

-----------------------------------------------------------------------------
(* Properties.                                                             *)

\* However often a tracker repeats an address, no peer is connected to twice
\* at a time: not while its worker runs, not while its result is on its way
\* to the loop, and a peer in the queue has neither.
OnePerPeer ==
    /\ \A g, h \in Live : g[1] = h[1] => g = h
    /\ \A g \in Live : /\ g[1] \in active
                       /\ g[1] \notin Range(results)
                       /\ g[1] \notin Range(pending)
    /\ \A i, j \in DOMAIN pending : pending[i] = pending[j] => i = j

\* At most MaxWorkers connections are open, and a worker that is done always
\* finds room in the results channel, so none is ever stuck there.
ResultsNeverBlock == Cardinality(Live) + Len(results) <= MaxWorkers

\* When downloadTorrent returns, for whatever reason, no goroutine is left:
\* nothing can write to the files that Finalize and Close work on next.
NoWorkerOutlives ==
    pc = "returned" =>
        /\ Live = {}
        /\ \A g \in Workers : claim[g] = Nil

\* downloadTorrent returns nil exactly when every piece is there, however the
\* last piece, the last result, the idle timer and the exhaustion of peers
\* race.  Only an interrupt may hide that the download is complete.
VerdictTruthful ==
    pc = "returned" /\ verdict # "cancelled" => (verdict = "ok" <=> IsComplete)

\* downloadTorrent always returns: the idle timeout bounds the wait for peers
\* that connect and deliver nothing, and the wait for the workers ends.  Nothing
\* undoes a return.
MainReturns == []<>(pc = "returned")

=============================================================================
