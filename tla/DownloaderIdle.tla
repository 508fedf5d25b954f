--------------------------- MODULE DownloaderIdle ---------------------------
(***************************************************************************)
(* Downloader with a history of the time since a piece was completed, to   *)
(* say what the option -idle-timeout promises.                             *)
(***************************************************************************)
EXTENDS Downloader

VARIABLE sinceProgress  \* ticks since a piece was completed in time, up to Limit

idleVars == <<vars, sinceProgress>>

IdleInit == Init /\ sinceProgress = 0

\* Only Tick takes from the idle timer.  A piece that comes when the timer has run
\* out comes too late for it.
IdleNext ==
    /\ Next
    /\ sinceProgress' =
           CASE idleLeft' < idleLeft ->
                    IF sinceProgress < Limit THEN sinceProgress + 1 ELSE Limit
             [] have' # have /\ idleLeft > 0 -> 0
             [] OTHER -> sinceProgress

IdleSpec == IdleInit /\ [][IdleNext]_idleVars

\* -idle-timeout: the program gives up only when no piece completed for that
\* long.  (A piece that completes after the timer ran out is not counted, and
\* the timer may win against an update that is just as ready.)
IdleTimeoutHonest ==
    [][IdleTimeout /\ listening /\ ~IsComplete
           => sinceProgress >= Limit]_idleVars

=============================================================================
