--------------------------- MODULE PieceExchange ---------------------------
(***************************************************************************)
(* What the piece manager and its workers promise together, without locks, *)
(* channels, blocks or disks: a piece is worked on by at most one worker   *)
(* at a time, a claim ends by being dropped or by being delivered, and a   *)
(* delivered piece is never worked on again.                               *)
(*                                                                         *)
(* Worker implements this specification; Downloader composes it with the   *)
(* main loop.                                                              *)
(***************************************************************************)
CONSTANTS
    Pieces,     \* the pieces of the torrent
    Workers,    \* the worker goroutines
    Nil         \* "no piece"

ASSUME NilIsNoPiece == Nil \notin Pieces

VARIABLES
    have,       \* the pieces whose data is verified and stored
    claim       \* the piece each worker is responsible for, or Nil

pxVars == <<have, claim>>

PXTypeOK ==
    /\ have \in SUBSET Pieces
    /\ claim \in [Workers -> Pieces \cup {Nil}]

PXInit ==
    /\ have \in SUBSET Pieces
    /\ claim = [w \in Workers |-> Nil]

Claim(w, p) ==
    /\ claim[w] = Nil
    /\ p \notin have
    /\ \A v \in Workers : claim[v] # p
    /\ claim' = [claim EXCEPT ![w] = p]
    /\ UNCHANGED have

Drop(w) ==
    /\ claim[w] # Nil
    /\ claim' = [claim EXCEPT ![w] = Nil]
    /\ UNCHANGED have

Deliver(w) ==
    /\ claim[w] # Nil
    /\ have' = have \cup {claim[w]}
    /\ claim' = [claim EXCEPT ![w] = Nil]

PXNext ==
    \E w \in Workers :
        \/ \E p \in Pieces : Claim(w, p)
        \/ Drop(w)
        \/ Deliver(w)

PXSpec == PXInit /\ [][PXNext]_pxVars

=============================================================================
