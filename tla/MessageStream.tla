--------------------------- MODULE MessageStream ---------------------------
(***************************************************************************)
(* What a peer connection promises to the worker behind it: the messages   *)
(* the peer sends are handled in their order, none of them twice and none  *)
(* left out, up to the point where the connection ends.  How bytes become  *)
(* messages is in Wire, how messages reach the worker in ReadLoop.         *)
(***************************************************************************)
EXTENDS Naturals, Sequences

CONSTANT Messages

VARIABLES
    sent,   \* what the peer has sent
    got     \* what the worker has handled

Init == sent = <<>> /\ got = <<>>

Send(message) ==
    /\ sent' = Append(sent, message)
    /\ UNCHANGED got

Deliver ==
    /\ Len(got) < Len(sent)
    /\ got' = Append(got, sent[Len(got) + 1])
    /\ UNCHANGED sent

Next == Deliver \/ \E message \in Messages : Send(message)

Spec == Init /\ [][Next]_<<sent, got>>

=============================================================================
