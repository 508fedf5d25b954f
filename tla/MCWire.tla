------------------------------- MODULE MCWire -------------------------------
(***************************************************************************)
(* Handshakes and messages for model checking Wire with bytes of three     *)
(* bits, so that the message IDs keep their numbers, and words of two      *)
(* bytes.                                                                  *)
(***************************************************************************)
EXTENDS Wire

MCProtocolString == <<2, 5>>

\* The right one, another protocol, one too long, none, another torrent.
MCHellos ==
    {[protocol |-> protocol, infoHash |-> hash] :
         protocol \in {MCProtocolString, <<2>>, <<5, 2>>, <<2, 5, 5, 5>>, <<>>},
         hash \in {InfoHash, InfoHash + 1}}

Raw(bytes) == Message(Malformed, <<>>, bytes, {})

\* The edges of every message: empty and longest, first and last piece, numbers
\* that need both bytes of a word.
Regular ==
    {Message(KeepAlive, <<>>, <<>>, {}), Message(MsgUnchoke, <<>>, <<>>, {})}
    \cup {Message(MsgHave, <<i>>, <<>>, {}) : i \in {0, NumPieces - 1}}
    \cup {Message(MsgBitfield, <<>>, <<>>, pieces) :
              pieces \in {{}, {0}, {NumPieces - 1}, Pieces \ {1}}}
    \cup {Message(MsgRequest, <<1, 8, 9>>, <<>>, {})}
    \cup {Message(MsgPiece, <<1, 17>>, block, {}) : block \in {<<>>, <<6, 0>>}}

Improper ==
    {Message(MsgHave, <<NumPieces>>, <<>>, {}),
     Message(MsgHave, <<MaxInt + 1>>, <<>>, {}),
     Message(MsgPiece, <<0, MaxInt + 1>>, <<1>>, {}),
     Message(MsgPiece, <<0, 0>>, <<1, 2, 3>>, {}),   \* too long by one
     Raw(<<MsgHave, 0>>), Raw(<<MsgPiece, 0, 0, 0>>),
     Raw(<<MsgBitfield, 4>>), Raw(<<MsgBitfield, 4, 1>>)}

MCMessages == Regular \cup Improper

=============================================================================
