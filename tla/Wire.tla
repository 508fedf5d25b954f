-------------------------------- MODULE Wire --------------------------------
(***************************************************************************)
(* A peer connection in one direction, byte for byte: the handshake and    *)
(* the messages as internal/peer writes them (handshake.go, message.go,    *)
(* writeFull of client.go), a TCP stream that is cut into pieces anywhere  *)
(* and may end anywhere, and how internal/peer reads them again            *)
(* (performHandshake, ReadMessageWithLimit, ParseHave, ParsePiece,         *)
(* ParseBitfield), up to the worker's picture of the peer's pieces.        *)
(*                                                                         *)
(* Bytes have ByteBits bits and words WordBytes bytes, big-endian.  In the *)
(* handshake the reserved bytes, the info hash and the peer ID are one     *)
(* byte each.                                                              *)
(***************************************************************************)
EXTENDS Integers, Sequences, SequencesExt

CONSTANTS
    ByteBits,           \* 8 in the code
    WordBytes,          \* 4 in the code
    MaxInt,             \* maxInt()
    MaxMessageSize,
    MaxProtocol,        \* the longest protocol string that is read, 64
    ProtocolString,     \* as a sequence of bytes
    NumPieces,          \* len(meta.Pieces)
    InfoHash,
    Hellos,             \* the handshakes that a peer may send
    Messages,           \* the messages that a peer may send
    MaxMessages         \* bound: messages sent

-----------------------------------------------------------------------------
(* Numbers.                                                                *)

\* base to the n.
Power(base, n) ==
    LET power[k \in Nat] == IF k = 0 THEN 1 ELSE base * power[k - 1]
    IN  power[n]

\* What is left of a number without its last n digits.
Shift(value, base, n) ==
    LET shifted[k \in Nat] == IF k = 0 THEN value ELSE shifted[k - 1] \div base
    IN  shifted[n]

\* The digit before them.
Digit(value, base, n) == Shift(value, base, n) % base

\* The number with these digits, the highest one first.
Number(digits, base) ==
    LET number[k \in 0 .. Len(digits)] ==
            IF k = 0 THEN 0 ELSE base * number[k - 1] + digits[k]
    IN  number[Len(digits)]

Base == Power(2, ByteBits)
Byte == 0 .. Base - 1
Pieces == 0 .. NumPieces - 1

\* A uint32 holds the number.
FitsWord(value) == value \in Nat /\ Shift(value, Base, WordBytes) = 0

\* Message IDs.  A frame of length zero has none; a malformed one has a body of
\* its own.
KeepAlive   == -1
Malformed   == -2
MsgChoke    == 0
MsgUnchoke  == 1
MsgHave     == 4
MsgBitfield == 5
MsgRequest  == 6
MsgPiece    == 7

\* A message: the numbers of a have, a request or a piece, the bytes of a piece
\* or of a message of another kind, the pieces of a bitfield.
MessageType ==
    LET None  == {<<>>}
        Words == {value \in Nat : FitsWord(value)}
        Other == Byte \ {MsgHave, MsgBitfield, MsgRequest, MsgPiece}
    IN  [id : {KeepAlive}, args : None, block : None, pieces : {{}}]
        \cup [id : {MsgHave}, args : [1 .. 1 -> Words], block : None, pieces : {{}}]
        \cup [id : {MsgBitfield}, args : None, block : None, pieces : SUBSET Pieces]
        \cup [id : {MsgRequest}, args : Seq(Words), block : None, pieces : {{}}]
        \cup [id : {MsgPiece}, args : [1 .. 2 -> Words], block : Seq(Byte),
              pieces : {{}}]
        \cup [id : Other, args : None, block : Seq(Byte), pieces : {{}}]

ASSUME WireAssumption ==
    /\ {ByteBits, WordBytes, MaxInt, MaxMessageSize, MaxProtocol, MaxMessages}
           \subseteq Nat \ {0}
    /\ NumPieces \in Nat
    /\ MsgPiece \in Byte /\ InfoHash \in Byte
    /\ ProtocolString \in Seq(Byte) /\ Len(ProtocolString) \in 1 .. MaxProtocol
    /\ \A hello \in Hellos : /\ hello \in [protocol : Seq(Byte), infoHash : Byte]
                             /\ Len(hello.protocol) \in Byte

VARIABLES
    hello,      \* the peer's handshake
    sent,       \* the messages that the peer has sent
    outgoing,   \* what writeFull still has to write
    ended,      \* the peer has closed the connection, or a write of its failed
    wire,       \* bytes under way
    phase,      \* what the reader reads, or why it stopped
    need,       \* the bytes that io.ReadFull is to read
    buffer,     \* those that it has
    got,        \* the messages that the worker has handled
    bitfield    \* the worker's picture of the peer's pieces

peerVars   == <<hello, sent, outgoing, ended>>
readerVars == <<phase, need, buffer, got, bitfield>>
vars == <<hello, sent, outgoing, ended, wire, phase, need, buffer, got, bitfield>>

HandshakeRest(length) == length + 3     \* 48 in the code

TypeOK ==
    /\ hello \in Hellos
    /\ sent \in Seq(Messages) /\ Len(sent) <= MaxMessages
    /\ outgoing \in Seq(Byte)
    /\ ended \in BOOLEAN
    /\ wire \in Seq(Byte)
    /\ phase \in {"protocolLength", "handshake", "length", "message", "refused",
                  "cut"}
    /\ need \in CASE phase = "message" -> 1 .. MaxMessageSize
                  [] phase = "handshake" -> 1 .. HandshakeRest(MaxProtocol)
                  [] OTHER -> Nat
    /\ buffer \in Seq(Byte) /\ Len(buffer) <= need
    /\ got \in Seq(MessageType)
    /\ bitfield \in SUBSET Pieces

-----------------------------------------------------------------------------
(* Writing.                                                                *)

\* binary.BigEndian.PutUint32.
PutWord(value) == [i \in 1 .. WordBytes |-> Digit(value, Base, WordBytes - i)]

\* Several words, one after the other.
PutWords(values) ==
    [i \in 1 .. Len(values) * WordBytes |->
        PutWord(values[1 + ((i - 1) \div WordBytes)])[1 + ((i - 1) % WordBytes)]]

\* How a peer writes its bitfield: the first piece is the highest bit.
BitfieldBytes(pieces) ==
    [i \in 1 .. (NumPieces + ByteBits - 1) \div ByteBits |->
        Number([bit \in 1 .. ByteBits |->
                   IF (i - 1) * ByteBits + (bit - 1) \in pieces THEN 1 ELSE 0], 2)]

\* NewHave, NewRequest and, as peers do it, the bodies of the other messages.
Body(message) ==
    CASE message.id = KeepAlive -> <<>>
      [] message.id = Malformed -> message.block
      [] OTHER ->
            <<message.id>> \o PutWords(message.args)
            \o (IF message.id = MsgBitfield THEN BitfieldBytes(message.pieces)
                                            ELSE message.block)

\* Message.Serialize.
Serialize(message) == PutWord(Len(Body(message))) \o Body(message)

\* Handshake.Serialize; the reserved byte and the peer ID are zero.
SerializeHandshake(h) ==
    <<Len(h.protocol)>> \o h.protocol \o <<0, h.infoHash, 0>>

Init ==
    /\ hello \in Hellos
    /\ sent = <<>>
    /\ outgoing = SerializeHandshake(hello)
    /\ ended = FALSE
    /\ wire = <<>>
    /\ phase = "protocolLength" /\ need = 1 /\ buffer = <<>>
    /\ got = <<>>
    /\ bitfield = {}

\* WriteMessage; writeMu keeps it from beginning before the last one has ended.
WriteMessage ==
    /\ ~ended /\ outgoing = <<>>
    /\ Len(sent) < MaxMessages
    /\ \E message \in Messages :
           /\ sent' = Append(sent, message)
           /\ outgoing' = Serialize(message)
    /\ UNCHANGED <<hello, ended, wire, readerVars>>

\* One turn of the loop of writeFull: some bytes are written.
WriteSome ==
    /\ ~ended /\ outgoing # <<>>
    /\ \E n \in 1 .. Len(outgoing) :
           /\ wire' = wire \o SubSeq(outgoing, 1, n)
           /\ outgoing' = SubSeq(outgoing, n + 1, Len(outgoing))
    /\ UNCHANGED <<hello, sent, ended, readerVars>>

\* A write fails, or the peer goes away.
PeerEnds ==
    /\ ~ended
    /\ ended' = TRUE
    /\ UNCHANGED <<hello, sent, outgoing, wire, readerVars>>

-----------------------------------------------------------------------------
(* Reading.                                                                *)

\* io.ReadFull returns.
Filled == Len(buffer) = need

\* One Read of io.ReadFull.
ReadSome ==
    /\ phase \notin {"refused", "cut"}
    /\ ~Filled
    /\ \E n \in 1 .. Len(wire) :
           /\ n <= need - Len(buffer)
           /\ buffer' = buffer \o SubSeq(wire, 1, n)
           /\ wire' = SubSeq(wire, n + 1, Len(wire))
    /\ UNCHANGED <<peerVars, phase, need, got, bitfield>>

\* The stream is over, or the deadline passes, be it between two messages or
\* within one.
ReadFails ==
    /\ phase \notin {"refused", "cut"}
    /\ ~Filled
    /\ phase' = "cut"
    /\ UNCHANGED <<peerVars, wire, need, buffer, got, bitfield>>

\* The next io.ReadFull.
Expect(what, n) ==
    /\ phase' = what
    /\ need' = n
    /\ buffer' = <<>>

Refuse ==
    /\ phase' = "refused"
    /\ UNCHANGED <<need, buffer, got, bitfield>>

\* performHandshake, up to the length of the protocol string.
ReadProtocolLength ==
    /\ phase = "protocolLength" /\ Filled
    /\ IF buffer[1] = 0 \/ buffer[1] > MaxProtocol
       THEN Refuse
       ELSE /\ Expect("handshake", HandshakeRest(buffer[1]))
            /\ UNCHANGED <<got, bitfield>>
    /\ UNCHANGED <<peerVars, wire>>

\* MUTANT of Validate: the torrent is not compared.
ValidateProtocolOnly(data) ==
    SubSeq(data, 1, Len(data) - 3) = ProtocolString

\* ParseHandshake and Validate, on what follows the length.
Validate(data) ==
    /\ SubSeq(data, 1, Len(data) - 3) = ProtocolString
    /\ data[Len(data) - 1] = InfoHash

ReadHandshake ==
    /\ phase = "handshake" /\ Filled
    /\ IF Validate(buffer)
       THEN Expect("length", WordBytes) /\ UNCHANGED <<got, bitfield>>
       ELSE Refuse
    /\ UNCHANGED <<peerVars, wire>>

\* binary.BigEndian.Uint32 of the word that begins at an offset.
Word(bytes, offset) ==
    Number([i \in 1 .. WordBytes |-> bytes[offset + i]], Base)

Words(bytes) ==
    [i \in 1 .. Len(bytes) \div WordBytes |-> Word(bytes, (i - 1) * WordBytes)]

Message(id, args, block, pieces) ==
    [id |-> id, args |-> args, block |-> block, pieces |-> pieces]

\* MUTANT of WithinLimit: no limit.
WithinLimitAlways(length) == TRUE

\* MUTANT of WithinLimit: a message of exactly the limit is refused.
WithinLimitExclusive(length) == length < MaxMessageSize

WithinLimit(length) == length <= MaxMessageSize

\* ReadMessageWithLimit, up to the length; RunClient passes over a keep-alive.
ReadLength ==
    /\ phase = "length" /\ Filled
    /\ LET length == Word(buffer, 0)
       IN  \/ /\ length = 0
              /\ got' = Append(got, Message(KeepAlive, <<>>, <<>>, {}))
              /\ Expect("length", WordBytes)
              /\ UNCHANGED bitfield
           \/ /\ length > 0 /\ ~WithinLimit(length)
              /\ Refuse
           \/ /\ length > 0 /\ WithinLimit(length)
              /\ Expect("message", length)
              /\ UNCHANGED <<got, bitfield>>
    /\ UNCHANGED <<peerVars, wire>>

\* The bit of a byte, counted from the highest.
Bit(byte, i) == Digit(byte, 2, ByteBits - 1 - i)

HasBit(payload, i) == Bit(payload[i \div ByteBits + 1], i % ByteBits) = 1

SpareBitsClear(payload) ==
    NumPieces % ByteBits # 0 /\ payload # <<>> =>
        \A i \in NumPieces % ByteBits .. ByteBits - 1 : Bit(Last(payload), i) = 0

BitfieldValid(payload) ==
    /\ Len(payload) = (NumPieces + ByteBits - 1) \div ByteBits
    /\ SpareBitsClear(payload)

\* MUTANT of ParseBitfield: the lowest bit comes first.
ParseBitfieldLowFirst(payload) ==
    {i \in Pieces : Bit(payload[i \div ByteBits + 1],
                        ByteBits - 1 - (i % ByteBits)) = 1}

ParseBitfield(payload) == {i \in Pieces : HasBit(payload, i)}

FitsInt(values) == \A i \in DOMAIN values : values[i] <= MaxInt

\* ParseHave and SetPiece.
HaveValid(payload) ==
    /\ Len(payload) = WordBytes
    /\ FitsInt(Words(payload))
    /\ Word(payload, 0) \in Pieces

\* ParsePiece.
PieceHeader(payload) == Words(SubSeq(payload, 1, 2 * WordBytes))

PieceValid(payload) ==
    Len(payload) >= 2 * WordBytes /\ FitsInt(PieceHeader(payload))

\* MUTANT of PieceBlock: off by one.
PieceBlockLate(payload) == SubSeq(payload, 2 * WordBytes + 2, Len(payload))

PieceBlock(payload) == SubSeq(payload, 2 * WordBytes + 1, Len(payload))

\* A body that is not turned away.
Acceptable(body) ==
    /\ WithinLimit(Len(body))
    /\ body[1] = MsgBitfield => BitfieldValid(Tail(body))
    /\ body[1] = MsgHave => HaveValid(Tail(body))
    /\ body[1] = MsgPiece => PieceValid(Tail(body))

\* A message is of one of the kinds above, or has a body that is none of theirs.
ASSUME MessagesAssumption ==
    \A message \in Messages :
        /\ FitsWord(Len(Body(message)))
        /\ \/ message \in MessageType
           \/ /\ message \in [id : {Malformed}, args : {<<>>}, block : Seq(Byte),
                              pieces : {{}}]
              /\ message.block # <<>> /\ ~Acceptable(message.block)

\* Hand a message to the worker, which now knows of these pieces.
Handle(message, pieces) ==
    /\ got' = Append(got, message)
    /\ bitfield' = pieces
    /\ Expect("length", WordBytes)

\* ReadMessageWithLimit, after the body, and the cases of RunClient.  Requests
\* are read as the peer at the other end reads those of this program.
ReadBody ==
    /\ phase = "message" /\ Filled
    /\ LET id      == buffer[1]
           payload == Tail(buffer)
       IN  CASE id = MsgBitfield ->
                  IF BitfieldValid(payload)
                  THEN Handle(Message(id, <<>>, <<>>, ParseBitfield(payload)),
                              ParseBitfield(payload))
                  ELSE Refuse
             [] id = MsgHave ->
                  IF HaveValid(payload)
                  THEN Handle(Message(id, Words(payload), <<>>, {}),
                              bitfield \cup {Word(payload, 0)})
                  ELSE Refuse
             [] id = MsgPiece ->
                  IF PieceValid(payload)
                  THEN Handle(Message(id, PieceHeader(payload),
                                      PieceBlock(payload), {}),
                              bitfield)
                  ELSE Refuse
             [] id = MsgRequest ->
                  Handle(Message(id, Words(payload), <<>>, {}), bitfield)
             [] OTHER ->
                  Handle(Message(id, <<>>, payload, {}), bitfield)
    /\ UNCHANGED <<peerVars, wire>>

-----------------------------------------------------------------------------

Next ==
    \/ WriteMessage
    \/ WriteSome
    \/ PeerEnds
    \/ ReadSome
    \/ ReadFails
    \/ ReadProtocolLength
    \/ ReadHandshake
    \/ ReadLength
    \/ ReadBody

Spec == Init /\ [][Next]_vars

-----------------------------------------------------------------------------
(* Properties.                                                             *)

\* Bytes become the messages that were written, whatever their boundaries on the
\* way, up to the end of the connection: no frame is torn, merged, invented or
\* read differently from how it was written.
Stream == INSTANCE MessageStream

ImplementsMessageStream == Stream!Spec

Proper(h) == h.protocol = ProtocolString /\ h.infoHash = InfoHash

\* Nothing is heard from a peer that speaks another protocol or is there for
\* another torrent, although its bytes may look like messages.
StrangersUnheard == got # <<>> => Proper(hello)

\* What a message says of the pieces of a peer that had these before.
After(pieces, message) ==
    CASE message.id = MsgBitfield -> message.pieces
      [] message.id = MsgHave -> pieces \cup {message.args[1]}
      [] OTHER -> pieces

\* The pieces that the messages name: the last bitfield and the haves after it.
Said(messages) ==
    LET said[n \in 0 .. Len(messages)] ==
            IF n = 0 THEN {} ELSE After(said[n - 1], messages[n])
    IN  said[Len(messages)]

\* The worker believes exactly what the peer said in the messages handled so far.
BelievesPeer == bitfield = Said(SubSeq(sent, 1, Len(got)))

\* What a peer may send.
WellFormed(message) ==
    /\ message.id # Malformed
    /\ Len(Body(message)) <= MaxMessageSize
    /\ FitsInt(message.args) \/ message.id \notin {MsgHave, MsgPiece}
    /\ message.id = MsgHave => message.args[1] \in Pieces

\* A peer is turned away only for a handshake or a message that is wrong: not for
\* one of exactly the greatest length, with the last piece, without a payload, or
\* that arrives in pieces.
HonestPeerKept ==
    phase = "refused" =>
        \/ ~Proper(hello)
        \/ Len(got) < Len(sent) /\ ~WellFormed(sent[Len(got) + 1])

=============================================================================
