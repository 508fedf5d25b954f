# A TLA+ verification of go-torrent

go-torrent is a BitTorrent leecher: it reads a `.torrent` file, asks trackers
for peers, fetches the pieces from several peers at a time, checks their hashes,
stores them in a partial file and renames that file when the download is
complete. It never uploads. This directory holds TLA+ modules that model its
concurrent and stateful parts, TLC configurations that check them on small
instances, and TLAPS proofs for instances of every size.

`PROJECT.json` lists the components, the runs, which source lines every
definition stands for, one mutant per property, the findings, the hazards and
the theorems.

## 1. Inventory of the system

| Part | Source | State it keeps | Operations |
|---|---|---|---|
| Piece manager | `internal/download/manager.go` | state of every piece (missing, downloading, verifying, complete), the `updates` broadcast channel, all under one mutex | `NewPieceManager`, `RestoreExisting`, `NextPieceForPeer`, `MarkFailed`, `CompletePiece`, `resetAfterFailure`, `Updates`, `Progress`, `IsComplete` |
| Download worker | `internal/download/worker.go` | per peer: choke state, bitfield, current piece, bytes received, outstanding request, block timer | `StartWorker`, `RunClient` with `requestBlock`, `requestNextPiece`, `releaseCurrent` |
| Main loop | `main.go`, `downloadTorrent` | `active`, `queued`, `pending`, `attempts`, `results`, idle and reannounce timers | announce, launch, collect results, give up, finish |
| Peer connection | `internal/peer/client.go` | socket, read deadline, the channels of `ReadLoop` | `ConnectContext`, `performHandshake`, `ReadLoop`, `WriteMessage`, `Close` |
| Wire messages | `internal/peer/message.go`, `bitfield.go`, `handshake.go` | none | encode and decode |
| Storage files | `internal/storage/storage.go` | the table of file spans | `openMultiFile`, `WriteAt`, `ReadAt` |
| Storage life cycle | `internal/storage/storage.go`, `run` in `main.go` | partial and completed names, file contents | `NewStorageAt`, `Complete`, `Close` |
| Tracker client | `internal/tracker/announce.go` | none between calls | `AnnounceFirst`, `AnnounceURL`, the HTTP and UDP exchanges |
| Metainfo | `internal/torrent` | none | `ExtractMeta`, `pieceCount`, path checks, `TrackerURLs` |
| Bencode | `internal/bencode` | none | `Parse` |
| Command line | `main.go` | none | flags, printing, signals |

How they interact:

- `run` restores the pieces an earlier run left, and calls `downloadTorrent` if
  something is missing, then `Finalize` (`Complete` of the storage).
- `downloadTorrent` starts one goroutine per peer. It shares with the workers
  the piece manager (calls under the mutex), the `updates` channel (a closed
  channel wakes every waiter), the `results` channel and a context.
- A worker shares with its connection's two goroutines the `messages` channel
  (unbuffered), the `errors` channel (one place), the socket and a context.
- Workers write pieces to the storage outside the manager's mutex, between its
  critical sections *verifying* and *complete*.

What is hard here: many goroutines over one table of reservations; a broadcast
channel that is re-created on every event and fetched anew by every waiter;
about ten ways out of `RunClient`, each of which owes a release; timers that
race with the answers they guard; a drain at the end that waits for every
worker; two goroutines that set the same read deadline; writes that fail
half-way; processes that are killed between a write, a sync and a rename; an
exchange of datagrams that are lost, late or of an earlier exchange, under one
deadline that two goroutines set; and input from strangers (metainfo, trackers'
answers, peers' bytes) where one byte more or less decides.
The `hazards` of `PROJECT.json` give each of them at its line.

What makes each part correct:

- *Manager and workers*: a reserved piece has exactly one live worker behind it;
  complete means verified and stored, for good; every reservation ends; every
  worker ends when it is told to.
- *Main loop*: one connection per peer, no goroutine blocked on `results` or
  alive after the return, a truthful verdict, and a return in the end.
- *Connection*: messages in order, the end of the stream after them, an error
  before the channels close, no goroutine left behind.
- *Storage*: every byte at its place in its file; a completed file is whole on
  the medium and never replaced; a partial file is resumed.
- *Tracker client*: no tracker with peers hidden behind one without; each asked
  once, one told of the end; over UDP only the answer to this announce counts,
  and the call ends whatever the network does.
- *Metainfo*: what is accepted can be laid out on disk below its directory, and
  its pieces tile its bytes; what is refused deserves it.
- *Wire messages*: what is handled is what was sent, however TCP cuts it; peers
  are turned away only for what is wrong.

## 2. Modules

| Module | What it models |
|---|---|
| `PieceExchange` | Abstract specification: workers claim, drop and deliver pieces. |
| `PieceManager` | `manager.go`: one operator per critical section of the mutex. |
| `Worker` | `worker.go` over `PieceManager`: any number of workers, their selects, their peers, and the pieces' bytes on disk. The properties and the inductive invariant `IInv`. |
| `MCWorker` | Symmetry for a run of `Worker`. |
| `WorkerProofs` | Invariance theorems of `Worker`; it implements `PieceExchange`; a complete piece is final. |
| `Downloader` | `downloadTorrent` composed with `PieceExchange`, which stands for manager and workers. |
| `DownloaderProofs` | Theorems of `Downloader`. |
| `DownloaderIdle` | `Downloader` with a history variable, for what `-idle-timeout` promises. |
| `MessageStream` | Abstract specification of a connection: messages are handled in the order they were sent. |
| `ReadLoop` | Reader, watcher and worker of one connection; implements `MessageStream`. |
| `ReadLoopProofs` | Theorems of `ReadLoop`; it implements `MessageStream`. |
| `Wire`, `MCWire` | Handshake and messages byte for byte; implements `MessageStream`. |
| `WireProofs` | Theorems of `Wire`, for every width of bytes and words; it implements `MessageStream`. |
| `FileSpans` | The loops of `writeAtLocked` and `ReadAt` over the spans of `openMultiFile`. |
| `Storage` | The partial and completed names under crashes, restarts and several instances. |
| `StorageProofs` | Theorems of `FileSpans`, for every layout of files, and of `Storage`, with one instance at a time and with any number. |
| `Tracker`, `MCTracker` | `AnnounceFirst` over the URLs of `TrackerURLs`, and how HTTP and UDP answers are read. |
| `TrackerProofs` | Theorems of `Tracker`, for every metainfo. |
| `UDPTracker` | One UDP exchange with its watcher over an unreliable network. |
| `UDPTrackerProofs` | Theorems of `UDPTracker`. |
| `Metainfo`, `MCMetainfo` | `ExtractMeta`: files, paths, total length, piece count. |
| `MetainfoProofs` | Theorems of `Metainfo`, for paths and lists of files of any length. |

The MC modules hold symmetry and the inputs of the runs.

### Worker and PieceManager

A worker's goroutine is cut into steps where it touches what others can see:
every critical section, every write to the socket and every disk access is a
step. `pc` says where it is:

    idle -> loop -> select -> (check ->) request -> send -> loop
                      |-> complete -> verify -> write -> publish -> check
                      |-> exit -> done

`loop` is the head of the `for`, where `manager.Updates()` is called; `select`
is its `select`, the only place where a worker waits; each case of the select
and each kind of message is an action (`ContextDone`, `BlockTimeout`,
`UpdateReady`, `PeerFailed`, `MsgBitfield`, `MsgHave`, `MsgChoke`,
`MsgUnchoke`, `MsgPieceLate`, `MsgPieceUnexpected`, `MsgPieceBlock`,
`IgnoreMessage`). `complete`, `verify`, `write` and `publish` are the parts of
`manager.CompletePiece`. `Exit` is the deferred `releaseCurrent` and close.

The peer is unconstrained: any message in any state, blocks of any position and
length up to one past the piece, right or wrong bytes. Abstracted: the bytes of
a piece (a length, and whether they match the metainfo); the hash (it accepts
exactly the matching bytes); the `updates` channel (`listening` is the set of
goroutines that hold a channel not yet closed; closing it empties the set); time
(the block timer is armed or not; if armed it may fire). `RestoreExisting` is
one step per piece and ends before any worker starts, as in `run`; a read error
there ends the program, which in the model is a behaviour that stops.

### Downloader

`have` and `claim` come from `PieceExchange`. A goroutine is named by its peer
and attempt number, with one number more than `addPeers` allows so that an
attempt too many would be seen. A goroutine is in `running` (inside
`StartWorker`), then in `sending` (at the send to `results`), then gone.
`launchWorkers` is one step per turn of its loop, since `IsComplete` is read in
each turn. `LoopHead`, `FetchUpdates` and the select are separate steps: that is
where the races are. The trackers' answers are arbitrary sets of peers in
arbitrary order. Time is counted in ticks up to the idle limit; a tick may come
at any moment until the timer has run out. `DownloaderIdle` adds `sinceProgress`, a
history variable that only `IdleTimeoutHonest` reads.

### ReadLoop

The reader's loop (arm the deadline, read, offer, deferred closes), the watcher
that sets the deadline to now, and as much of the worker as concerns the two
channels. The read deadline is one variable that the last writer decides. The
messages are numbers in the order the peer sends them. Garbage on the wire and
the peer's close are both the end of the stream. It implements `MessageStream`
with the numbers sent so far for the messages sent.

### Wire

One direction of a connection. The peer's handshake and messages become bytes as
`Serialize` of `message.go` and `handshake.go` make them; `WriteSome` is a turn
of `writeFull`, `ReadSome` a partial read inside `io.ReadFull`, so a frame may
cross in any pieces; `PeerEnds` and `ReadFails` cut the stream anywhere (a read
timeout is a failing read). The reader takes the protocol length, the handshake,
then lengths and bodies in turn, each with the checks of the code, and hands a
message to the worker, of which `bitfield` is kept. `Refuse` is any error return.
Bytes have three bits and words two bytes, so limits, spare bits of a bitfield
and numbers that do not fit an `int` are within reach; the fixed fields of the
handshake are one byte each. `MessageStream` is implemented with the same
variables. `MessagesAssumption` says what the messages of a peer are: one of the
kinds of the protocol with any numbers and bytes, valid or not, or bytes that are
none of them and that the reader turns away; the length of each fits its length
field.

### Tracker and UDPTracker

`Tracker` begins with a metainfo (any announce and announce-list), builds the
list of URLs, and takes one step per turn of `AnnounceFirst`'s loop.
`AnnounceURL` gives the set of possible results of one call: an error, or what
the code makes of one of the answers (`HTTPAnswers`, `UDPAnswers`), with the
checks on failure reason, interval, counts, compact and dictionary peers, peers6
and duplicates. `heard` is a history of what each call came to. A context that is
done makes every later call fail, as the transport does.

`UDPTracker` cuts `announceUDP` where another goroutine or the network can be
seen: dialling, setting the deadline, each send, each read, and the two deferred
calls. The socket has one deadline, which the call, the watcher and the clock
write. `requests` and `replies` are sets from which nothing is taken: a datagram
in one of them may arrive now, later, twice or never. Replies of an earlier
exchange from the same port may be there from the start, and the two random
numbers of one exchange may be equal. A datagram holds what the code looks at,
and `answers`, which only the properties see.

### Metainfo

One step per entry of `files`, then the check of neighbours in the sorted list,
or one step for `length`; then the piece length and the number of hashes. Instead
of a sorted list there is the relation that sorting gives: two keys are
`Neighbours` if one is less than the other and no key lies between them. Paths
are sequences of characters, because the properties are about what the checks on
text mean for places on disk: `Resolve` walks the joined path as a file system
would, `OnDisk` as one that ignores case and trailing dots. Six characters stand
for those the code distinguishes; a space at the end of a name, the other
characters that Windows forbids and control characters are treated by the same
lines as the ones that are kept, and are left out. `PieceLengthAt` is
what the piece manager makes of the result; `PiecesTile` is what `PieceManager` takes as `MetainfoAssumption`.

### FileSpans and Storage

Both modules are about `storage.go`, and `StorageProofs` extends both; so the
specification of `FileSpans` is called `SpansSpec` and that of `Storage` `Spec`.

`FileSpans` runs one write and then one read, chunk by chunk, for every layout
of files, offset and length, with an input/output failure possible in every
chunk after any number of its bytes. A cell holds the torrent position written
to it, so a byte in the wrong place shows.

`Storage` has inodes behind two names. `content` is what processes see,
`durable` what is on the medium. A power loss keeps what is durable and any part
of the rest, stops every process and lets them start again. Abstractions: a
multi-file torrent is one directory entry here (the rename is of one directory
in the code as well; renaming over a directory that is not empty fails, which is
the failing branch of `CompleteRename`); a rename that took effect survives a power loss (the code
does not sync the directory, so this assumes a journalled file system that
orders it); a sync that fails, perhaps after some of the files, promises nothing
about any of them.

## 3. Runs

| Run | Instance | States | Result |
|---|---|---|---|
| `worker` | 2 workers; 2 pieces of 3 and 2 bytes, blocks of 2 | 273,322 | holds |
| `worker_missed_update` | 2 workers, 1 piece of 2 blocks | | finding 1 |
| `downloader` | 3 peers, 2 slots, 2 pieces, idle limit 2 | 656,304 | holds |
| `downloader_idle` | 2 peers, 1 slot, 2 pieces, idle limit 2 | | finding 2 |
| `read_loop` | 3 messages | 17,488 | holds |
| `file_spans` | up to 3 files of up to 2 bytes | 4,717 | holds |
| `storage` | 1 instance, 3 pieces, 2 partial files | 367 | holds |
| `storage_race` | 2 instances, 1 piece, 2 partial files | | finding 3 |
| `wire` | a handshake and 2 messages, 3-bit bytes | 596,286 | holds |
| `tracker` | up to 5 URLs of 4, and every kind of answer | 456,970 | holds |
| `udp_tracker` | 2 transaction numbers, 2 connection IDs, 3 replies under way | 383,641 | holds |
| `metainfo` | up to 3 files, paths of up to 2 components | 318,362 | holds |

Every module has a type invariant. A run lists it where it says more than types: no
more bytes than the piece has, also for the short last one (`WithinPiece` of
`Worker`), no buffer above the limit (`Wire`).

**worker** checks `TypeOK`, `ReservationOwned`, `CompleteIsStored`,
`DeadlineMatchesPiece`, `HonestBlockAccepted`, `CompleteIsFinal` and
`ImplementsPieceExchange`, and `ReservationResolved` and `CancelStops` under
fairness. Bounds: two workers are what a conflict over a piece needs; a full
piece of two blocks and a short last piece give a full block, a shortened block, a
piece in progress between blocks, and a piece left for the other worker. The
proofs lift these bounds for the safety properties. Fairness:

- `WF(Run(w))`: the Go scheduler runs a goroutine that can run. A blocked write
  to a socket ends by the connection's write deadline.
- `SF(ContextDone(w))`: a closed `Done` channel is always ready at the select,
  and `select` chooses among ready cases at random. Weak fairness is not enough,
  since the worker leaves the select for other events in between.
- `SF(blockDeadline[w] /\ Resolve(w))`: an armed timer fires if nothing else
  ends the wait for the block. It does not assume that the peer answers.

**downloader** checks `OnePerPeer`, `ResultsNeverBlock`, `NoWorkerOutlives` and
`VerdictTruthful`, and `MainReturns` under fairness. Three peers and two slots
leave one in the queue; two attempts per peer let a peer come back while another
is active; two pieces separate progress from completion; with an idle limit of two
ticks an update can come between them (with one, a timer that every update
restarts would still run out). `MaxAttempts` is the code's own 2.

Of the workers the fairness assumes only what `worker` shows: a claim ends, and a
worker that is cancelled returns. It is stated per peer, which has one worker at a
time. Steps of the main goroutine are weakly fair, an announce included, because
the tracker client has timeouts (`ExchangeEnds`). `Tick` is weakly fair (time
passes), and `IdleTimeout` strongly, because of `select`.

**read_loop** checks `ImplementsMessageStream`, `EOFAfterMessages` and
`NoSilentEnd`, and `GoroutinesEnd` with weak fairness of reader, watcher and the worker's deferred
calls. The read timeout is not assumed to happen: the goroutines end because of
`Close`, even when the reader has just overwritten the watcher's deadline. Three
messages are enough for one handled, one offered and one in the stream.

**file_spans** checks `BytesInPlace`, `RoundTrip` and `RangeServed` against a
reference definition of a byte's position. Three files of zero, one or two bytes
give ranges that start and end inside and on borders of files and cross empty
ones at either end and in the middle.

**storage** checks `CompletedIsWhole`, `KnownIsStored`, `NeverOverwritten` and
`PartialKept`. Two files let the program start over after it has completed one.

**wire** checks `ImplementsMessageStream`, `StrangersUnheard`, `BelievesPeer` and
`HonestPeerKept`. Two messages show a torn frame read as the next one. They are
taken at their edges: longest and one longer, first and last piece, one piece too
many, numbers that need both bytes of a word or do not fit an `int`, bitfields
with spare bits and of the wrong length. Four pieces leave the last byte of a
bitfield with two spare bits.

**tracker** checks `PeersNotHidden` and `ToldOnce`. Two tiers of two URLs and the
`announce` give a repeated URL at any distance and more than one tracker before
and after the one that answers. The answers have all lists of up to two peers,
compact or as dictionaries, and one more in IPv6 form, some of which come to no
usable peer; other mistakes are tried one at a time. The ports 0, 1 and 2 are
zero, the greatest and one more; the intervals are likewise.

**udp_tracker** checks `AnswerIsOurs` and `LateCancelHeard`, and `ExchangeEnds`
and `WatcherEnds` with weak fairness of the call, of the watcher and of the
deadline passing. Nothing is assumed of the network, the tracker or the user: a
read may fail before its deadline (`ReadError`), but need not.
Two transaction numbers let the two of an exchange differ or be equal; three
replies are one of an earlier exchange, one to the connect and one to the
announce. A cancellation between dialling and the first `SetDeadline` can be
undone by it (`announce.go:369`): the run shows that the call still ends, by its
timeout, and `LateCancelHeard` that a later one is never undone.

**metainfo** checks `StaysInside`, `FilesCoexist`, `ConflictReal` and
`PiecesTile`. Comparing only neighbours of a sorted list could go wrong with a
third file between a file and its directory, so three files; two components make a
directory. With 7 for the greatest integer, the lengths 3 and 7 overflow in the
second or the third file, and every total up to 7 meets every piece length up to
4 and every number of hashes.

Deadlock checking is off in every run: each of these systems is meant to stop
(workers done, `downloadTorrent` returned, transfer over, disk full of finished
files, answer returned). That it does not stop too early is what the liveness
properties say; in the sequential modules it is what `HonestPeerKept`,
`ConflictReal` and `PeersNotHidden` say of the end they reach.

## 4. Findings

1. **A worker can sleep through a release** (`worker_missed_update`,
   `worker.go:142`). `RunClient` looks for a piece and calls `Updates()` in the
   next turn of its loop. A release in between closes the old channel; the worker
   waits on the new one although there is a piece it could fetch, until its peer
   sends something or another update comes. With the channel fetched before
   looking for a piece this could not happen. It delays the download, it does
   not corrupt it; if no other worker is left, the read or the idle timeout ends
   the wait.
2. **The idle timeout can strike although a piece completed in time**
   (`downloader_idle`, `main.go:240`). The same pattern in the main loop: a piece
   that completes while the loop handles a result or waits for a reannounce does
   not reset the idle timer. The repository's README says "fail when no piece
   completes for this duration". The property leaves out the two harmless races:
   a piece that completes after the timer ran out, and a timer and an update that
   are both ready at the select.
3. **Two instances can overwrite a completed download** (`storage_race`,
   `storage.go:331`). The destination is checked before sync and rename, and the
   rename replaces. The repository's README says that "an existing completed
   destination is never overwritten". With one instance at a time that is a
   theorem (`CompletedKept`).

The comment at `announce.go:79`, that trackers are asked "until one responds", is
shorter than the code: for a download it goes on after an answer without peers,
which the tests want. `PeersNotHidden` states the code's behaviour.

## 5. Proofs

`WorkerProofs` proves `Spec => []IInv`, where

    IInv == TypeOK /\ ControlInv /\ OwnerInv /\ CompleteIsStored

for every finite or infinite set of workers and all sizes that satisfy
`MetainfoAssumption` (the lengths fit the piece count, which `ExtractMeta`
checks) and `WorkerAssumption`. None of the properties is inductive alone:

- `ControlInv` ties a goroutine's position to its locals: who may hold a current
  piece, that its deadline is armed and its request is the next one, that bytes
  about to be published were verified and written. Without it `Publish` could
  mark a bad piece complete.
- `OwnerInv` ties the manager's state to the workers: a holder agrees with the
  state of its piece (`HolderAgrees`), is the only one (`HolderUnique`), exists
  for every reserved piece (`HolderExists`), and nothing is reserved before
  restoring is over (`NotYetRestored`). Without it a stale `MarkFailed` could
  release a piece another worker has.

There is one lemma per kind of step (`LocalStep`, `ReleaseStep`, `ReserveStep`,
`SendStep`, `BlockStep`, `BeginStep`, `EndStep`, ...), `RunStep` and
`SelectStep` apply them to the actions, and `TypeCorrect`, `ReservationSafe`,
`StoredSafe`, `DeadlineSafe` and `HonestPeerSafe` follow from `IInv`.

`Refinement` of the same module is `Spec => ImplementsPieceExchange`. `have`
is mapped to the complete pieces together with those that `RestoreExisting` is
still going to find on disk, so restoring is a stutter; `claim` to the piece a
worker fetches or has inside `CompletePiece`. `StepEffect` states what any step
does to the two (nothing, one claim, one drop or one delivery), and
`CompleteStays` follows from the same lemma.

`DownloaderProofs` proves `OneWorkerPerPeer`, `ResultsAlwaysFit`,
`NobodyOutlives` and `VerdictsAreTrue` for any number of peers, slots and
pieces, with the code's two attempts per peer. The four need one invariant, `DownloaderInv`: a goroutine's peer is
active and has no result yet, no two share one (`ActiveInv`); queued peers are
not active and have attempts left (`QueueInv`); goroutines and results together
are exactly as many as the active peers, and those at most `MaxWorkers`
(`CountInv`, which is why a send never blocks); who has a piece is inside
`StartWorker` (`ClaimInv`); and what each exit of the loop has established about
the verdict (`VerdictInv`).

`ReadLoopProofs` proves `EOFComesLast`, `EndIsNeverSilent` and
`ReadLoopRefinesStream`. `OrderInv` says where every message is that was sent and
not handled: with the reader, or still on the connection, in this order, so that
`HandOver` gives the worker the next one and the refinement's step is that of
`MessageStream`. `EOFInv` follows the end of the stream from the reader through
the `errors` channel to the worker, `TellInv` the promise that an error lies in
that channel before any channel is closed.

`StorageProofs` proves `CompletedWhole`, `CompletedKept` and `KnownStored` for one
instance at a time (`SingleProcess`, a hypothesis of these theorems; the run
`storage_race` shows that `CompletedKept` needs it) and any number of pieces,
crashes and restarts. The invariant adds to `CompletedIsWhole` what a process
relies on at each step towards the rename (`ProcessInv`): the partial file is
there, all its pieces are right, the destination is free, the file is synced.
`PartialsAreKept` has no such hypothesis: it holds of any number of instances.

The same module proves, of `FileSpans`, `EveryByteInPlace`,
`ReadsBackWhatWasWritten` and `EveryRangeServed` for any number of files of any length, empty ones included, and
any request. The invariant says what is in every cell after `done` bytes
(`CellsInv`) and that the loop is never past the span it must write next
(`LoopInv`); the step of a chunk is the equation of two functions, the row of a
file before and after it. The property counts the bytes before a cell while the
code adds up lengths; `PositionInFile` shows that both give the same position.

`TrackerProofs` proves `EveryTrackerToldOnce` and `NoPeersHidden` for every announce
list and all answers. `ListInv` is what `TrackerURLs` promises (each URL once, none
of the metainfo missing), `AskedInv` and `SearchInv` what the loop of
`AnnounceFirst` knows after any number of answers: no earlier one was good enough,
and `firstSuccessful` is set exactly if one came.

`UDPTrackerProofs` proves `AnswersAreOurs` and `LateCancelsAreHeard` for any set of
datagrams under way. `RepliesInv` is about those: none that answers an earlier
exchange has one of this exchange's numbers, none that answers a connect is an
announce reply, and connection IDs in them were granted. `WatchInv` relates the
watcher to the call it watches.

`WireProofs` proves the five properties of `Wire` (`TypeCorrect`,
`StrangersStayUnheard`, `PeerIsBelieved`, `HonestPeersKept`, `WireRefinesStream`),
for any width of bytes and words, any protocol string, handshakes and messages.
The invariant looks at the bytes from the reader's buffer over the wire to the
writer (`Ahead`); moving bytes from the writer to the wire or from there to the
buffer leaves them as they are (`MoveFront`). `StreamInv` says what they are: the
field that is being read lies whole at their front (`Position`), and after it come
the messages not yet heard, each as `Serialize` writes it (`Frames`). `HeardInv`
says that what was handled is a prefix of what was sent and that `bitfield` is what
it says. The step that matters is `BodyRead`: what the reader makes of the bytes of
a message is that message, or the message is one that may be turned away. Below it
are the lemmas that reading undoes writing, for a number in any base
(`DigitsOfNumber`, `NumberOfDigits`), a word, a row of words, a bitfield with its
spare bits, and each kind of message.

`MetainfoProofs` proves the four properties of `Metainfo` (`FilesStayInside`,
`FilesDoCoexist`, `ConflictsAreReal`, `PiecesDoTile`) for any set of components, any
depth of paths, any number of files and any `MaxInt64`. `MetainfoInv` says that every
path read so far was validated and no two have the same key (`FilesInv`), that the
total is the sum on paper, so `Add` has never wrapped (`TotalInv`), and what the last
checks have found (`VerdictInv`). It is proved in three parts:

- What a path is on disk. Splitting undoes joining when no component has the
  separator (`SplitJoin`), so the walk of a validated path visits its components
  and nothing else (`ResolveValid`), and the file system that ignores case and
  dots at the end keeps them apart (`OnDiskValid`). The key of a path joins the same
  components with NUL, so equal keys are equal places (`KeyOfPath`), and a key
  followed by NUL begins another exactly if one place is a directory of the other
  (`DirectoryOnDisk`).
- Why neighbours are enough (`NeighboursDecide`). NUL is the lowest character, so
  every key between a file's and that of a file below it also lies below the file
  (`DirectoryBetween`); the least key below it (`LeastKey`) is then its neighbour.
  A separator above some other character would not do: a key that has this
  character in its place would come in between.
- The pieces. Rounding up leaves between one and `pieceLength` bytes for the last
  piece (`PiecesFit`), and the sum of the pieces is the total (`SumMore`).

Every inductive invariant above is also an invariant that TLC finds to hold on
the instance of the component's run.

Four proofs are about what recursively defined data is for every input: where the
files start (`start` of `FileSpans`), which URLs are left (`Without`, `Distinct` of
`Tracker`), what the digits of a number are (`Number`, `Shift` of `Wire`), and what
the parts of a path and the sum of a list are (`Join`, `Split`, `Resolve`, `Sum` of
`Metainfo`). The
library's induction theorems cannot be applied with the provers at hand, so these
modules derive induction on a *set* of numbers from
the existence of a least element (such as `InductionOnSet`), and from it
that the recursive function exists and satisfies its equation.

Only model-checked, and why:

- `ReservationResolved`, `CancelStops`, `MainReturns`, `GoroutinesEnd`,
  `ExchangeEnds` and `WatcherEnds`: liveness, and the provers here do no fairness.

## 6. What is not modelled

- Dialling, and closing the socket after a failed handshake: one step of `Worker`
  that succeeds or ends the worker. It takes some time, at most the handshake
  timeout, during which nobody watches the context.
- The HTTP transport: connection errors, redirects, a status other than 2xx and a
  body over the limit are all the failing result of `AnnounceURL`. The fields of a
  request that only the tracker reads.
- Fields of messages and datagrams that nobody checks (peer ID, reserved bytes,
  key), and the random peer ID.
- The bencode parser: a sequential function of its input that the repository's
  tests and a fuzz test drive directly, and of which a faithful model is the
  parser again. Read beside them, it has one gap: `parser.go:221` keeps the last
  key in a slice for which nil means "none yet", and an empty key appended to it
  leaves it nil, so that `d0:0:0:0:e` is accepted although the tests want repeated
  keys rejected. No key the program looks up is empty.
- `PieceManager.CompletedBytes`, from which the bytes left are announced: a sum of
  lengths that `PiecesTile` shows to be right.
- Path and symlink checks of the storage when it opens its files: they change no
  state that the properties see. The checks on names are in `Metainfo`.
- Flags, printing, signals beyond "the context is cancelled", and the final
  "completed" announce, whose failure is only printed.

## 7. Plan

Done: all components but the bencode parser and the command line, with the runs
above. Every invariant, action property and refinement that a passing run checks is
also a theorem (for `Storage`, three of the four with one instance at a time); what
is left to TLC is the liveness listed at the end of section 5.
A change to the code starts at the definition that `PROJECT.json` maps to its lines,
then the component's run, then its proofs.
