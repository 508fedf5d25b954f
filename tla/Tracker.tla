------------------------------ MODULE Tracker ------------------------------
(***************************************************************************)
(* AnnounceFirst of internal/tracker/announce.go: the trackers of a        *)
(* metainfo are asked one after the other until one of them has peers, or, *)
(* for the events "completed" and "stopped", until one of them answers.    *)
(*                                                                         *)
(* An answer is reduced to the fields that the code looks at.  The two     *)
(* requests of a UDP announce are in module UDPTracker; here it is one     *)
(* step that fails or ends with a reply.                                   *)
(***************************************************************************)
EXTENDS Integers, Sequences, SequencesExt

CONSTANTS
    HTTPTrackers,   \* URLs with scheme http or https
    UDPTrackers,    \* URLs with scheme udp
    OtherURLs,      \* any other string in the place of a URL
    Empty,          \* the empty string
    IPs,
    MaxPort,        \* 65535 in the code
    MaxInterval,    \* maxIntervalSeconds
    AnnounceLists,  \* announce-lists of the metainfo: sequences of tiers
    HTTPAnswers,    \* bodies that a tracker may send with a status 2xx
    UDPAnswers,     \* valid replies to an announce over UDP
    Nil

URLs == HTTPTrackers \cup UDPTrackers \cup OtherURLs

\* An entry of a list of peers; in a list of dictionaries the address may be
\* missing or unreadable, and the port may be any number.
Entries == [ip : IPs \cup {Nil}, port : Int]

PeersValues == [form : {"absent", "compact", "list", "other"},
                whole : BOOLEAN,      \* the length is a multiple of the entry's
                entries : Seq(Entries)]

Bodies == [failure : BOOLEAN, interval : Int \cup {Nil}, counts : BOOLEAN,
           peers : PeersValues, peers6 : PeersValues]

ASSUME TrackerAssumption ==
    /\ MaxPort \in Nat \ {0}
    /\ MaxInterval \in Nat \ {0}
    /\ Empty \notin URLs
    /\ Nil \notin IPs \cup Int
    /\ \A data \in HTTPAnswers : data \in Bodies
    /\ \A data \in UDPAnswers : data \in [interval : Int, peers : PeersValues]
    /\ \A tiers \in AnnounceLists : tiers \in Seq(Seq(URLs \cup {Empty}))

VARIABLES
    announce,           \* the metainfo's announce and announce-list
    announceList,
    event,              \* of the announce
    urls,               \* the trackers, in the order they are asked
    index,              \* of the next one
    cancelled,          \* ctx is done
    firstSuccessful,
    outcome,            \* "none", "ok" or "failed"
    response,           \* what AnnounceFirst returns
    heard               \* what each tracker asked so far came up with

vars == <<announce, announceList, event, urls, index, cancelled,
          firstSuccessful, outcome, response, heard>>

Peers == [ip : IPs, port : 1 .. MaxPort, bytes : {4, 16}]
AnnounceResponse == [interval : 1 .. MaxInterval, peers : Seq(Peers)]

TypeOK ==
    /\ event \in {"", "started", "completed", "stopped"}
    /\ urls \in Seq(URLs)
    /\ index \in 1 .. Len(urls) + 1
    /\ cancelled \in BOOLEAN
    /\ firstSuccessful \in AnnounceResponse \cup {Nil}
    /\ outcome \in {"none", "ok", "failed"}
    /\ response \in AnnounceResponse \cup {Nil}
    /\ outcome = "ok" => response # Nil

-----------------------------------------------------------------------------
(* The metainfo's trackers.                                                *)

\* The elements of seq that are not x, in their order.
Without(seq, x) ==
    LET kept[n \in 0 .. Len(seq)] ==
            IF n = 0 THEN <<>>
            ELSE IF seq[n] = x THEN kept[n - 1] ELSE Append(kept[n - 1], seq[n])
    IN  kept[Len(seq)]

\* Empty strings are dropped, and tiers with nothing else.
extractAnnounceList(tiers) ==
    Without([i \in DOMAIN tiers |-> Without(tiers[i], Empty)], <<>>)

\* Each URL once, where it is first met.
Distinct(all) ==
    LET found[n \in 0 .. Len(all)] ==
            IF n = 0 THEN <<>>
            ELSE IF all[n] = Empty \/ Contains(found[n - 1], all[n])
            THEN found[n - 1]
            ELSE Append(found[n - 1], all[n])
    IN  found[Len(all)]

TrackerURLs(first, tiers) == Distinct(<<first>> \o FlattenSeq(tiers))

-----------------------------------------------------------------------------
(* Reading an answer.  Nil stands for an error.                            *)

\* String of an address: IPv4 addresses read the same in four bytes and in
\* sixteen.
AddressString(address) == <<address.ip, address.port>>

PeerAddress(entry, bytes) ==
    [ip |-> entry.ip, port |-> entry.port, bytes |-> bytes]

PeersOf(entries, bytes) ==
    [i \in DOMAIN entries |-> PeerAddress(entries[i], bytes)]

\* parseCompactPeers and, with addresses of sixteen bytes, parseCompactPeers6.
parseCompactPeers(value, bytes) ==
    IF value.whole
    THEN PeersOf(SelectSeq(value.entries, LAMBDA entry : entry.port # 0), bytes)
    ELSE Nil

\* One unusable dictionary spoils the list.
parsePeersList(value) ==
    IF \A entry \in Range(value.entries) :
           entry.ip # Nil /\ entry.port > 0 /\ entry.port <= MaxPort
    THEN PeersOf(value.entries, 16)
    ELSE Nil

parsePeersValue(value) ==
    CASE value.form = "absent"  -> <<>>
      [] value.form = "compact" -> parseCompactPeers(value, 4)
      [] value.form = "list"    -> parsePeersList(value)
      [] value.form = "other"   -> Nil

parsePeers6Value(value) ==
    CASE value.form = "absent"  -> <<>>
      [] value.form = "compact" -> parseCompactPeers(value, 16)
      [] OTHER                  -> Nil

uniquePeers(peers) ==
    FoldLeft(LAMBDA found, peer :
                 IF \E other \in Range(found) :
                        AddressString(other) = AddressString(peer)
                 THEN found ELSE Append(found, peer),
             <<>>, peers)

validInterval(interval) ==
    interval # Nil /\ interval > 0 /\ interval <= MaxInterval

parseAnnounceResponse(data) ==
    LET peers  == parsePeersValue(data.peers)
        peers6 == parsePeers6Value(data.peers6)
    IN  IF \/ data.failure \/ ~validInterval(data.interval) \/ ~data.counts
           \/ peers = Nil \/ peers6 = Nil
        THEN Nil
        ELSE [interval |-> data.interval, peers |-> uniquePeers(peers \o peers6)]

\* The end of announceUDP; the address family is that of the tracker.
parseUDPAnswer(data, bytes) ==
    LET peers == parseCompactPeers(data.peers, bytes)
    IN  IF peers = Nil \/ ~validInterval(data.interval) THEN Nil
        ELSE [interval |-> data.interval, peers |-> peers]

\* What AnnounceURL may return.  An announce over HTTP may fail in any of the
\* ways in which a request fails, one over UDP in those of module UDPTracker, and
\* each of them fails at once when the context is done.
AnnounceURL(url) ==
    {Nil} \cup
    IF cancelled THEN {}
    ELSE IF url \in HTTPTrackers
         THEN {parseAnnounceResponse(data) : data \in HTTPAnswers}
    ELSE IF url \in UDPTrackers
         THEN {parseUDPAnswer(data, bytes) : data \in UDPAnswers, bytes \in {4, 16}}
    ELSE {}

-----------------------------------------------------------------------------
(* AnnounceFirst.                                                          *)

\* ExtractMeta refuses a metainfo without any tracker.
Init ==
    /\ announce \in URLs \cup {Empty}
    /\ \E tiers \in AnnounceLists : announceList = extractAnnounceList(tiers)
    /\ announce # Empty \/ announceList # <<>>
    /\ event \in {"", "started", "completed", "stopped"}
    /\ urls = TrackerURLs(announce, announceList)
    /\ index = 1
    /\ cancelled = FALSE
    /\ firstSuccessful = Nil
    /\ outcome = "none"
    /\ response = Nil
    /\ heard = <<>>

\* MUTANT of Suffices: any answer will do.
SufficesAlways(answer) == answer # Nil

\* MUTANT of Suffices: every tracker is told of the end of the download.
SufficesWithPeers(answer) == answer # Nil /\ answer.peers # <<>>

\* Whether this answer ends the search.
Suffices(answer) ==
    answer # Nil /\ (answer.peers # <<>> \/ event \in {"completed", "stopped"})

\* One turn of the loop.
AskNext ==
    /\ outcome = "none"
    /\ index <= Len(urls)
    /\ \E answer \in AnnounceURL(urls[index]) :
           /\ heard' = Append(heard, answer)
           /\ IF Suffices(answer)
              THEN /\ outcome' = "ok"
                   /\ response' = answer
                   /\ UNCHANGED firstSuccessful
              ELSE /\ firstSuccessful' = IF firstSuccessful = Nil THEN answer
                                         ELSE firstSuccessful
                   /\ UNCHANGED <<outcome, response>>
    /\ index' = index + 1
    /\ UNCHANGED <<announce, announceList, event, urls, cancelled>>

\* After the last tracker.
EndLoop ==
    /\ outcome = "none"
    /\ index > Len(urls)
    /\ outcome' = IF firstSuccessful # Nil THEN "ok" ELSE "failed"
    /\ response' = firstSuccessful
    /\ UNCHANGED <<announce, announceList, event, urls, index, cancelled,
                   firstSuccessful, heard>>

Cancel ==
    /\ ~cancelled
    /\ outcome = "none"
    /\ cancelled' = TRUE
    /\ UNCHANGED <<announce, announceList, event, urls, index, firstSuccessful,
                   outcome, response, heard>>

Next == AskNext \/ EndLoop \/ Cancel

Spec == Init /\ [][Next]_vars

-----------------------------------------------------------------------------
(* Properties.                                                             *)

Answered == {i \in DOMAIN heard : heard[i] # Nil}
WithPeers == {i \in Answered : heard[i].peers # <<>>}

\* No tracker with peers is hidden by an earlier one that fails or has none: if
\* AnnounceFirst returns no peers for a download, then every tracker that the
\* metainfo names anywhere was asked and none had any; and it fails only if all
\* of them did.
PeersNotHidden ==
    /\ outcome = "ok" /\ response.peers = <<>> /\ event \in {"", "started"} =>
           /\ WithPeers = {}
           /\ Len(heard) = Len(urls)
           /\ {announce} \cup UNION {Range(announceList[i]) :
                                         i \in DOMAIN announceList}
                  \subseteq Range(urls) \cup {Empty}
    /\ outcome = "failed" => Answered = {} /\ Len(heard) = Len(urls)

\* An announce counts once.  No tracker is asked twice, wherever and however often
\* the metainfo names it; and the end of a download is told to one tracker: no
\* other one answers after the first that did, and what is returned is that one's
\* answer.
ToldOnce ==
    /\ \A i, j \in DOMAIN heard : urls[i] = urls[j] => i = j
    /\ event \in {"completed", "stopped"} =>
           /\ \A i, j \in Answered : i = j
           /\ \A i \in Answered : outcome = "ok" /\ response = heard[i]

=============================================================================
