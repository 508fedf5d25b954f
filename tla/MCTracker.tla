----------------------------- MODULE MCTracker -----------------------------
(***************************************************************************)
(* Answers and announce-lists for model checking Tracker.                  *)
(***************************************************************************)
EXTENDS Tracker

MaxTier == 2        \* URLs of a tier
MaxTiers == 2

MCAnnounceLists ==
    BoundedSeq(BoundedSeq(URLs \cup {Empty}, MaxTier), MaxTiers)

Ports == 0 .. MaxPort + 1

Value(form, whole, entries) ==
    [form |-> form, whole |-> whole, entries |-> entries]

Absent == Value("absent", TRUE, <<>>)
Other  == Value("other", TRUE, <<>>)

\* A compact entry has an address, and a port of sixteen bits.
Compact(n) ==
    {Value("compact", whole, entries) : whole \in BOOLEAN,
         entries \in BoundedSeq([ip : IPs, port : 0 .. MaxPort], n)}

List(n) ==
    {Value("list", TRUE, entries) :
         entries \in BoundedSeq([ip : IPs \cup {Nil}, port : Ports], n)}

Body(failure, interval, counts, peers, peers6) ==
    [failure |-> failure, interval |-> interval, counts |-> counts,
     peers |-> peers, peers6 |-> peers6]

\* Every list of peers in an otherwise right answer, and every other mistake in
\* an answer with one peer.
MCHTTPAnswers ==
    LET one == CHOOSE v \in Compact(1) : v.whole /\ Len(v.entries) = 1
                                         /\ v.entries[1].port > 0
    IN  {Body(FALSE, MaxInterval, TRUE, peers, peers6) :
             peers \in {Absent, Other} \cup Compact(2) \cup List(2),
             peers6 \in {Absent, Other} \cup Compact(1)}
        \cup
        {Body(failure, interval, counts, one, Absent) :
             failure \in BOOLEAN, counts \in BOOLEAN,
             interval \in {Nil, -1, 0, 1, MaxInterval + 1}}

MCUDPAnswers ==
    {[interval |-> interval, peers |-> peers] :
         interval \in {0, 1, MaxInterval + 1}, peers \in Compact(2)}

=============================================================================
