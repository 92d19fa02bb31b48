----------------------------- MODULE LogStream -----------------------------
(***************************************************************************)
(* daemon/logring.py and the log stream of daemon/app.py: threads append   *)
(* records to a bounded ring and hand them to the event loop, where one    *)
(* SSE client replays the ring and then follows it through a bounded       *)
(* queue.  A record is its sequence number.                                *)
(*                                                                         *)
(* Other clients have queues of their own and share only the ring, so one  *)
(* client is enough.  The client may lose its connection and come back     *)
(* with the id of the last record it saw (Last-Event-ID).                  *)
(***************************************************************************)
EXTENDS Naturals, Sequences, SequencesExt

CONSTANTS
    Writer,      \* the threads that append: the tailer and those that call _emit
    Capacity,    \* LogRing's capacity
    QueueMax,    \* maxsize of the client's queue
    MaxRecords,  \* bound: records ever appended
    MaxConnects  \* bound: connections of the client

ASSUME SizesAssumption ==
    {Capacity, QueueMax, MaxRecords, MaxConnects} \subseteq Nat \ {0}

Record == 0..(MaxRecords - 1)
Cursor == 0..MaxRecords

VARIABLES
    next,        \* LogRing._next
    subscribed,  \* the client's push callback is in LogRing._subs
    hand,        \* the record each writer has appended and not yet pushed
    ready,       \* _put callbacks the loop has not run yet
    pc,          \* where the client's handler is
    since,       \* the cursor the client asked for
    boundary,    \* boundary["v"], the cursor of the replay
    backlog,     \* the records to replay
    after,       \* last_seq + 1
    q, drop,     \* the client's queue and what was dropped from it
    connects,    \* counter of the bound
    seen, told,  \* history: records the client got, records a gap frame covered
    swapped      \* history: records that two writers pushed in the wrong order

stream == <<pc, since, boundary, backlog, after>>
queues == <<ready, q, drop>>
history == <<seen, told, swapped>>
vars == <<next, subscribed, hand, stream, queues, connects, history>>

EmptyHand == [some |-> FALSE, seq |-> 0, to |-> 0]
NoDrop == [n |-> 0, from |-> 0, to |-> 0]

\* Records before r that some writer has appended and not yet pushed.
Overtaken(r) == {hand[w].seq : w \in {v \in Writer : hand[v].some /\ hand[v].seq < r}}

----------------------------------------------------------------------------
TypeOK ==
    /\ next \in Cursor
    /\ subscribed \in BOOLEAN
    /\ hand \in [Writer -> [some : BOOLEAN, seq : Record, to : 0..MaxConnects]]
    /\ ready \in Seq(Record)
    /\ q \in Seq(Record) /\ Len(q) <= QueueMax
    /\ pc \in {"off", "subscribed", "replay", "follow"}
    /\ {since, boundary, after} \subseteq Cursor
    /\ backlog \subseteq Record
    /\ drop \in [n : Nat, from : Record, to : Record]
    /\ connects \in 0..MaxConnects
    /\ seen \subseteq Record /\ told \subseteq Record /\ swapped \subseteq Record

Init ==
    /\ next = 0 /\ subscribed = FALSE
    /\ hand = [w \in Writer |-> EmptyHand]
    /\ ready = <<>> /\ q = <<>> /\ drop = NoDrop
    /\ pc = "off" /\ since \in Cursor /\ boundary = 0 /\ backlog = {} /\ after = 0
    /\ connects = 0
    /\ seen = {} /\ told = {} /\ swapped = {}

----------------------------------------------------------------------------
(* The writers.                                                            *)

\* append(), under the ring's lock: number the record and note who is subscribed.
AppendRecord(w) ==
    /\ ~hand[w].some /\ next < MaxRecords
    /\ hand' = [hand EXCEPT ![w] = [some |-> TRUE, seq |-> next,
                                    to |-> IF subscribed THEN connects ELSE 0]]
    /\ next' = next + 1
    /\ UNCHANGED <<subscribed, stream, queues, connects, history>>

\* MUTANT: one callback for all records that wait.
PushCoalesced(w) ==
    /\ hand[w].some
    /\ hand' = [hand EXCEPT ![w] = EmptyHand]
    /\ ready' = IF subscribed /\ ready = <<>> THEN <<hand[w].seq>> ELSE ready
    /\ UNCHANGED <<next, subscribed, stream, q, drop, connects, history>>

\* append(), after the lock: have the loop run _put.  A connection that has ended since
\* still gets it, into a queue nobody reads.
Push(w) ==
    LET r == hand[w].seq
    IN  /\ hand[w].some
        /\ hand' = [hand EXCEPT ![w] = EmptyHand]
        /\ ready' = IF subscribed /\ hand[w].to = connects THEN Append(ready, r) ELSE ready
        /\ swapped' = IF Overtaken(r) = {} THEN swapped ELSE swapped \cup {r} \cup Overtaken(r)
        /\ UNCHANGED <<next, subscribed, stream, q, drop, connects, seen, told>>

----------------------------------------------------------------------------
(* The handler and its generator, on the event loop.                       *)

\* MUTANT: resume from the last record seen instead of after it.
ConnectInclusive ==
    /\ pc = "off" /\ connects < MaxConnects
    /\ connects' = connects + 1
    /\ pc' = "subscribed" /\ subscribed' = TRUE
    /\ since' = IF seen = {} THEN since ELSE CHOOSE r \in seen : \A o \in seen : o <= r
    /\ told' = {}
    /\ UNCHANGED <<next, hand, boundary, backlog, after, queues, seen, swapped>>

\* A connection, or a new one after the last: a client that has seen records asks for
\* what follows the last of them.
Connect ==
    /\ pc = "off" /\ connects < MaxConnects
    /\ connects' = connects + 1
    /\ pc' = "subscribed" /\ subscribed' = TRUE
    /\ since' = IF seen = {} THEN since ELSE (CHOOSE r \in seen : \A o \in seen : o <= r) + 1
    /\ told' = {}
    /\ UNCHANGED <<next, hand, boundary, backlog, after, queues, seen, swapped>>

\* ring.since(): what the deque still holds from the cursor on, and the next cursor.
Held(c) ==
    {r \in Record : r >= c /\ r < next /\ r + Capacity >= next}

Snapshot ==
    /\ pc = "subscribed"
    /\ backlog' = Held(since) /\ boundary' = next
    /\ pc' = "replay"
    /\ UNCHANGED <<next, subscribed, hand, since, after, queues, connects, history>>

\* What the client has not got below r is announced as a gap: what the ring had evicted.
Announced(r) == told \cup {o \in Record : since <= o /\ o < r /\ o \notin seen}

\* The replay, frame by frame; the client may leave in between.
Replay ==
    /\ pc = "replay" /\ backlog # {}
    /\ LET r == CHOOSE r \in backlog : \A o \in backlog : r <= o
       IN  /\ told' = Announced(r)
           /\ seen' = seen \cup {r} /\ backlog' = backlog \ {r}
    /\ UNCHANGED <<next, subscribed, hand, pc, since, boundary, after, queues, connects, swapped>>

\* The end of the replay, and of an empty one: the gap reaches up to the cursor.
GoesLive ==
    /\ pc = "replay" /\ backlog = {}
    /\ told' = Announced(boundary)
    /\ after' = boundary /\ pc' = "follow"
    /\ UNCHANGED <<next, subscribed, hand, since, boundary, backlog, queues, connects, seen, swapped>>

\* _put: once the handler has yielded.  A record of the replay is skipped; a full queue
\* gives up its oldest record.
Dropped(old) ==
    [n |-> drop.n + 1, from |-> IF drop.n = 0 THEN old ELSE drop.from, to |-> old]

\* MUTANT: the queue grows past its size.
PutUnbounded ==
    /\ pc \in {"replay", "follow"} /\ ready # <<>>
    /\ ready' = Tail(ready)
    /\ q' = IF Head(ready) < boundary THEN q ELSE Append(q, Head(ready))
    /\ UNCHANGED <<next, subscribed, hand, stream, drop, connects, history>>

\* MUTANT: the first record after the replay is taken for its last.
PutOffByOne ==
    /\ pc \in {"replay", "follow"} /\ ready # <<>>
    /\ ready' = Tail(ready)
    /\ LET r == Head(ready)
       IN  IF r <= boundary THEN UNCHANGED <<q, drop>>
           ELSE IF Len(q) = QueueMax
             THEN q' = Append(Tail(q), r) /\ drop' = Dropped(Head(q))
             ELSE q' = Append(q, r) /\ drop' = drop
    /\ UNCHANGED <<next, subscribed, hand, stream, connects, history>>

Put ==
    /\ pc \in {"replay", "follow"} /\ ready # <<>>
    /\ ready' = Tail(ready)
    /\ LET r == Head(ready)
       IN  IF r < boundary THEN UNCHANGED <<q, drop>>
           ELSE IF Len(q) = QueueMax
             THEN q' = Append(Tail(q), r) /\ drop' = Dropped(Head(q))
             ELSE q' = Append(q, r) /\ drop' = drop
    /\ UNCHANGED <<next, subscribed, hand, stream, connects, history>>

\* A turn of the live loop: the gap so far, then the record.
Deliver ==
    LET r == Head(q)
    IN  /\ pc = "follow" /\ q # <<>> /\ Head(q) >= after
        /\ q' = Tail(q)
        /\ told' = IF drop.n = 0 THEN told ELSE told \cup drop.from..drop.to
        /\ drop' = NoDrop
        /\ seen' = seen \cup {r}
        /\ after' = r + 1
        /\ UNCHANGED <<next, subscribed, hand, pc, since, boundary, backlog, ready, connects, swapped>>

\* A record not after the last one delivered is taken for one of the backlog.
Skip ==
    /\ pc = "follow" /\ q # <<>> /\ Head(q) < after
    /\ q' = Tail(q)
    /\ UNCHANGED <<next, subscribed, hand, stream, ready, drop, connects, history>>

\* The client goes away; the generator's finally unsubscribes.
Disconnect ==
    /\ pc \in {"replay", "follow"}
    /\ pc' = "off" /\ subscribed' = FALSE
    /\ ready' = <<>> /\ q' = <<>> /\ drop' = NoDrop
    /\ backlog' = {} /\ boundary' = 0 /\ after' = 0
    /\ UNCHANGED <<next, hand, since, connects, history>>

----------------------------------------------------------------------------
Handler == Snapshot \/ Replay \/ GoesLive \/ Deliver \/ Skip

Next ==
    \/ \E w \in Writer : AppendRecord(w) \/ Push(w)
    \/ Connect \/ Handler \/ Put \/ Disconnect

\* The writers, the loop and a client that reads; nobody has to append or to disconnect.
Fairness ==
    /\ \A w \in Writer : WF_vars(Push(w))
    /\ WF_vars(Handler) /\ WF_vars(Put)

Spec == Init /\ [][Next]_vars /\ Fairness

----------------------------------------------------------------------------
(* Properties.                                                             *)

\* No silent loss: below any record the client got on this connection, every record from
\* its cursor on was delivered or covered by a gap frame.  Two writers that push in the
\* wrong order are the exception: the loop takes the record that comes late for one of the
\* backlog.
LossAnnounced ==
    \A r \in seen, s \in Record :
        since <= s /\ s < r => s \in seen \cup told \cup swapped

\* Each frame says something new: a record comes once, after all the ones before it, also
\* across a reconnect, and not after a gap frame has written it off.
OnceInOrder ==
    [][/\ \A r \in seen' \ seen, o \in seen : o < r
       /\ Replay => backlog \cap seen = {}
       /\ Deliver => Head(q) \notin seen \cup (told \ swapped)]_vars

----------------------------------------------------------------------------
(* What makes them inductive (the proofs are in LogStreamProofs).          *)

\* The records on their way to this connection: with the writers, and in all three places.
Hands == {hand[w].seq : w \in {v \in Writer : hand[v].some /\ subscribed /\ hand[v].to = connects}}
Flight == ToSet(q) \cup ToSet(ready) \cup Hands

\* What the next gap frame will cover.
Gap == IF drop.n = 0 THEN {} ELSE drop.from..drop.to

\* The numbers are handed out once, in order, and the handler's fields go with its place.
PlaceInv ==
    /\ subscribed <=> pc # "off"
    /\ pc = "off" => q = <<>> /\ ready = <<>> /\ drop.n = 0 /\ boundary = 0
    /\ pc = "subscribed" => q = <<>> /\ drop.n = 0 /\ told = {} /\ boundary = 0
    /\ \A w \in Writer : hand[w].to <= connects /\ (hand[w].some => hand[w].seq < next)
    /\ \A v, w \in Writer : hand[v].some /\ hand[w].some /\ hand[v].seq = hand[w].seq => v = w
    /\ \A r \in ToSet(q) \cup ToSet(ready) \cup seen \cup told : r < next
    /\ drop.n > 0 => drop.from < next /\ drop.to < next
    /\ boundary <= next /\ after <= next

\* The client has seen less than all that is still to come.
SeenInv ==
    /\ seen # {} => \E r \in seen : \A o \in seen : o <= r
    /\ pc = "subscribed" => \A o \in seen : o < since
    /\ pc = "replay" => /\ \A o \in seen \cup told \cup backlog : o < boundary
                        /\ \A o \in seen, r \in backlog : o < r
    /\ pc = "follow" => boundary <= after /\ \A o \in seen : o < after

\* What comes later is larger, or was swapped.
AllAhead(early, late) == \A x \in early, y \in late : x < y
Ascends(line, swaps) == \A i, j \in DOMAIN line : i < j => line[i] < line[j] \/ line[j] \in swaps

OrderInv ==
    /\ Ascends(q, swapped) /\ Ascends(ready, swapped)
    /\ AllAhead(ToSet(q), ToSet(ready) \ swapped)
    /\ AllAhead(ToSet(q) \cup ToSet(ready), Hands \ swapped)
    /\ drop.n > 0 => AllAhead({drop.from, drop.to}, Flight \ swapped)

\* What is larger comes later, or was swapped: behind a record in a line are all that the
\* client has to hear of after it.
Coming == {s \in Record : boundary <= s /\ s < next} \ swapped
Trails(line, behind, coming) ==
    \A i \in DOMAIN line, s \in coming :
        line[i] < s => s \in behind \/ \E j \in DOMAIN line : i < j /\ line[j] = s

BehindInv ==
    /\ \A h \in Hands, s \in Coming : h < s => s \in Hands
    /\ Trails(ready, Hands, Coming)
    /\ Trails(q, ToSet(ready) \cup Hands, Coming)

\* Nothing after the replay is lost: it has come, is on its way, or falls in the next gap.
CoverInv ==
    /\ pc \in {"replay", "follow"} =>
           \A s \in Coming : since <= s => s \in seen \cup told \cup Flight \cup Gap
    /\ pc = "follow" =>
           \A s \in Record : since <= s /\ s < after => s \in seen \cup told \cup swapped

\* What a gap frame has written off is not on its way any more.
ToldInv ==
    pc = "follow" => \A s \in told \cap Flight : s < after \/ s \in swapped

----------------------------------------------------------------------------
(* Liveness.                                                               *)

\* A connected client hears of every record in the end.
AllHeard ==
    \A s \in Record :
        (pc = "follow" /\ since <= s /\ s < next) ~>
            (pc # "follow" \/ s \in seen \cup told \cup swapped)
=============================================================================
